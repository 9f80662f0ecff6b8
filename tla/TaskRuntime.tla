----------------------------- MODULE TaskRuntime -----------------------------
(***************************************************************************)
(* The isolated runner (server/task_runtime.py): run_translation spawns a  *)
(* child process for one translation and supervises it; recover_leases, on *)
(* the next start of the server, deals with children that outlived theirs. *)
(*                                                                         *)
(* The supervisor, the child, its helper processes and the clock take      *)
(* their steps independently, signals take effect later than they are      *)
(* sent, and the server may die between any two steps.  The model is of    *)
(* the POSIX branch (sessions and signals); runs follow each other, as the *)
(* task manager's only worker thread calls them.                           *)
(***************************************************************************)
EXTENDS Naturals, Sequences

CONSTANT MaxRuns    \* bound on the number of runs

ASSUME MaxRunsAssumption == MaxRuns \in Nat \ {0}

Runs == 1..MaxRuns

VARIABLES
    server,         \* whether a server process is up
    pc,             \* where its supervisor (or its start) is
    run,            \* the run it supervises, or the last one
    orphaned,       \* runs up to this one belong to servers that are gone
    ready,          \* the child has said that it leads its own session
    cancelled,      \* cancel_event: the task manager wants the run stopped
    age,            \* deadline passed since the stop began
    phase,          \* what the supervisor last did about the stop
    terminal,       \* the child's last word, as far as received
    startupFailed,
    clean,          \* the process tree is known to be gone
    verdict,        \* what the run came to
    blocked,        \* the queue is blocked
    todo,           \* leases still to be looked at by recover_leases
    victim,         \* the lease whose process recover_leases waits for
    leader,         \* the child process of each run
    helper,         \* whether a process the child started is alive
    signal,         \* the strongest signal sent to the child's process group
    gate,           \* the children that may begin to work
    stop,           \* the cancellation event of the current child
    pipe,           \* messages of the current child on the control pipe
    lease           \* the lease file of each run

supervisor == <<ready, age, phase, terminal, startupFailed, clean, verdict>>
recovery == <<todo, victim>>
processes == <<leader, helper, signal, gate, stop, pipe>>
vars == <<server, pc, run, orphaned, cancelled, blocked, lease, supervisor,
          recovery, processes>>

-----------------------------------------------------------------------------
Orphan(r) == r <= orphaned

(* The supervisor of the run still holds the other end of its pipes. *)
Heard(r) == r = run /\ ~Orphan(r) /\ pc # "idle"

LeaderAlive(r) == leader[r] \notin {"none", "exited"}

(* The child touches the task's files only once it has passed the gate. *)
AtWork(r) == leader[r] \in {"working", "reported"} \/ helper[r]

Later == [requested |-> "terminating", terminating |-> "killing",
          killing |-> "overdue"]

(* Mutant of TreeAlive: processes that the child started do not count. *)
LeaderOnly == LeaderAlive(run)

(* _tree_alive: before the child leads a session only the child counts. *)
TreeAlive == LeaderAlive(run) \/ (ready /\ helper[run])

(* _terminate: the session, or the child alone before it leads one. *)
Send(kind) ==
    signal' = [signal EXCEPT ![run] =
                  IF ~ready /\ ~LeaderAlive(run) THEN @
                  ELSE IF @ = "kill" THEN @ ELSE kind]

-----------------------------------------------------------------------------
(* run_translation. *)

Start ==
    /\ server = "up" /\ pc = "idle" /\ ~blocked /\ run < MaxRuns
    /\ run' = run + 1
    /\ leader' = [leader EXCEPT ![run + 1] = "boot"]
    /\ pc' = "lease"
    /\ ready' = FALSE /\ cancelled' = FALSE /\ age' = "none" /\ phase' = "none"
    /\ terminal' = "none" /\ startupFailed' = FALSE /\ clean' = FALSE
    /\ verdict' = "none" /\ stop' = FALSE /\ pipe' = <<>>
    /\ UNCHANGED <<server, orphaned, blocked, recovery, helper, signal, gate, lease>>

(* The lease file is created, then filled. *)
OpenLease ==
    /\ pc = "lease"
    /\ lease' = [lease EXCEPT ![run] = "partial"]
    /\ pc' = "write"
    /\ UNCHANGED <<server, run, orphaned, cancelled, blocked, supervisor, recovery,
                   processes>>

WriteLease ==
    /\ pc = "write"
    /\ lease' = [lease EXCEPT ![run] = "written"]
    /\ pc' = "poll"
    /\ UNCHANGED <<server, run, orphaned, cancelled, blocked, supervisor, recovery,
                   processes>>

(* One pass of the loop.  The deadlines count from the request, which the  *)
(* supervisor may see late.                                                *)
Poll ==
    /\ pc = "poll" /\ pc' = "drain"
    /\ IF cancelled /\ age = "none"
       THEN /\ age' \in {"requested", "terminating", "killing", "overdue"}
            /\ phase' = "requested" /\ stop' = TRUE
       ELSE UNCHANGED <<age, phase, stop>>
    /\ UNCHANGED <<server, run, orphaned, cancelled, blocked, lease, ready, terminal,
                   startupFailed, clean, verdict, recovery, leader, helper, signal,
                   gate, pipe>>

(* A message that the reader thread has delivered.  The pipe is read on    *)
(* after the child is gone, for half a second at most.                     *)
Receive ==
    /\ pipe # <<>>
    /\ pc = "drain" \/ (pc = "deliver" /\ terminal = "none")
    /\ pipe' = Tail(pipe)
    /\ IF Head(pipe) = "ready"
       THEN /\ UNCHANGED terminal
            /\ IF pc = "drain"
               THEN ready' = TRUE /\ gate' = gate \cup {run}
               ELSE UNCHANGED <<ready, gate>>
       ELSE terminal' = Head(pipe) /\ UNCHANGED <<ready, gate>>
    /\ UNCHANGED <<server, pc, run, orphaned, cancelled, blocked, lease, age, phase,
                   startupFailed, clean, verdict, recovery, leader, helper, signal, stop>>

NothingMore ==
    /\ \/ pc = "drain" /\ pc' = "escalate"
       \/ pc = "deliver" /\ pc' = "returned"
    /\ UNCHANGED <<server, run, orphaned, cancelled, blocked, lease, supervisor,
                   recovery, processes>>

(* 10 seconds after the request the child is terminated, after 12 killed,  *)
(* after 15 given up.                                                      *)
Desired == IF age = "overdue" THEN "killing" ELSE age

(* Mutant of GiveUp: a child that cannot be killed is waited for. *)
GiveUpNever == FALSE

GiveUp == age = "overdue"

Escalate ==
    /\ pc = "escalate"
    /\ IF age = "none" \/ Desired = phase
       THEN UNCHANGED <<phase, signal>>
       ELSE /\ phase' = Desired
            /\ Send(IF Desired = "killing" THEN "kill" ELSE "term")
    /\ IF ~GiveUp
       THEN pc' = "check" /\ UNCHANGED <<clean, verdict>>
       ELSE IF TreeAlive
       THEN pc' = "unwind" /\ verdict' = "cleanup" /\ UNCHANGED clean
       ELSE pc' = "returned" /\ clean' = TRUE /\ UNCHANGED verdict
    /\ UNCHANGED <<server, run, orphaned, cancelled, blocked, lease, ready, age,
                   terminal, startupFailed, recovery, leader, helper, gate, stop, pipe>>

(* A child that has exited must leave no process behind. *)
ChildGone ==
    /\ pc = "check" /\ ~LeaderAlive(run)
    /\ IF ~TreeAlive
       THEN clean' = TRUE /\ pc' = "deliver" /\ UNCHANGED <<age, phase, signal>>
       ELSE /\ pc' = "poll" /\ UNCHANGED clean
            /\ IF age = "none"
               THEN age' = "requested" /\ phase' = "terminating" /\ Send("term")
               ELSE UNCHANGED <<age, phase, signal>>
    /\ UNCHANGED <<server, run, orphaned, cancelled, blocked, lease, ready, terminal,
                   startupFailed, verdict, recovery, leader, helper, gate, stop, pipe>>

(* A child that is not ready in time is stopped. *)
ChildThere ==
    /\ pc = "check" /\ LeaderAlive(run) /\ pc' = "poll"
    /\ \/ UNCHANGED <<age, phase, startupFailed, stop, signal>>
       \/ /\ ~ready /\ age = "none"
          /\ startupFailed' = TRUE /\ age' = "requested" /\ phase' = "terminating"
          /\ stop' = TRUE /\ Send("term")
    /\ UNCHANGED <<server, run, orphaned, cancelled, blocked, lease, ready, terminal,
                   clean, verdict, recovery, leader, helper, gate, pipe>>

(* Mutant of Verdict: a start that timed out ends as the child says. *)
VerdictIgnoresStart ==
    IF cancelled THEN "cancelled" ELSE IF terminal = "none" THEN "error" ELSE terminal

Verdict ==
    IF cancelled THEN "cancelled"
    ELSE IF startupFailed \/ terminal = "none" THEN "error"
    ELSE terminal

Return ==
    /\ pc = "returned" /\ pc' = "unwind"
    /\ verdict' = Verdict
    /\ UNCHANGED <<server, run, orphaned, cancelled, blocked, lease, ready, age, phase,
                   terminal, startupFailed, clean, recovery, processes>>

(* A callback, a log or the lease fails: the exception passes through. *)
Raise ==
    /\ pc \in {"lease", "write", "poll", "drain", "escalate", "check", "deliver",
               "returned"}
    /\ pc' = "unwind" /\ verdict' = "error"
    /\ UNCHANGED <<server, run, orphaned, cancelled, blocked, lease, ready, age, phase,
                   terminal, startupFailed, clean, recovery, processes>>

(* The finally block: kill what may be left, wait a little, look again. *)
Unwind ==
    /\ pc = "unwind"
    /\ IF clean
       THEN pc' = "close" /\ UNCHANGED signal
       ELSE pc' = "join" /\ Send("kill")
    /\ UNCHANGED <<server, run, orphaned, cancelled, blocked, lease, supervisor,
                   recovery, leader, helper, gate, stop, pipe>>

Join ==
    /\ pc = "join" /\ pc' = "close"
    /\ clean' = ~TreeAlive
    /\ UNCHANGED <<server, run, orphaned, cancelled, blocked, lease, ready, age, phase,
                   terminal, startupFailed, verdict, recovery, processes>>

(* The lease goes only with the tree; otherwise the queue is blocked       *)
(* (TaskManager._run_task).                                                *)
Close ==
    /\ pc = "close" /\ pc' = "idle"
    /\ lease' = [lease EXCEPT ![run] = IF clean THEN "none" ELSE @]
    /\ verdict' = IF clean THEN verdict ELSE "cleanup"
    /\ blocked' = (blocked \/ verdict' = "cleanup")
    /\ UNCHANGED <<server, run, orphaned, cancelled, ready, age, phase, terminal,
                   startupFailed, clean, recovery, processes>>

Supervise == \/ Start \/ OpenLease \/ WriteLease \/ Poll \/ Receive \/ NothingMore
             \/ Escalate \/ ChildGone \/ ChildThere \/ Return \/ Raise \/ Unwind
             \/ Join \/ Close

-----------------------------------------------------------------------------
(* The task manager stops the run; the clock. *)
Cancel ==
    /\ server = "up" /\ run > orphaned /\ pc \notin {"idle", "recover", "reap"}
    /\ cancelled' = TRUE
    /\ UNCHANGED <<server, pc, run, orphaned, blocked, lease, supervisor, recovery,
                   processes>>

TimePasses ==
    /\ age \in DOMAIN Later /\ age' = Later[age]
    /\ pc \notin {"idle", "recover", "reap"}
    /\ UNCHANGED <<server, pc, run, orphaned, cancelled, blocked, lease, ready, phase,
                   terminal, startupFailed, clean, verdict, recovery, processes>>

-----------------------------------------------------------------------------
(* child_entry, and the processes it starts. *)

Become(r, state) == leader' = [leader EXCEPT ![r] = state]
Others == <<server, pc, run, orphaned, cancelled, blocked, lease, supervisor, recovery>>

(* A new session, and a word to the supervisor if there still is one. *)
LeadSession(r) ==
    /\ leader[r] = "boot"
    /\ IF ~Heard(r)
       THEN Become(r, "exited") /\ UNCHANGED pipe
       ELSE Become(r, "waiting") /\ pipe' = Append(pipe, "ready")
    /\ UNCHANGED <<Others, helper, signal, gate, stop>>

(* Mutant of PassGate: the child does not wait. *)
PassWithoutGate(r) ==
    /\ leader[r] = "waiting" /\ Become(r, "working")
    /\ UNCHANGED <<Others, helper, signal, gate, stop, pipe>>

PassGate(r) ==
    /\ leader[r] = "waiting" /\ r \in gate
    /\ Become(r, "working")
    /\ UNCHANGED <<Others, helper, signal, gate, stop, pipe>>

(* Nobody opens the gate for 15 seconds. *)
LeaveGate(r) ==
    /\ leader[r] = "waiting" /\ r \notin gate
    /\ Become(r, "exited")
    /\ UNCHANGED <<Others, helper, signal, gate, stop, pipe>>

Fork(r) ==
    /\ leader[r] = "working" /\ ~helper[r] /\ signal[r] = "none"
    /\ helper' = [helper EXCEPT ![r] = TRUE]
    /\ UNCHANGED <<Others, leader, signal, gate, stop, pipe>>

Report(r) ==
    /\ leader[r] = "working"
    /\ IF ~Heard(r)
       THEN Become(r, "exited") /\ UNCHANGED pipe
       ELSE /\ Become(r, "reported")
            /\ \E word \in {"result", "error"} \cup (IF stop THEN {"cancelled"} ELSE {}) :
                  pipe' = Append(pipe, word)
    /\ UNCHANGED <<Others, helper, signal, gate, stop>>

(* The child exits: done, struck by a signal, or crashed at work. *)
Exit(r) ==
    /\ \/ leader[r] \in {"working", "reported"}
       \/ LeaderAlive(r) /\ signal[r] # "none"
    /\ Become(r, "exited")
    /\ UNCHANGED <<Others, helper, signal, gate, stop, pipe>>

HelperExit(r) ==
    /\ helper[r]
    /\ helper' = [helper EXCEPT ![r] = FALSE]
    /\ UNCHANGED <<Others, leader, signal, gate, stop, pipe>>

(* Mutant of Watchdog: any server will do. *)
WatchdogWhileDown(r) ==
    /\ leader[r] = "working" /\ server = "down"
    /\ Become(r, "exited")
    /\ signal' = [signal EXCEPT ![r] = "kill"]
    /\ UNCHANGED <<Others, helper, gate, stop, pipe>>

(* The watchdog thread of a child at work kills its own session when the   *)
(* server that started it is gone.                                         *)
Watchdog(r) ==
    /\ leader[r] = "working" /\ Orphan(r)
    /\ Become(r, "exited")
    /\ signal' = [signal EXCEPT ![r] = "kill"]
    /\ UNCHANGED <<Others, helper, gate, stop, pipe>>

Process(r) == LeadSession(r) \/ PassGate(r) \/ LeaveGate(r) \/ Fork(r) \/ Report(r)
                \/ Exit(r) \/ HelperExit(r) \/ Watchdog(r)

-----------------------------------------------------------------------------
(* The server dies; the next one looks at the leases it finds. *)
Crash ==
    /\ server = "up"
    /\ server' = "down" /\ pc' = "idle" /\ orphaned' = run
    /\ todo' = {} /\ victim' = 0 /\ pipe' = <<>>
    /\ UNCHANGED <<run, cancelled, blocked, lease, supervisor, leader, helper, signal,
                   gate, stop>>

Restart ==
    /\ server = "down"
    /\ server' = "up" /\ pc' = "recover"
    /\ todo' = {r \in Runs : lease[r] # "none"}
    /\ blocked' = FALSE
    /\ UNCHANGED <<run, orphaned, cancelled, lease, supervisor, victim, processes>>

(* Mutant of SessionGone: a session whose leader is gone counts as gone. *)
LeaderGone(r) == ~LeaderAlive(r)

(* No process of the session is left. *)
SessionGone(r) == ~LeaderAlive(r) /\ ~helper[r]

(* What one lease says: a file cut short, a process that is gone (its      *)
(* helpers may not be), one that leads no session yet, or one to kill.     *)
Recover(r) ==
    /\ pc = "recover" /\ r \in todo
    /\ IF lease[r] = "written" /\ leader[r] \in {"waiting", "working", "reported"}
       THEN /\ signal' = [signal EXCEPT ![r] = "kill"]
            /\ pc' = "reap" /\ victim' = r
            /\ UNCHANGED <<todo, blocked, lease>>
       ELSE /\ todo' = todo \ {r}
            /\ IF lease[r] = "written" /\ SessionGone(r)
               THEN lease' = [lease EXCEPT ![r] = "none"] /\ UNCHANGED blocked
               ELSE blocked' = TRUE /\ UNCHANGED lease
            /\ UNCHANGED <<pc, victim, signal>>
    /\ UNCHANGED <<server, run, orphaned, cancelled, supervisor, leader, helper, gate,
                   stop, pipe>>

(* Two seconds for the killed process to be gone. *)
Reap ==
    /\ pc = "reap" /\ pc' = "recover"
    /\ todo' = todo \ {victim} /\ victim' = 0
    /\ IF LeaderAlive(victim)
       THEN blocked' = TRUE /\ UNCHANGED lease
       ELSE lease' = [lease EXCEPT ![victim] = "none"] /\ UNCHANGED blocked
    /\ UNCHANGED <<server, run, orphaned, cancelled, supervisor, processes>>

Recovered ==
    /\ pc = "recover" /\ todo = {}
    /\ pc' = "idle"
    /\ UNCHANGED <<server, run, orphaned, cancelled, blocked, lease, supervisor,
                   recovery, processes>>

-----------------------------------------------------------------------------
Init ==
    /\ server = "up" /\ pc = "idle" /\ run = 0 /\ orphaned = 0
    /\ ready = FALSE /\ cancelled = FALSE /\ age = "none" /\ phase = "none"
    /\ terminal = "none" /\ startupFailed = FALSE /\ clean = FALSE /\ verdict = "none"
    /\ blocked = FALSE /\ todo = {} /\ victim = 0
    /\ leader = [r \in Runs |-> "none"] /\ helper = [r \in Runs |-> FALSE]
    /\ signal = [r \in Runs |-> "none"] /\ gate = {} /\ stop = FALSE /\ pipe = <<>>
    /\ lease = [r \in Runs |-> "none"]

Next == \/ Supervise \/ Cancel \/ TimePasses
        \/ \E r \in Runs : Process(r) \/ Recover(r)
        \/ Crash \/ Restart \/ Reap \/ Recovered

Spec == Init /\ [][Next]_vars

(* The supervisor's thread is scheduled and the clock runs.  Nothing is    *)
(* assumed of the child: it may hang, and survive a signal for as long as  *)
(* it likes.                                                               *)
Attentive == WF_vars(OpenLease \/ WriteLease \/ Poll \/ NothingMore \/ Escalate
                     \/ ChildGone \/ ChildThere \/ Return \/ Unwind \/ Join \/ Close)
             /\ WF_vars(TimePasses)

(* What the operating system does: a killed process goes away in the end,  *)
(* and the threads of a child run.                                         *)
Reaped ==
    \A r \in Runs :
        /\ WF_vars(LeadSession(r)) /\ WF_vars(PassGate(r)) /\ WF_vars(LeaveGate(r))
        /\ WF_vars(Watchdog(r)) /\ WF_vars(leader[r] = "reported" /\ Exit(r))
        /\ WF_vars(signal[r] = "kill" /\ Exit(r))

-----------------------------------------------------------------------------
TypeOK ==
    /\ server \in {"up", "down"}
    /\ pc \in {"idle", "lease", "write", "poll", "drain", "escalate", "check", "deliver",
               "returned", "unwind", "join", "close", "recover", "reap"}
    /\ run \in 0..MaxRuns /\ orphaned \in 0..run
    /\ ready \in BOOLEAN /\ cancelled \in BOOLEAN /\ startupFailed \in BOOLEAN
    /\ clean \in BOOLEAN /\ blocked \in BOOLEAN /\ stop \in BOOLEAN
    /\ age \in {"none", "requested", "terminating", "killing", "overdue"}
    /\ phase \in {"none", "requested", "terminating", "killing"}
    /\ terminal \in {"none", "result", "cancelled", "error"}
    /\ verdict \in {"none", "result", "cancelled", "error", "cleanup"}
    /\ todo \subseteq Runs /\ victim \in 0..MaxRuns /\ (victim # 0 <=> pc = "reap")
    /\ leader \in [Runs -> {"none", "boot", "waiting", "working", "reported", "exited"}]
    /\ helper \in [Runs -> BOOLEAN]
    /\ signal \in [Runs -> {"none", "term", "kill"}]
    /\ gate \subseteq Runs
    /\ pipe \in Seq({"ready", "result", "cancelled", "error"})
    /\ lease \in [Runs -> {"none", "partial", "written"}]

(* Two translations never work on files side by side, over any number of   *)
(* crashes and restarts, except that one of them has been killed and is on *)
(* its way out (run_translation, recover_leases).                          *)
AloneAtWork ==
    \A r, s \in Runs : r < s /\ AtWork(r) /\ AtWork(s) => signal[r] = "kill"

(* Whoever is at work, and not killed, has a complete lease: if the server *)
(* dies now, the next one will find the process.                           *)
LeaseCoversWork ==
    \A r \in Runs : AtWork(r) /\ signal[r] # "kill" => lease[r] = "written"

(* A run that returned left no process: its output files are final, and    *)
(* its result is that of a child that was not stopped.                     *)
ReturnedRunIsOver ==
    server = "up" /\ pc = "idle" /\ run > orphaned /\ verdict # "cleanup" =>
        /\ ~AtWork(run) /\ leader[run] = "exited" /\ lease[run] = "none"
        /\ verdict = "result" => ~stop

(* Only what the task manager cancelled is reported as cancelled: not a    *)
(* start that timed out, although the child is then told to stop and may   *)
(* say so, nor a run whose left-over processes had to be stopped.          *)
CancelledOnlyIfAsked ==
    [][verdict' = "cancelled" /\ verdict # "cancelled" => cancelled]_vars

(* A run that is to be stopped returns, whatever the child does. *)
StopReturns ==
    Attentive =>
        (cancelled /\ pc # "idle" /\ run > orphaned ~> pc = "idle" \/ server = "down")

(* A child does not outlive its server for ever, once it works. *)
OrphansExit ==
    Reaped => \A r \in Runs : Orphan(r) /\ LeaderAlive(r) ~> ~LeaderAlive(r)
=============================================================================
