--------------------------- MODULE TaskRuntimeProofs ---------------------------
(***************************************************************************)
(* Proofs about TaskRuntime, for any number of runs, crashes and restarts. *)
(***************************************************************************)
EXTENDS TaskRuntime, TLAPS

-----------------------------------------------------------------------------
(* The inductive invariant. *)

Recovering == {"recover", "reap"}
\* Before the verdict of the run ...
Before == {"lease", "write", "poll", "drain", "escalate", "check", "deliver", "returned"}
\* ... and after it.
After == {"unwind", "join", "close"}
Supervising == Before \cup After

\* Where the server is, and whose the runs are.
Places ==
    /\ server = "down" => pc = "idle" /\ orphaned = run
    /\ pc \in Recovering => server = "up" /\ orphaned = run
    /\ pc \in Supervising => server = "up" /\ orphaned < run

Alive(r) == LeaderAlive(r) \/ helper[r]

\* A child is there from its start; it works only once the gate was opened.
Children ==
    \A r \in Runs :
        /\ leader[r] = "none" <=> r > run
        /\ r \in gate => r <= run
        /\ AtWork(r) => r \in gate

\* What the supervisor knows of the run it is at.
Supervised ==
    /\ pc \in {"lease", "write"} => run \notin gate
    /\ pc \in {"poll", "drain", "escalate", "check"} => lease[run] = "written"
    /\ pc \in Supervising /\ run \in gate => ready
    /\ pc \in Supervising /\ clean => leader[run] = "exited" /\ ~helper[run]

\* A child that was told to stop was so for a reason that the verdict sees.
Words ==
    /\ pc \in Before => verdict = "none" /\ (stop => cancelled \/ startupFailed)
    /\ pc \notin Before /\ verdict = "result" => ~stop

\* The word "cancelled" is on its way, or was heard, for such a reason only.
Said(word) == \E i \in 1..Len(pipe) : pipe[i] = word
Asked ==
    pc \in Before /\ (terminal = "cancelled" \/ Said("cancelled")) =>
        cancelled \/ startupFailed

\* A run that may go on working, or begin to, and that nobody has killed ...
Loose(r) == r \in gate /\ Alive(r) /\ signal[r] # "kill"

\* ... can be found by its lease, is the last one, and if nobody supervises it
\* any more it is still to be looked at, or has blocked the queue.
Covered == \A r \in Runs : Loose(r) => lease[r] = "written"
Last == \A r \in Runs : Loose(r) => r = run
LookedAt ==
    /\ server = "up" /\ pc \in Recovering \cup {"idle"} =>
         \A r \in Runs : Loose(r) => blocked \/ (pc \in Recovering /\ r \in todo)
    /\ pc = "reap" => victim \in Runs /\ signal[victim] = "kill"

Inv ==
    /\ TypeOK /\ Places /\ Children /\ Supervised /\ Words /\ Asked
    /\ Covered /\ Last /\ LookedAt
    /\ ReturnedRunIsOver

-----------------------------------------------------------------------------
(* Types. *)

\* The run that is supervised, or whose child is there, is one of the runs.
LEMMA RunIsThere ==
    ASSUME TypeOK, Places, pc \in Supervising
    PROVE  run \in Runs /\ run \in Nat /\ orphaned \in Nat /\ run > 0
BY MaxRunsAssumption DEF TypeOK, Places, Runs

LEMMA SendType ==
    ASSUME TypeOK, NEW kind \in {"term", "kill"}, Send(kind)
    PROVE  signal' \in [Runs -> {"none", "term", "kill"}]
BY DEF TypeOK, Send

LEMMA ProcessType ==
    ASSUME TypeOK, NEW r \in Runs, Process(r)
    PROVE  TypeOK'
<1> USE DEF TypeOK, Others, supervisor, recovery, Become
<1>1. CASE LeadSession(r)
  <2>1. pipe' \in Seq({"ready", "result", "cancelled", "error"}) BY <1>1 DEF LeadSession
  <2>2. leader' \in [Runs -> {"none", "boot", "waiting", "working", "reported", "exited"}]
    BY <1>1 DEF LeadSession
  <2> QED BY <1>1, <2>1, <2>2 DEF LeadSession
<1>2. CASE PassGate(r) BY <1>2 DEF PassGate
<1>3. CASE LeaveGate(r) BY <1>3 DEF LeaveGate
<1>4. CASE Fork(r) BY <1>4 DEF Fork
<1>5. CASE Report(r) BY <1>5 DEF Report
<1>6. CASE Exit(r) BY <1>6 DEF Exit
<1>7. CASE HelperExit(r) BY <1>7 DEF HelperExit
<1>8. CASE Watchdog(r) BY <1>8 DEF Watchdog
<1> QED BY <1>1, <1>2, <1>3, <1>4, <1>5, <1>6, <1>7, <1>8 DEF Process

LEMMA TypeStep == TypeOK /\ Places /\ [Next]_vars => TypeOK'
<1> SUFFICES ASSUME TypeOK, Places, [Next]_vars PROVE TypeOK' OBVIOUS
<1> USE DEF TypeOK, supervisor, recovery, processes
<1>1. CASE Start
  <2>1. run + 1 \in Runs /\ run' \in 0..MaxRuns /\ orphaned \in 0..run'
    BY <1>1, MaxRunsAssumption DEF Start, Runs
  <2>2. leader' \in [Runs -> {"none", "boot", "waiting", "working", "reported", "exited"}]
    BY <1>1 DEF Start
  <2>3. pipe' \in Seq({"ready", "result", "cancelled", "error"}) BY <1>1 DEF Start
  <2> QED BY <1>1, <2>1, <2>2, <2>3 DEF Start
<1>2. CASE OpenLease
  <2>1. lease' \in [Runs -> {"none", "partial", "written"}] BY <1>2 DEF OpenLease
  <2> QED BY <1>2, <2>1 DEF OpenLease
<1>3. CASE WriteLease
  <2>1. lease' \in [Runs -> {"none", "partial", "written"}] BY <1>3 DEF WriteLease
  <2> QED BY <1>3, <2>1 DEF WriteLease
<1>4. CASE Poll
  <2>1. /\ age' \in {"none", "requested", "terminating", "killing", "overdue"}
        /\ phase' \in {"none", "requested", "terminating", "killing"}
        /\ stop' \in BOOLEAN
    BY <1>4 DEF Poll
  <2> QED BY <1>4, <2>1 DEF Poll
<1>5. CASE Receive
  <2>1. run \in Runs BY <1>5, RunIsThere DEF Receive, Supervising, Before
  <2>2. Head(pipe) \in {"ready", "result", "cancelled", "error"}
        /\ Tail(pipe) \in Seq({"ready", "result", "cancelled", "error"})
    BY <1>5 DEF Receive
  <2>3. pipe' \in Seq({"ready", "result", "cancelled", "error"}) BY <1>5, <2>2 DEF Receive
  <2>4. /\ terminal' \in {"none", "result", "cancelled", "error"}
        /\ ready' \in BOOLEAN /\ gate' \subseteq Runs
    BY <1>5, <2>1, <2>2 DEF Receive
  <2> QED BY <1>5, <2>3, <2>4 DEF Receive
<1>6. CASE NothingMore BY <1>6 DEF NothingMore
<1>7. CASE Escalate
  <2>1. phase' \in {"none", "requested", "terminating", "killing"}
    BY <1>7 DEF Escalate, Desired
  <2>2. signal' \in [Runs -> {"none", "term", "kill"}]
    BY <1>7, SendType DEF Escalate
  <2>3. pc' \in {"check", "unwind", "returned"} /\ clean' \in BOOLEAN
        /\ verdict' \in {verdict, "cleanup"}
    BY <1>7 DEF Escalate
  <2> QED BY <1>7, <2>1, <2>2, <2>3 DEF Escalate
<1>8. CASE ChildGone
  <2>1. signal' \in [Runs -> {"none", "term", "kill"}] BY <1>8, SendType DEF ChildGone
  <2>2. /\ age' \in {age, "requested"} /\ phase' \in {phase, "terminating"}
        /\ pc' \in {"deliver", "poll"} /\ clean' \in BOOLEAN
    BY <1>8 DEF ChildGone
  <2> QED BY <1>8, <2>1, <2>2 DEF ChildGone
<1>9. CASE ChildThere
  <2>1. signal' \in [Runs -> {"none", "term", "kill"}] BY <1>9, SendType DEF ChildThere
  <2>2. /\ age' \in {age, "requested"} /\ phase' \in {phase, "terminating"}
        /\ startupFailed' \in BOOLEAN /\ stop' \in BOOLEAN
    BY <1>9 DEF ChildThere
  <2> QED BY <1>9, <2>1, <2>2 DEF ChildThere
<1>10. CASE Return BY <1>10 DEF Return, Verdict
<1>11. CASE Raise BY <1>11 DEF Raise
<1>12. CASE Unwind BY <1>12, SendType DEF Unwind
<1>13. CASE Join BY <1>13 DEF Join
<1>14. CASE Close
  <2>1. lease' \in [Runs -> {"none", "partial", "written"}] BY <1>14 DEF Close
  <2>2. verdict' \in {verdict, "cleanup"} /\ blocked' \in BOOLEAN BY <1>14 DEF Close
  <2> QED BY <1>14, <2>1, <2>2 DEF Close
<1>15. CASE Cancel BY <1>15 DEF Cancel
<1>16. CASE TimePasses BY <1>16 DEF TimePasses, Later
<1>17. ASSUME NEW r \in Runs, Process(r) PROVE TypeOK' BY <1>17, ProcessType
<1>18. ASSUME NEW r \in Runs, Recover(r) PROVE TypeOK'
  <2>1. lease' \in [Runs -> {"none", "partial", "written"}]
        /\ signal' \in [Runs -> {"none", "term", "kill"}]
    BY <1>18 DEF Recover
  <2>2. todo' \subseteq Runs /\ blocked' \in BOOLEAN BY <1>18 DEF Recover
  <2>3. r \in 0..MaxRuns /\ r # 0 BY MaxRunsAssumption DEF Runs
  <2>4. victim' \in 0..MaxRuns /\ pc' \in {"recover", "reap"} /\ (victim' # 0 <=> pc' = "reap")
    BY <1>18, <2>3 DEF Recover
  <2> QED BY <1>18, <2>1, <2>2, <2>4 DEF Recover
<1>19. CASE Crash BY <1>19, MaxRunsAssumption DEF Crash
<1>20. CASE Restart
  <2>1. pc # "reap" BY <1>20 DEF Restart, Places
  <2>2. todo' \subseteq Runs /\ (victim' # 0 <=> pc' = "reap") BY <1>20, <2>1 DEF Restart
  <2>3. /\ server' = "up" /\ pc' = "recover" /\ blocked' \in BOOLEAN
        /\ UNCHANGED <<run, orphaned, cancelled, lease, supervisor, victim, processes>>
    BY <1>20 DEF Restart
  <2> QED BY <2>2, <2>3
<1>21. CASE Reap
  <2>1. lease' \in [Runs -> {"none", "partial", "written"}] BY <1>21 DEF Reap
  <2>2. blocked' \in BOOLEAN BY <1>21 DEF Reap
  <2>3. todo' \subseteq Runs BY <1>21 DEF Reap
  <2>4. victim' \in 0..MaxRuns /\ (victim' # 0 <=> pc' = "reap")
    BY <1>21, MaxRunsAssumption DEF Reap
  <2> QED BY <1>21, <2>1, <2>2, <2>3, <2>4 DEF Reap
<1>22. CASE Recovered BY <1>22 DEF Recovered
<1>23. CASE UNCHANGED vars BY <1>23 DEF vars
<1> QED BY <1>1, <1>2, <1>3, <1>4, <1>5, <1>6, <1>7, <1>8, <1>9, <1>10, <1>11, <1>12,
           <1>13, <1>14, <1>15, <1>16, <1>17, <1>18, <1>19, <1>20, <1>21, <1>22, <1>23
        DEF Next, Supervise

-----------------------------------------------------------------------------
(* The processes. *)

\* What the child of one run, or a helper, does to it and to the others.
Moves(s) ==
    /\ leader'[s] = "none" <=> leader[s] = "none"
    /\ leader[s] = "exited" => leader'[s] = "exited"
    /\ AtWork(s)' => AtWork(s) \/ s \in gate
    /\ Alive(s)' => Alive(s)
    /\ signal[s] = "kill" => signal'[s] = "kill"

LEMMA ProcessMoves ==
    ASSUME TypeOK, NEW r \in Runs, Process(r)
    PROVE  /\ UNCHANGED <<server, pc, run, orphaned, cancelled, blocked, lease, ready,
                          clean, verdict, startupFailed, todo, victim, gate, stop>>
           /\ \A s \in Runs : Moves(s)
<1> USE DEF Others, supervisor, recovery, Become, Moves, AtWork, Alive, LeaderAlive
<1>0. /\ leader \in [Runs -> {"none", "boot", "waiting", "working", "reported", "exited"}]
      /\ helper \in [Runs -> BOOLEAN] /\ signal \in [Runs -> {"none", "term", "kill"}]
  BY DEF TypeOK
<1>1. CASE LeadSession(r) BY <1>0, <1>1 DEF LeadSession
<1>2. CASE PassGate(r) BY <1>0, <1>2 DEF PassGate
<1>3. CASE LeaveGate(r) BY <1>0, <1>3 DEF LeaveGate
<1>4. CASE Fork(r) BY <1>0, <1>4 DEF Fork
<1>5. CASE Report(r) BY <1>0, <1>5 DEF Report
<1>6. CASE Exit(r) BY <1>0, <1>6 DEF Exit
<1>7. CASE HelperExit(r) BY <1>0, <1>7 DEF HelperExit
<1>8. CASE Watchdog(r) BY <1>0, <1>8 DEF Watchdog
<1> QED BY <1>1, <1>2, <1>3, <1>4, <1>5, <1>6, <1>7, <1>8 DEF Process

\* A signal is never taken back.
LEMMA SendMoves ==
    ASSUME TypeOK, NEW kind, Send(kind), NEW s \in Runs, signal[s] = "kill"
    PROVE  signal'[s] = "kill"
BY DEF TypeOK, Send

\* The actions that leave the processes alone.
LEMMA Still ==
    (OpenLease \/ WriteLease \/ Poll \/ NothingMore \/ Escalate \/ ChildGone \/ ChildThere
       \/ Return \/ Raise \/ Unwind \/ Join \/ Close \/ Cancel \/ TimePasses
       \/ Crash \/ Restart \/ Reap \/ Recovered \/ (\E r \in Runs : Recover(r))
       \/ UNCHANGED vars)
    => UNCHANGED <<run, leader, helper, gate>>
BY DEF OpenLease, WriteLease, Poll, NothingMore, Escalate, ChildGone, ChildThere,
       Return, Raise, Unwind, Join, Close, Cancel, TimePasses, Crash, Restart, Reap,
       Recovered, Recover, vars, processes

LEMMA StartMoves ==
    ASSUME TypeOK, Children, Start
    PROVE  /\ run \in Nat /\ run + 1 \in Runs /\ run' = run + 1
           /\ leader'[run + 1] = "boot" /\ ~helper[run + 1] /\ run + 1 \notin gate
           /\ \A s \in Runs \ {run + 1} : leader'[s] = leader[s]
           /\ UNCHANGED <<helper, gate, signal>>
<1>1. run \in Nat /\ run + 1 \in Runs
  BY MaxRunsAssumption DEF TypeOK, Runs, Start
<1>2. run + 1 \notin gate /\ ~AtWork(run + 1)
  BY <1>1 DEF Children
<1>3. /\ leader'[run + 1] = "boot"
      /\ \A s \in Runs \ {run + 1} : leader'[s] = leader[s]
  BY <1>1 DEF Start, TypeOK
<1> QED BY <1>1, <1>2, <1>3 DEF Start, AtWork

LEMMA PlacesStep == TypeOK /\ Places /\ [Next]_vars => Places'
<1> SUFFICES ASSUME TypeOK, Places, [Next]_vars PROVE Places' OBVIOUS
<1> USE DEF Places, Supervising, Before, After, Recovering
<1>1. CASE UNCHANGED <<server, pc, run, orphaned>> BY <1>1
<1>2. CASE Start
  <2>1. run' = run + 1 /\ orphaned <= run /\ run \in Nat /\ orphaned \in Nat
    BY <1>2, MaxRunsAssumption DEF Start, TypeOK
  <2>2. orphaned < run' BY <2>1
  <2> QED BY <1>2, <2>2 DEF Start
<1>3. CASE OpenLease \/ WriteLease \/ Poll \/ Return \/ Raise \/ Unwind \/ Join
  BY <1>3 DEF OpenLease, WriteLease, Poll, Return, Raise, Unwind, Join
<1>4. CASE NothingMore \/ ChildGone \/ ChildThere \/ Close
  BY <1>4 DEF NothingMore, ChildGone, ChildThere, Close
<1>5. CASE Escalate
  <2>1. pc = "escalate" /\ pc' \in {"check", "unwind", "returned"}
        /\ UNCHANGED <<server, run, orphaned>>
    BY <1>5 DEF Escalate
  <2> QED BY <2>1
<1>6. CASE Receive \/ Cancel \/ TimePasses
  BY <1>1, <1>6 DEF Receive, Cancel, TimePasses
<1>7. ASSUME NEW r \in Runs, Process(r) PROVE Places'
  BY <1>1, <1>7, ProcessMoves
<1>8. ASSUME NEW r \in Runs, Recover(r) PROVE Places'
  <2>1. pc = "recover" /\ pc' \in {"recover", "reap"} /\ UNCHANGED <<server, run, orphaned>>
    BY <1>8 DEF Recover
  <2> QED BY <2>1
<1>9. CASE Crash \/ Restart \/ Reap \/ Recovered
  BY <1>9 DEF Crash, Restart, Reap, Recovered
<1>10. CASE UNCHANGED vars BY <1>1, <1>10 DEF vars
<1> QED BY <1>2, <1>3, <1>4, <1>5, <1>6, <1>7, <1>8, <1>9, <1>10 DEF Next, Supervise

LEMMA ChildrenStep == TypeOK /\ Places /\ Children /\ [Next]_vars => Children'
<1> SUFFICES ASSUME TypeOK, Places, Children, [Next]_vars PROVE Children' OBVIOUS
<1>1. CASE UNCHANGED <<run, leader, helper, gate>>
  BY <1>1 DEF Children, AtWork
<1>2. CASE Start
  <2> SUFFICES ASSUME NEW s \in Runs
               PROVE  /\ leader'[s] = "none" <=> s > run'
                      /\ s \in gate' => s <= run'
                      /\ AtWork(s)' => s \in gate'
    BY DEF Children
  <2>1. s \in Nat /\ run \in Nat /\ run' = run + 1 BY <1>2, StartMoves DEF Runs
  <2>2. CASE s = run + 1
    <3>1. leader'[s] = "boot" /\ ~helper'[s] /\ s \notin gate' BY <1>2, <2>2, StartMoves
    <3> QED BY <2>1, <2>2, <3>1 DEF AtWork
  <2>3. CASE s # run + 1
    <3>1. leader'[s] = leader[s] /\ helper' = helper /\ gate' = gate
      BY <1>2, <2>3, StartMoves
    <3>2. /\ leader[s] = "none" <=> s > run
          /\ s \in gate => s <= run
          /\ AtWork(s) => s \in gate
      BY DEF Children
    <3> QED BY <2>1, <2>3, <3>1, <3>2 DEF AtWork
  <2> QED BY <2>2, <2>3
<1>3. CASE Receive
  <2>1. run \in Runs /\ run \in Nat
    BY <1>3, RunIsThere DEF Receive, Supervising, Before
  <2>2. UNCHANGED <<run, leader, helper>> /\ gate' \in {gate, gate \cup {run}}
    BY <1>3 DEF Receive
  <2> QED BY <2>1, <2>2 DEF Children, AtWork
<1>4. ASSUME NEW r \in Runs, Process(r) PROVE Children'
  BY <1>4, ProcessMoves DEF Children, Moves
<1> QED BY <1>1, <1>2, <1>3, <1>4, Still DEF Next, Supervise

-----------------------------------------------------------------------------
(* The supervisor. *)

LEMMA TreeIsDead ==
    ASSUME TypeOK, Places, Children, Supervised, pc \in Supervising, ~TreeAlive
    PROVE  leader[run] = "exited" /\ ~helper[run]
<1>1. run \in Runs /\ run \in Nat BY RunIsThere
<1>2. leader[run] = "exited"
  <2>1. leader[run] # "none" BY <1>1 DEF Children
  <2> QED BY <2>1 DEF TreeAlive, LeaderAlive
<1>3. ~helper[run]
  <2>1. CASE ready BY <2>1 DEF TreeAlive
  <2>2. CASE ~ready
    <3>1. run \notin gate BY <2>2 DEF Supervised
    <3> QED BY <1>1, <3>1 DEF Children, AtWork
  <2> QED BY <2>1, <2>2
<1> QED BY <1>2, <1>3

\* The conjuncts of Supervised, one by one.
Gated == pc \in {"lease", "write"} => run \notin gate
Leased == pc \in {"poll", "drain", "escalate", "check"} => lease[run] = "written"
Told == pc \in Supervising /\ run \in gate => ready
Cleaned == pc \in Supervising /\ clean => leader[run] = "exited" /\ ~helper[run]

LEMMA SupervisedStep ==
    TypeOK /\ Places /\ Children /\ Supervised /\ [Next]_vars => Supervised'
<1> SUFFICES ASSUME TypeOK, Places, Children, Supervised, [Next]_vars
             PROVE  Gated' /\ Leased' /\ Told' /\ Cleaned'
  BY DEF Supervised, Gated, Leased, Told, Cleaned
<1> USE DEF Gated, Leased, Told, Cleaned, Supervising, Before, After
<1>0. Gated /\ Leased /\ Told /\ Cleaned BY DEF Supervised
<1>1. CASE UNCHANGED <<pc, run, gate, lease, ready, clean, leader, helper>>
  BY <1>0, <1>1
<1>2. CASE Start
  BY <1>2, StartMoves DEF Start
<1>3. CASE OpenLease BY <1>0, <1>3 DEF OpenLease, supervisor, processes
<1>4. CASE WriteLease
  <2>1. run \in Runs BY <1>4, RunIsThere DEF WriteLease
  <2>2. lease'[run] = "written" BY <1>4, <2>1 DEF WriteLease, TypeOK
  <2> QED BY <1>0, <1>4, <2>2 DEF WriteLease, supervisor, processes
<1>5. CASE Poll BY <1>0, <1>5 DEF Poll
<1>6. CASE Receive
  <2>1. /\ pc \in {"drain", "deliver"}
        /\ UNCHANGED <<pc, run, lease, clean, leader, helper>>
        /\ \/ UNCHANGED <<gate, ready>>
           \/ ready' = TRUE
    BY <1>6 DEF Receive
  <2> QED BY <1>0, <2>1
<1>7. CASE NothingMore BY <1>0, <1>7 DEF NothingMore, supervisor, processes
<1>8. CASE Escalate
  <2>1. /\ pc = "escalate" /\ pc' \in {"check", "unwind", "returned"}
        /\ UNCHANGED <<run, gate, lease, ready, leader, helper>>
        /\ clean' = clean \/ ~TreeAlive
    BY <1>8 DEF Escalate
  <2>2. ~TreeAlive => leader[run] = "exited" /\ ~helper[run]
    BY <2>1, TreeIsDead
  <2> QED BY <1>0, <2>1, <2>2
<1>9. CASE ChildGone
  <2>1. /\ pc = "check" /\ pc' \in {"deliver", "poll"}
        /\ UNCHANGED <<run, gate, lease, ready, leader, helper>>
        /\ clean' = clean \/ ~TreeAlive
    BY <1>9 DEF ChildGone
  <2>2. ~TreeAlive => leader[run] = "exited" /\ ~helper[run]
    BY <2>1, TreeIsDead
  <2> QED BY <1>0, <2>1, <2>2
<1>10. CASE ChildThere BY <1>0, <1>10 DEF ChildThere
<1>11. CASE Return BY <1>0, <1>11 DEF Return, processes
<1>12. CASE Raise BY <1>0, <1>12 DEF Raise, processes
<1>13. CASE Unwind
  <2>1. /\ pc = "unwind" /\ pc' \in {"close", "join"}
        /\ UNCHANGED <<run, gate, ready, clean, leader, helper>>
    BY <1>13 DEF Unwind, supervisor
  <2> QED BY <1>0, <2>1
<1>14. CASE Join
  <2>1. pc = "join" /\ (clean' => ~TreeAlive) BY <1>14 DEF Join
  <2>2. ~TreeAlive => leader[run] = "exited" /\ ~helper[run]
    BY <2>1, TreeIsDead
  <2> QED BY <1>0, <1>14, <2>1, <2>2 DEF Join, processes
<1>15. CASE Close \/ Crash \/ Restart \/ Reap \/ Recovered
  <2>1. pc' \in {"idle", "recover"}
    BY <1>15 DEF Close, Crash, Restart, Reap, Recovered
  <2> QED BY <2>1
<1>16. CASE Cancel \/ TimePasses
  BY <1>1, <1>16 DEF Cancel, TimePasses, supervisor, processes
<1>17. ASSUME NEW r \in Runs, Process(r) PROVE Gated' /\ Leased' /\ Told' /\ Cleaned'
  <2>1. UNCHANGED <<pc, run, gate, lease, ready, clean>> BY <1>17, ProcessMoves
  <2>2. pc \in Supervising => run \in Runs BY RunIsThere
  <2>3. \A s \in Runs : leader[s] = "exited" /\ ~helper[s]
                        => leader'[s] = "exited" /\ ~helper'[s]
    <3> SUFFICES ASSUME NEW s \in Runs, leader[s] = "exited", ~helper[s]
                 PROVE  leader'[s] = "exited" /\ ~helper'[s]
      OBVIOUS
    <3>1. Moves(s) BY <1>17, ProcessMoves
    <3> QED BY <3>1 DEF Moves, Alive, LeaderAlive
  <2> QED BY <1>0, <2>1, <2>2, <2>3
<1>18. ASSUME NEW r \in Runs, Recover(r) PROVE Gated' /\ Leased' /\ Told' /\ Cleaned'
  <2>1. pc' \in {"recover", "reap"} BY <1>18 DEF Recover
  <2> QED BY <2>1
<1>19. CASE UNCHANGED vars BY <1>1, <1>19 DEF vars, supervisor, processes
<1> QED BY <1>2, <1>3, <1>4, <1>5, <1>6, <1>7, <1>8, <1>9, <1>10, <1>11, <1>12, <1>13,
           <1>14, <1>15, <1>16, <1>17, <1>18, <1>19 DEF Next, Supervise

LEMMA WordsStep == TypeOK /\ Places /\ Words /\ [Next]_vars => Words'
<1> SUFFICES ASSUME TypeOK, Places, Words, [Next]_vars PROVE Words' OBVIOUS
<1> USE DEF Words, Before
<1>1. CASE UNCHANGED <<pc, verdict, stop, cancelled, startupFailed>> BY <1>1
<1>2. CASE Start BY <1>2 DEF Start
<1>3. CASE OpenLease \/ WriteLease \/ NothingMore
  BY <1>3 DEF OpenLease, WriteLease, NothingMore, supervisor, processes
<1>4. CASE Poll BY <1>4 DEF Poll
<1>5. CASE Receive \/ TimePasses
  BY <1>1, <1>5 DEF Receive, TimePasses, processes
<1>6. CASE Escalate
  <2>1. /\ pc = "escalate" /\ UNCHANGED <<stop, cancelled, startupFailed>>
        /\ \/ pc' \in {"check", "returned"} /\ verdict' = verdict
           \/ pc' = "unwind" /\ verdict' = "cleanup"
    BY <1>6 DEF Escalate
  <2> QED BY <2>1
<1>7. CASE ChildGone BY <1>7 DEF ChildGone
<1>8. CASE ChildThere BY <1>8 DEF ChildThere
<1>9. CASE Return BY <1>9 DEF Return, Verdict, processes
<1>10. CASE Raise BY <1>10 DEF Raise, processes
<1>11. CASE Unwind \/ Join
  BY <1>11 DEF Unwind, Join, supervisor, processes
<1>12. CASE Close BY <1>12 DEF Close, processes
<1>13. CASE Cancel BY <1>13 DEF Cancel, supervisor, processes
<1>14. ASSUME NEW r \in Runs, Process(r) PROVE Words'
  BY <1>1, <1>14, ProcessMoves
<1>15. ASSUME NEW r \in Runs, Recover(r) PROVE Words'
  <2>1. /\ pc = "recover" /\ pc' \in {"recover", "reap"}
        /\ UNCHANGED <<verdict, stop>>
    BY <1>15 DEF Recover, supervisor
  <2> QED BY <2>1
<1>16. CASE Crash BY <1>16 DEF Crash, supervisor
<1>17. CASE Restart BY <1>17 DEF Restart, Places, supervisor, processes
<1>18. CASE Reap \/ Recovered BY <1>18 DEF Reap, Recovered, supervisor, processes
<1>19. CASE UNCHANGED vars BY <1>1, <1>19 DEF vars, supervisor, processes
<1> QED BY <1>2, <1>3, <1>4, <1>5, <1>6, <1>7, <1>8, <1>9, <1>10, <1>11, <1>12, <1>13,
           <1>14, <1>15, <1>16, <1>17, <1>18, <1>19 DEF Next, Supervise

\* What is left on the pipe was on it before.
LEMMA SaidBefore ==
    ASSUME TypeOK, pipe # <<>>, pipe' = Tail(pipe), NEW word
    PROVE  /\ Head(pipe) = word => Said(word)
           /\ Said(word)' => Said(word)
<1>1. /\ pipe \in Seq({"ready", "result", "cancelled", "error"})
      /\ Len(pipe) \in Nat /\ Len(pipe) > 0
      /\ Len(Tail(pipe)) = Len(pipe) - 1
      /\ \A i \in 1..Len(Tail(pipe)) : Tail(pipe)[i] = pipe[i + 1]
      /\ Head(pipe) = pipe[1]
  BY DEF TypeOK
<1>2. ASSUME NEW i \in 1..Len(pipe'), pipe'[i] = word PROVE Said(word)
  <2>1. i + 1 \in 1..Len(pipe) /\ pipe[i + 1] = word BY <1>1, <1>2
  <2> QED BY <2>1 DEF Said
<1>3. Head(pipe) = word => Said(word)
  <2>1. 1 \in 1..Len(pipe) BY <1>1
  <2> QED BY <1>1, <2>1 DEF Said
<1> QED BY <1>2, <1>3 DEF Said

LEMMA SaidLast ==
    ASSUME TypeOK, NEW w \in {"ready", "result", "cancelled", "error"},
           pipe' = Append(pipe, w), NEW word, Said(word)'
    PROVE  w = word \/ Said(word)
<1>1. PICK i \in 1..Len(pipe') : pipe'[i] = word BY DEF Said
<1>2. /\ pipe \in Seq({"ready", "result", "cancelled", "error"}) /\ Len(pipe) \in Nat
      /\ Len(pipe') = Len(pipe) + 1
      /\ pipe'[Len(pipe) + 1] = w
      /\ \A j \in 1..Len(pipe) : pipe'[j] = pipe[j]
  BY DEF TypeOK
<1>3. CASE i = Len(pipe) + 1 BY <1>1, <1>2, <1>3
<1>4. CASE i # Len(pipe) + 1
  <2>1. i \in 1..Len(pipe) BY <1>1, <1>2, <1>4
  <2> QED BY <1>1, <1>2, <2>1 DEF Said
<1> QED BY <1>3, <1>4

LEMMA AskedStep == TypeOK /\ Places /\ Words /\ Asked /\ [Next]_vars => Asked'
<1> SUFFICES ASSUME TypeOK, Places, Words, Asked, [Next]_vars PROVE Asked' OBVIOUS
<1> USE DEF Asked, Before
<1>1. ASSUME pc' \in Before => pc \in Before, UNCHANGED <<terminal, pipe>>,
             cancelled => cancelled', startupFailed => startupFailed'
      PROVE  Asked'
  BY <1>1 DEF Said
<1>2. CASE Start BY <1>2 DEF Start, Said
<1>3. CASE OpenLease \/ WriteLease \/ NothingMore \/ Return \/ Raise \/ Unwind \/ Join
  BY <1>1, <1>3 DEF OpenLease, WriteLease, NothingMore, Return, Raise, Unwind, Join,
                    supervisor, processes
<1>4. CASE Poll BY <1>1, <1>4 DEF Poll
<1>5. CASE Escalate BY <1>1, <1>5 DEF Escalate
<1>6. CASE ChildGone \/ ChildThere BY <1>1, <1>6 DEF ChildGone, ChildThere
<1>7. CASE Close BY <1>1, <1>7 DEF Close, processes
<1>8. CASE Cancel \/ TimePasses
  BY <1>1, <1>8 DEF Cancel, TimePasses, supervisor, processes
<1>9. CASE Receive
  <2>1. /\ pipe # <<>> /\ pipe' = Tail(pipe) /\ pc \in Before
        /\ UNCHANGED <<pc, cancelled, startupFailed>>
        /\ terminal' = terminal \/ terminal' = Head(pipe)
    BY <1>9 DEF Receive
  <2>2. /\ Head(pipe) = "cancelled" => Said("cancelled")
        /\ Said("cancelled")' => Said("cancelled")
    BY <2>1, SaidBefore
  <2> QED BY <2>1, <2>2
<1>10. ASSUME NEW r \in Runs, Process(r) PROVE Asked'
  <2>1. UNCHANGED <<pc, cancelled, startupFailed, stop, terminal>>
    BY <1>10, ProcessMoves DEF Process, LeadSession, PassGate, LeaveGate, Fork, Report,
       Exit, HelperExit, Watchdog, Others, supervisor
  <2>2. \/ pipe' = pipe \/ pipe' = Append(pipe, "ready")
        \/ \E w \in {"result", "error"} \cup (IF stop THEN {"cancelled"} ELSE {}) :
              pipe' = Append(pipe, w)
    BY <1>10 DEF Process, LeadSession, PassGate, LeaveGate, Fork, Report, Exit,
       HelperExit, Watchdog
  <2>3. CASE pipe' = pipe BY <1>1, <2>1, <2>3
  <2>4. CASE pipe' = Append(pipe, "ready")
    <3>1. Said("cancelled")' => Said("cancelled") BY <2>4, SaidLast
    <3> QED BY <2>1, <3>1
  <2>5. ASSUME NEW w \in {"result", "error"} \cup (IF stop THEN {"cancelled"} ELSE {}),
               pipe' = Append(pipe, w)
        PROVE  Asked'
    <3>1. w \in {"ready", "result", "cancelled", "error"} /\ (w = "cancelled" => stop)
      OBVIOUS
    <3>2. Said("cancelled")' => w = "cancelled" \/ Said("cancelled")
      BY <2>5, <3>1, SaidLast
    <3>3. pc \in Before /\ stop => cancelled \/ startupFailed BY DEF Words
    <3> QED BY <2>1, <3>1, <3>2, <3>3
  <2> QED BY <2>2, <2>3, <2>4, <2>5
<1>11. ASSUME NEW r \in Runs, Recover(r) PROVE Asked'
  BY <1>11 DEF Recover
<1>12. CASE Crash \/ Restart \/ Reap \/ Recovered
  BY <1>12 DEF Crash, Restart, Reap, Recovered
<1>13. CASE UNCHANGED vars BY <1>1, <1>13 DEF vars, supervisor, processes
<1> QED BY <1>2, <1>3, <1>4, <1>5, <1>6, <1>7, <1>8, <1>9, <1>10, <1>11, <1>12, <1>13
        DEF Next, Supervise

-----------------------------------------------------------------------------
(* The runs that nobody has killed. *)

\* Only the supervisor opens a gate, and only for its own run: no other step
\* makes a run one of those.
Calm == \A s \in Runs : Loose(s)' => Loose(s)

LEMMA SignalCalm ==
    ASSUME UNCHANGED <<leader, helper, gate>>,
           \A s \in Runs : signal[s] = "kill" => signal'[s] = "kill"
    PROVE  Calm
BY DEF Calm, Loose, Alive, LeaderAlive

LEMMA CalmSteps ==
    ASSUME TypeOK, Children, [Next]_vars, ~Receive
    PROVE  Calm
<1>1. CASE UNCHANGED <<leader, helper, gate, signal>> BY <1>1, SignalCalm
<1>2. CASE Start
  <2> SUFFICES ASSUME NEW s \in Runs, Loose(s)' PROVE Loose(s) BY DEF Calm
  <2>1. s # run + 1 BY <1>2, StartMoves DEF Loose
  <2> QED BY <1>2, <2>1, StartMoves DEF Loose, Alive, LeaderAlive
<1>3. ASSUME NEW kind, Send(kind), UNCHANGED <<leader, helper, gate>> PROVE Calm
  BY <1>3, SendMoves, SignalCalm
<1>4. CASE Escalate
  <2>1. UNCHANGED <<leader, helper, gate>> BY <1>4 DEF Escalate
  <2>2. UNCHANGED signal \/ \E kind : Send(kind) BY <1>4 DEF Escalate
  <2> QED BY <1>1, <1>3, <2>1, <2>2
<1>5. CASE ChildGone
  <2>1. UNCHANGED <<leader, helper, gate>> BY <1>5 DEF ChildGone
  <2>2. UNCHANGED signal \/ \E kind : Send(kind) BY <1>5 DEF ChildGone
  <2> QED BY <1>1, <1>3, <2>1, <2>2
<1>6. CASE ChildThere
  <2>1. UNCHANGED <<leader, helper, gate>> BY <1>6 DEF ChildThere
  <2>2. UNCHANGED signal \/ \E kind : Send(kind) BY <1>6 DEF ChildThere
  <2> QED BY <1>1, <1>3, <2>1, <2>2
<1>7. CASE Unwind
  <2>1. UNCHANGED <<leader, helper, gate>> BY <1>7 DEF Unwind
  <2>2. UNCHANGED signal \/ \E kind : Send(kind) BY <1>7 DEF Unwind
  <2> QED BY <1>1, <1>3, <2>1, <2>2
<1>8. ASSUME NEW r \in Runs, Process(r) PROVE Calm
  BY <1>8, ProcessMoves DEF Calm, Loose, Moves
<1>9. ASSUME NEW r \in Runs, Recover(r) PROVE Calm
  <2>1. UNCHANGED <<leader, helper, gate>> BY <1>9 DEF Recover
  <2>2. signal' \in {signal, [signal EXCEPT ![r] = "kill"]} BY <1>9 DEF Recover
  <2>3. \A s \in Runs : signal[s] = "kill" => signal'[s] = "kill"
    BY <2>2 DEF TypeOK
  <2> QED BY <2>1, <2>3, SignalCalm
<1>10. CASE OpenLease \/ WriteLease \/ Poll \/ NothingMore \/ Return \/ Raise \/ Join
            \/ Close \/ Cancel \/ TimePasses \/ Crash \/ Restart \/ Reap \/ Recovered
            \/ UNCHANGED vars
  BY <1>1, <1>10 DEF OpenLease, WriteLease, Poll, NothingMore, Return, Raise, Join,
     Close, Cancel, TimePasses, Crash, Restart, Reap, Recovered, vars, processes
<1> QED BY <1>2, <1>4, <1>5, <1>6, <1>7, <1>8, <1>9, <1>10 DEF Next, Supervise

LEMMA ReceiveMoves ==
    ASSUME TypeOK, Places, Receive
    PROVE  /\ \A s \in Runs \ {run} : Loose(s)' => Loose(s)
           /\ Loose(run)' => Loose(run) \/ pc = "drain"
           /\ UNCHANGED <<pc, server, run, lease, blocked, recovery, signal>>
<1>1. UNCHANGED <<pc, server, run, lease, blocked, recovery, signal, leader, helper>>
      /\ (gate' = gate \/ (pc = "drain" /\ gate' = gate \cup {run}))
  BY DEF Receive
<1> QED BY <1>1 DEF Loose, Alive, LeaderAlive

LEMMA LastStep == TypeOK /\ Places /\ Children /\ Last /\ LookedAt /\ [Next]_vars => Last'
<1> SUFFICES ASSUME TypeOK, Places, Children, Last, LookedAt, [Next]_vars,
                    NEW s \in Runs, Loose(s)'
             PROVE  s = run'
  BY DEF Last
<1>1. CASE Receive BY <1>1, ReceiveMoves DEF Last
<1>2. CASE ~Receive
  <2>1. Loose(s) BY <1>2, CalmSteps DEF Calm
  <2>2. CASE Start
    <3>1. blocked \/ (pc \in Recovering /\ s \in todo)
      BY <2>1, <2>2 DEF LookedAt, Start
    <3> QED BY <2>2, <3>1 DEF Start, Recovering
  <2>3. CASE ~Start
    <3>1. run' = run
      BY <1>2, <2>3, Still, ProcessMoves DEF Next, Supervise
    <3> QED BY <2>1, <3>1 DEF Last
  <2> QED BY <2>2, <2>3
<1> QED BY <1>1, <1>2

\* A lease is only taken away from a run that is over or has been killed.
LEMMA LeaseKept ==
    ASSUME TypeOK, Places, Children, Supervised, LookedAt, [Next]_vars,
           NEW s \in Runs, lease[s] = "written", Loose(s)'
    PROVE  lease'[s] = "written"
<1>1. CASE UNCHANGED lease BY <1>1
<1>2. CASE OpenLease
  <2>1. s # run
    <3>1. run \notin gate' BY <1>2 DEF OpenLease, Supervised, processes
    <3> QED BY <3>1 DEF Loose, processes
  <2> QED BY <1>2, <2>1 DEF OpenLease, TypeOK
<1>3. CASE WriteLease BY <1>3 DEF WriteLease, TypeOK
<1>4. CASE Close
  <2>1. s = run => ~clean
    <3> SUFFICES ASSUME s = run, clean PROVE FALSE OBVIOUS
    <3>1. leader[run] = "exited" /\ ~helper[run]
      BY <1>4 DEF Close, Supervised, Supervising, After
    <3> QED BY <1>4, <3>1 DEF Close, Loose, Alive, LeaderAlive, processes
  <2> QED BY <1>4, <2>1 DEF Close, TypeOK
<1>5. ASSUME NEW r \in Runs, Recover(r) PROVE lease'[s] = "written"
  <2>1. UNCHANGED lease \/ (SessionGone(r) /\ lease' = [lease EXCEPT ![r] = "none"])
    BY <1>5 DEF Recover
  <2>2. SessionGone(r) => r # s
    BY <1>5 DEF Recover, SessionGone, Loose, Alive, LeaderAlive
  <2> QED BY <2>1, <2>2 DEF TypeOK
<1>6. CASE Reap
  <2>1. victim # s BY <1>6 DEF Reap, LookedAt, Loose, processes
  <2> QED BY <1>6, <2>1 DEF Reap, TypeOK
<1>7. CASE Start \/ Poll \/ Receive \/ NothingMore \/ Escalate \/ ChildGone \/ ChildThere
           \/ Return \/ Raise \/ Unwind \/ Join \/ Cancel \/ TimePasses \/ Crash
           \/ Restart \/ Recovered \/ UNCHANGED vars
  BY <1>1, <1>7 DEF Start, Poll, Receive, NothingMore, Escalate, ChildGone, ChildThere,
     Return, Raise, Unwind, Join, Cancel, TimePasses, Crash, Restart, Recovered, vars
<1>8. ASSUME NEW r \in Runs, Process(r) PROVE lease'[s] = "written"
  BY <1>1, <1>8, ProcessMoves
<1> QED BY <1>2, <1>3, <1>4, <1>5, <1>6, <1>7, <1>8 DEF Next, Supervise

LEMMA CoveredStep ==
    TypeOK /\ Places /\ Children /\ Supervised /\ Covered /\ LookedAt /\ [Next]_vars
    => Covered'
<1> SUFFICES ASSUME TypeOK, Places, Children, Supervised, Covered, LookedAt,
                    [Next]_vars, NEW s \in Runs, Loose(s)'
             PROVE  lease'[s] = "written"
  BY DEF Covered
<1>1. lease[s] = "written"
  <2>1. CASE Receive
    <3>1. Loose(s) \/ (s = run /\ pc = "drain") BY <2>1, ReceiveMoves
    <3> QED BY <3>1 DEF Covered, Supervised
  <2>2. CASE ~Receive BY <2>2, CalmSteps DEF Calm, Covered
  <2> QED BY <2>1, <2>2
<1> QED BY <1>1, LeaseKept

\* What is left of earlier servers is looked at, or blocks the queue.
Examined == server = "up" /\ pc \in Recovering \cup {"idle"} =>
              \A r \in Runs : Loose(r) => blocked \/ (pc \in Recovering /\ r \in todo)
VictimIsKilled == pc = "reap" => victim \in Runs /\ signal[victim] = "kill"

LEMMA LookedAtStep == Inv /\ [Next]_vars => LookedAt'
<1> SUFFICES ASSUME Inv, [Next]_vars PROVE Examined' /\ VictimIsKilled'
  BY DEF LookedAt, Examined, VictimIsKilled
<1> USE DEF Inv
<1>0. Examined /\ VictimIsKilled BY DEF LookedAt, Examined, VictimIsKilled
<1> USE DEF Examined, VictimIsKilled
<1>1. ASSUME UNCHANGED <<server, pc, blocked, todo, victim>>, ~Receive PROVE Examined'
  BY <1>0, <1>1, CalmSteps DEF Calm
<1>2. ASSUME pc' \in Supervising PROVE Examined' /\ VictimIsKilled'
  BY <1>2 DEF Supervising, Before, After, Recovering
<1>3. CASE Start \/ OpenLease \/ WriteLease \/ Poll \/ NothingMore \/ Escalate \/ ChildGone
           \/ ChildThere \/ Return \/ Raise \/ Unwind \/ Join
  <2>1. pc' \in Supervising
    BY <1>3 DEF Start, OpenLease, WriteLease, Poll, NothingMore, Escalate, ChildGone,
       ChildThere, Return, Raise, Unwind, Join, Supervising, Before, After
  <2> QED BY <1>2, <2>1
<1>4. CASE Receive
  <2>1. pc' = pc /\ pc \in Supervising BY <1>4 DEF Receive, Supervising, Before
  <2> QED BY <1>2, <2>1
<1>5. CASE Close
  <2>1. pc = "close" /\ pc' = "idle" /\ ~Receive BY <1>5 DEF Close, Receive
  <2>2. ASSUME NEW s \in Runs, Loose(s)' PROVE blocked'
    <3>1. s = run /\ Loose(run) BY <2>1, <2>2, CalmSteps DEF Calm, Last
    <3>2. ~clean
      <4>1. clean => leader[run] = "exited" /\ ~helper[run]
        BY <2>1 DEF Supervised, Supervising, After
      <4> QED BY <3>1, <4>1 DEF Loose, Alive, LeaderAlive
    <3> QED BY <1>5, <3>2 DEF Close
  <2> QED BY <2>1, <2>2
<1>6. CASE Cancel \/ TimePasses
  <2>1. pc' = pc /\ pc \notin Recovering \cup {"idle"}
    BY <1>6 DEF Cancel, TimePasses, Recovering
  <2> QED BY <2>1 DEF Recovering
<1>7. ASSUME NEW r \in Runs, Process(r) PROVE Examined' /\ VictimIsKilled'
  <2>1. UNCHANGED <<server, pc, blocked, todo, victim>> /\ \A s \in Runs : Moves(s)
    BY <1>7, ProcessMoves
  <2>2. \A s \in Runs : Loose(s)' => Loose(s)
    BY <1>7, ProcessMoves DEF Loose, Moves
  <2> QED BY <1>0, <2>1, <2>2 DEF Moves
<1>8. ASSUME NEW r \in Runs, Recover(r) PROVE Examined' /\ VictimIsKilled'
  <2>1. pc = "recover" /\ server = "up" /\ server' = server /\ ~Receive
    BY <1>8 DEF Recover, Places, Recovering, Receive
  <2>2. CASE lease[r] = "written" /\ leader[r] \in {"waiting", "working", "reported"}
    <3>1. /\ signal' = [signal EXCEPT ![r] = "kill"] /\ pc' = "reap" /\ victim' = r
          /\ UNCHANGED <<todo, blocked>>
      BY <1>8, <2>2 DEF Recover
    <3>2. signal'[r] = "kill" BY <3>1 DEF TypeOK
    <3>3. \A s \in Runs : Loose(s)' => Loose(s) BY <2>1, CalmSteps DEF Calm
    <3> QED BY <1>0, <2>1, <3>1, <3>2, <3>3 DEF Recovering
  <2>3. CASE ~(lease[r] = "written" /\ leader[r] \in {"waiting", "working", "reported"})
    <3>1. /\ todo' = todo \ {r} /\ pc' = pc /\ signal' = signal
          /\ \/ SessionGone(r) /\ blocked' = blocked
             \/ blocked' = TRUE
          /\ UNCHANGED <<leader, helper>>
      BY <1>8, <2>3 DEF Recover
    <3>2. \A s \in Runs : Loose(s)' => Loose(s) BY <2>1, CalmSteps DEF Calm
    <3>3. SessionGone(r) => ~Loose(r) BY DEF SessionGone, Loose, Alive
    <3> QED BY <1>0, <2>1, <3>1, <3>2, <3>3 DEF Recovering
  <2> QED BY <2>2, <2>3
<1>9. CASE Crash BY <1>9 DEF Crash
<1>10. CASE Restart
  <2>1. /\ todo' = {s \in Runs : lease[s] # "none"} /\ pc' = "recover" /\ ~Receive
    BY <1>10 DEF Restart, Receive, Places
  <2>2. ASSUME NEW s \in Runs, Loose(s)' PROVE s \in todo'
    <3>1. Loose(s) BY <2>1, <2>2, CalmSteps DEF Calm
    <3> QED BY <2>1, <3>1 DEF Covered
  <2> QED BY <2>1, <2>2 DEF Recovering
<1>11. CASE Reap
  <2>1. /\ pc = "reap" /\ pc' = "recover" /\ todo' = todo \ {victim}
        /\ server' = server /\ (blocked' = TRUE \/ blocked' = blocked)
        /\ UNCHANGED <<signal, leader, helper, gate>> /\ ~Receive
    BY <1>11 DEF Reap, Receive, processes
  <2>2. \A s \in Runs : Loose(s)' => Loose(s) /\ s # victim
    BY <1>0, <2>1, CalmSteps DEF Calm, Loose
  <2> QED BY <1>0, <2>1, <2>2 DEF Recovering
<1>12. CASE Recovered
  <2>1. /\ pc = "recover" /\ pc' = "idle" /\ todo = {} /\ UNCHANGED <<server, blocked>>
        /\ ~Receive
    BY <1>12 DEF Recovered, Receive
  <2>2. \A s \in Runs : Loose(s)' => Loose(s) BY <2>1, CalmSteps DEF Calm
  <2> QED BY <1>0, <2>1, <2>2 DEF Recovering
<1>13. CASE UNCHANGED vars
  <2>1. UNCHANGED <<server, pc, blocked, todo, victim, signal, leader, helper, gate>>
    BY <1>13 DEF vars, recovery, processes
  <2> QED BY <1>0, <2>1 DEF Loose, Alive, LeaderAlive
<1> QED BY <1>3, <1>4, <1>5, <1>6, <1>7, <1>8, <1>9, <1>10, <1>11, <1>12, <1>13
        DEF Next, Supervise

\* A run that has returned is over.
LEMMA ReturnedStep == Inv /\ [Next]_vars => ReturnedRunIsOver'
<1> SUFFICES ASSUME Inv, [Next]_vars, server' = "up", pc' = "idle", run' > orphaned',
                    verdict' # "cleanup"
             PROVE  /\ ~AtWork(run)' /\ leader'[run'] = "exited" /\ lease'[run'] = "none"
                    /\ verdict' = "result" => ~stop'
  BY DEF ReturnedRunIsOver
<1> USE DEF Inv
<1>0. Words' BY WordsStep
<1>1. verdict' = "result" => ~stop' BY <1>0 DEF Words, Before
<1>2. CASE Close
  <2>1. pc = "close" /\ clean /\ lease' = [lease EXCEPT ![run] = "none"]
        /\ UNCHANGED <<leader, helper, run>>
    BY <1>2 DEF Close, processes
  <2>2. run \in Runs BY <2>1, RunIsThere DEF Supervising, After
  <2>3. leader[run] = "exited" /\ ~helper[run]
    BY <2>1 DEF Supervised, Supervising, After
  <2>4. lease'[run] = "none" BY <2>1, <2>2 DEF TypeOK
  <2> QED BY <1>1, <2>1, <2>3, <2>4 DEF AtWork
<1>3. ASSUME UNCHANGED <<server, pc, run, orphaned, verdict, lease>>,
             leader[run] = "exited" /\ ~helper[run]
                => leader'[run] = "exited" /\ ~helper'[run]
      PROVE  ~AtWork(run)' /\ leader'[run'] = "exited" /\ lease'[run'] = "none"
  <2>1. ~AtWork(run) /\ leader[run] = "exited" /\ lease[run] = "none"
    BY <1>3 DEF ReturnedRunIsOver
  <2> QED BY <1>3, <2>1 DEF AtWork
<1>4. ASSUME NEW r \in Runs, Process(r)
      PROVE  ~AtWork(run)' /\ leader'[run'] = "exited" /\ lease'[run'] = "none"
  <2>1. UNCHANGED <<server, pc, run, orphaned, verdict, lease>> BY <1>4, ProcessMoves
  <2>2. run \in Runs
    BY <2>1, MaxRunsAssumption DEF TypeOK, Runs
  <2>3. Moves(run) BY <1>4, <2>2, ProcessMoves
  <2> QED BY <1>3, <2>1, <2>3 DEF Moves, Alive, LeaderAlive
<1>5. CASE Recovered \/ Restart \/ Reap \/ (\E r \in Runs : Recover(r))
  <2>1. orphaned = run /\ UNCHANGED <<orphaned, run>>
    BY <1>5 DEF Recovered, Restart, Reap, Recover, Places, Recovering
  <2> QED BY <2>1, MaxRunsAssumption DEF TypeOK
<1>6. CASE Crash BY <1>6 DEF Crash
<1>7. CASE Start \/ OpenLease \/ WriteLease \/ Poll \/ NothingMore \/ Escalate \/ ChildGone
           \/ ChildThere \/ Return \/ Raise \/ Unwind \/ Join \/ Receive \/ Cancel
           \/ TimePasses
  BY <1>7 DEF Start, OpenLease, WriteLease, Poll, NothingMore, Escalate, ChildGone,
     ChildThere, Return, Raise, Unwind, Join, Receive, Cancel, TimePasses
<1>8. CASE UNCHANGED vars
  <2>1. UNCHANGED <<server, pc, run, orphaned, verdict, lease, leader, helper>>
    BY <1>8 DEF vars, supervisor, processes
  <2>2. leader[run] = "exited" /\ ~helper[run] => leader'[run] = "exited" /\ ~helper'[run]
    BY <2>1
  <2>3. ~AtWork(run)' /\ leader'[run'] = "exited" /\ lease'[run'] = "none"
    BY <1>3, <2>1, <2>2
  <2> QED BY <1>1, <2>3
<1> QED BY <1>1, <1>2, <1>4, <1>5, <1>6, <1>7, <1>8 DEF Next, Supervise

-----------------------------------------------------------------------------
(* The theorems. *)

LEMMA InitInv == Init => Inv
<1> SUFFICES ASSUME Init PROVE Inv OBVIOUS
<1> USE DEF Init
<1>1. TypeOK
  <2>1. 0 \in 0..MaxRuns /\ 0 \in 0..0 BY MaxRunsAssumption
  <2>2. pipe \in Seq({"ready", "result", "cancelled", "error"}) OBVIOUS
  <2>3. /\ leader \in [Runs -> {"none", "boot", "waiting", "working", "reported", "exited"}]
        /\ helper \in [Runs -> BOOLEAN]
        /\ signal \in [Runs -> {"none", "term", "kill"}]
        /\ lease \in [Runs -> {"none", "partial", "written"}]
    OBVIOUS
  <2>4. /\ ready \in BOOLEAN /\ cancelled \in BOOLEAN /\ startupFailed \in BOOLEAN
        /\ clean \in BOOLEAN /\ blocked \in BOOLEAN /\ stop \in BOOLEAN
    OBVIOUS
  <2>5. /\ server = "up" /\ pc = "idle" /\ run = 0 /\ orphaned = 0 /\ age = "none"
        /\ phase = "none" /\ terminal = "none" /\ verdict = "none" /\ todo = {}
        /\ victim = 0 /\ gate = {}
    OBVIOUS
  <2> HIDE DEF Init
  <2> QED BY <2>1, <2>2, <2>3, <2>4, <2>5 DEF TypeOK
<1>2. \A r \in Runs : r > 0 BY MaxRunsAssumption DEF Runs
<1>3. Children BY <1>2 DEF Children, AtWork
<1>4. Covered /\ Last /\ LookedAt
  BY DEF Covered, Last, LookedAt, Loose
<1>5. Places /\ Supervised /\ Words /\ Asked /\ ReturnedRunIsOver
  BY DEF Places, Supervised, Words, Asked, ReturnedRunIsOver, Recovering, Supervising,
         Before, After
<1> QED BY <1>1, <1>3, <1>4, <1>5 DEF Inv

LEMMA InvStep == Inv /\ [Next]_vars => Inv'
BY TypeStep, PlacesStep, ChildrenStep, SupervisedStep, WordsStep, AskedStep, CoveredStep, LastStep,
   LookedAtStep, ReturnedStep DEF Inv

\* Every variable of TaskRuntime keeps its type.
THEOREM TypeCorrect == Spec => []TypeOK
<1>1. Inv /\ [Next]_vars => Inv' BY InvStep
<1>2. Inv => TypeOK BY DEF Inv
<1> QED BY <1>1, <1>2, InitInv, PTL DEF Spec

\* The invariant of TaskRuntime: a run that may be at work and was not killed has
\* a lease, is the last one, and is looked at before another begins.
THEOREM Invariance == Spec => []Inv
<1>1. Inv /\ [Next]_vars => Inv' BY InvStep
<1> QED BY <1>1, InitInv, PTL DEF Spec

\* A child at work that was not killed can be found by recover_leases.
THEOREM WorkIsCovered == Spec => []LeaseCoversWork
<1>1. Inv => LeaseCoversWork
  BY DEF Inv, Covered, Loose, Alive, AtWork, LeaderAlive, Children, LeaseCoversWork
<1> QED BY <1>1, Invariance, PTL

\* run_translation and recover_leases keep translations from working side by
\* side.
THEOREM NoTwoAtWork == Spec => []AloneAtWork
<1>1. Inv => AloneAtWork
  <2> SUFFICES ASSUME Inv, NEW r \in Runs, NEW s \in Runs, r < s, AtWork(r), AtWork(s)
               PROVE  signal[r] = "kill"
    BY DEF AloneAtWork
  <2>1. r \in gate /\ s \in gate /\ s <= run BY DEF Inv, Children
  <2>2. Alive(r) BY DEF AtWork, Alive, LeaderAlive
  <2>3. r # run /\ run \in Nat /\ r \in Nat /\ s \in Nat
    BY <2>1, MaxRunsAssumption DEF Inv, TypeOK, Runs
  <2> QED BY <2>1, <2>2, <2>3 DEF Inv, Last, Loose
<1> QED BY <1>1, Invariance, PTL

\* A run that returned without a word about its cleaning up has left nothing.
THEOREM ReturnIsTheEnd == Spec => []ReturnedRunIsOver
<1>1. Inv => ReturnedRunIsOver BY DEF Inv
<1> QED BY <1>1, Invariance, PTL

\* A run is reported as cancelled only if the task manager had asked for it: the
\* word of the child counts only if it was told to stop for that reason.
THEOREM OnlyAskedIsCancelled == Spec => CancelledOnlyIfAsked
<1>1. ASSUME Inv, [Next]_vars
      PROVE  verdict' = "cancelled" /\ verdict # "cancelled" => cancelled
  <2> SUFFICES ASSUME verdict' = "cancelled", verdict # "cancelled" PROVE cancelled
    OBVIOUS
  <2>1. Return
    <3>1. CASE Start \/ Escalate \/ Raise \/ Close
      BY <3>1 DEF Start, Escalate, Raise, Close
    <3>2. CASE OpenLease \/ WriteLease \/ Poll \/ Receive \/ NothingMore \/ ChildGone
               \/ ChildThere \/ Unwind \/ Join
      BY <3>2 DEF OpenLease, WriteLease, Poll, Receive, NothingMore, ChildGone,
                  ChildThere, Unwind, Join, supervisor
    <3>3. CASE Cancel \/ TimePasses \/ Crash \/ Restart \/ Reap \/ Recovered
      BY <3>3 DEF Cancel, TimePasses, Crash, Restart, Reap, Recovered, supervisor
    <3>4. ASSUME NEW r \in Runs, Process(r) \/ Recover(r) PROVE FALSE
      BY <1>1, <3>4, ProcessMoves DEF Inv, Recover, supervisor
    <3>5. CASE UNCHANGED vars BY <3>5 DEF vars, supervisor
    <3> QED BY <1>1, <3>1, <3>2, <3>3, <3>4, <3>5 DEF Next, Supervise
  <2>2. pc \in Before /\ (terminal = "cancelled" => cancelled \/ startupFailed)
    BY <1>1, <2>1 DEF Inv, Asked, Return, Before
  <2> QED BY <2>1, <2>2 DEF Return, Verdict
<1> QED BY <1>1, Invariance, PTL DEF Spec, CancelledOnlyIfAsked

=============================================================================
