------------------------------ MODULE MemorySync ------------------------------
(***************************************************************************)
(* server/task_manager.py (_schedule_memory_sync, retry_memory_sync,       *)
(* _sync_memories, and what create, repair, resume and delete do to them)  *)
(* and server/translation_memory.py (sync_recovery): how the translations  *)
(* of a task reach the translation memory, from where the reader has them  *)
(* once the task and its checkpoint are deleted.                           *)
(*                                                                         *)
(* One worker thread takes the task that is due from memory_pending, reads *)
(* its checkpoint without a lock, while another attempt may be writing it, *)
(* and reports under the lock.  What holds the lock is one action, and so  *)
(* is each access to a file in between.  A checkpoint and what the memory  *)
(* holds of it are numbers: how many paragraphs were committed.            *)
(***************************************************************************)
EXTENDS Naturals, FiniteSets

CONSTANTS
    Tasks,          \* task ids
    NoTask,         \* no task
    Unknown,        \* a signature that no checkpoint has
    MaxAttempts,    \* bound for each task: its attempts
    MaxCommits,     \* bound for each task: the paragraphs that its runs commit
    MaxRestarts     \* bound: how often the server is restarted

ASSUME TasksAssumption == IsFiniteSet(Tasks) /\ NoTask \notin Tasks
ASSUME UnknownAssumption == Unknown \notin Nat
ASSUME BoundsAssumption ==
    /\ MaxAttempts \in [Tasks -> Nat] /\ MaxCommits \in [Tasks -> Nat]
    /\ MaxRestarts \in Nat

VARIABLES
    task,           \* the records in memory
    disk,           \* the records in tasks.json
    ending,         \* the task whose run is over but not yet saved, or NoTask
    calls,          \* the tasks for which _schedule_memory_sync is called next
    pending,        \* memory_pending: for each task the attempt, and if it is due
    worker,         \* the worker thread, and what it holds between two locks
    checkpoint,     \* the checkpoint in the workspace of each task, 0 without one
    memory,         \* the translation memory: what it holds of each task ...
    marker,         \* ... and the row of recovery_sync, Unknown if it names none
    closed, blocked,\* _closed, _store_error
    restarts

records == <<task, disk, ending>>
files == <<checkpoint, memory, marker>>
vars == <<records, calls, pending, worker, files, closed, blocked, restarts>>

-----------------------------------------------------------------------------
\* "result" is completed, or incomplete with files; "stopped" is cancelled,
\* paused or interrupted, which all have no result.  A task is not yet created
\* at attempt 0 and deleted at a later one.
Record == [status : {"absent", "queued", "running", "result", "failed", "stopped"},
           attempt : Nat,
           sync : {"none", "pending", "synced"}]   \* translationMemorySync

Entry == [attempt : Nat, due : BOOLEAN]
NoEntry == [attempt |-> 0, due |-> FALSE]

Worker == [pc : {"none", "idle", "sign", "read", "check", "merge", "report", "save"},
           task : Tasks \cup {NoTask}, attempt : Nat,
           signature : Nat, entries : Nat, stable : BOOLEAN, ok : BOOLEAN]
Nobody == [pc |-> "none", task |-> NoTask, attempt |-> 0, signature |-> 0,
           entries |-> 0, stable |-> FALSE, ok |-> FALSE]
Idle == [Nobody EXCEPT !.pc = "idle"]

MemorySource(r) == r.status = "result"

\* The worker at its second lock: what it read is forgotten.
Outcome(ok) == [worker EXCEPT !.pc = "report", !.ok = ok, !.signature = 0,
                              !.entries = 0, !.stable = FALSE]

\* Mutant: any result of the task will do.
MineIgnoringAttempt(w) == MemorySource(task[w.task])

\* What the worker is at is still what the task is waiting for.
Mine(w) == MemorySource(task[w.task]) /\ task[w.task].attempt = w.attempt

Init ==
    /\ task = [t \in Tasks |-> [status |-> "absent", attempt |-> 0, sync |-> "none"]]
    /\ disk = task /\ ending = NoTask /\ calls = {}
    /\ pending = [t \in Tasks |-> NoEntry] /\ worker = Nobody
    /\ checkpoint = [t \in Tasks |-> 0] /\ memory = checkpoint
    /\ marker = [t \in Tasks |-> Unknown]
    /\ closed = FALSE /\ blocked = FALSE /\ restarts = 0

Open == ~closed /\ ~blocked

-----------------------------------------------------------------------------
(* The life of a task, as far as the memory depends on it. *)

\* A strict save: what a handler changes is in the file before anyone sees it.
\* One that fails is undone and leaves everything as it was.
Strictly(t, r) ==
    /\ task' = [task EXCEPT ![t] = r]
    /\ disk' = task'
    /\ UNCHANGED <<ending, pending, worker, closed, blocked, restarts>>

\* create_task, retry_task and repair_task: the next attempt forgets what the
\* one before it had to do, and goes on from its checkpoint.
NextAttempt(t) ==
    /\ Open
    /\ task[t].attempt = 0 \/ task[t].status \in {"result", "failed", "stopped"}
    /\ task[t].attempt < MaxAttempts[t]
    /\ Strictly(t, [status |-> "queued", attempt |-> task[t].attempt + 1, sync |-> "none"])
    /\ UNCHANGED <<calls, files>>

\* resume_task: the same attempt once more.
Resume(t) ==
    /\ Open /\ task[t].status = "stopped"
    /\ Strictly(t, [task[t] EXCEPT !.status = "queued", !.sync = "none"])
    /\ UNCHANGED <<calls, files>>

\* delete_task and clear_failed_tasks; the workspace goes with the task.
Deletable(r) ==
    /\ r.status \in {"result", "failed", "stopped"}
    /\ ~(MemorySource(r) /\ r.sync = "pending")

Delete(t) ==
    /\ ~blocked /\ Deletable(task[t])
    /\ Strictly(t, [task[t] EXCEPT !.status = "absent", !.sync = "none"])
    /\ checkpoint' = [checkpoint EXCEPT ![t] = 0]
    /\ UNCHANGED <<calls, memory, marker>>

\* _run_task takes a task; if it cannot be saved the run fails at once.
Running == {t \in Tasks : task[t].status = "running"}

Start(t) ==
    /\ Open /\ task[t].status = "queued" /\ Running = {} /\ ending = NoTask
    /\ \/ Strictly(t, [task[t] EXCEPT !.status = "running"])
       \/ /\ task' = [task EXCEPT ![t].status = "failed"]
          /\ UNCHANGED <<disk, ending, pending, worker, closed, blocked, restarts>>
    /\ UNCHANGED <<calls, files>>

\* The run commits a paragraph to the checkpoint.
Commit(t) ==
    /\ task[t].status = "running"
    /\ checkpoint[t] < MaxCommits[t]
    /\ checkpoint' = [checkpoint EXCEPT ![t] = @ + 1]
    /\ UNCHANGED <<records, calls, pending, worker, memory, marker, closed, blocked,
                   restarts>>

\* The run is over: with a result, which the memory is then to take, or without.
Conclude(t, status) ==
    /\ task[t].status = "running" /\ status \in {"result", "failed", "stopped"}
    /\ task' = [task EXCEPT ![t].status = status,
                            ![t].sync = IF status = "result" THEN "pending" ELSE @]
    /\ ending' = t
    /\ UNCHANGED <<disk, calls, pending, worker, files, closed, blocked, restarts>>

\* A save that may fail, or find that the file is not the one that was written.
Written ==
    \/ ~blocked /\ disk' = task /\ UNCHANGED blocked
    \/ UNCHANGED <<disk, blocked>>
    \/ blocked' = TRUE /\ UNCHANGED disk

\* _run_task saves, and has the translations of a result synchronised.
SaveEnding ==
    /\ ending # NoTask
    /\ Written
    /\ ending' = NoTask
    /\ calls' = calls \cup {t \in {ending} : MemorySource(task[t])}
    /\ UNCHANGED <<task, pending, worker, files, closed, restarts>>

-----------------------------------------------------------------------------
(* The work to do. *)

Due(t) == [attempt |-> task[t].attempt, due |-> TRUE]

\* Mutant: a worker that is there will see to it.
ScheduleMissed(t) ==
    /\ t \in calls
    /\ calls' = calls \ {t}
    /\ IF worker.pc = "none" /\ Open /\ MemorySource(task[t])
       THEN pending' = [pending EXCEPT ![t] = Due(t)] /\ worker' = Idle
       ELSE UNCHANGED <<pending, worker>>
    /\ UNCHANGED <<records, files, closed, blocked, restarts>>

\* _schedule_memory_sync: the worker is started unless there is one.
Schedule(t) ==
    /\ t \in calls
    /\ calls' = calls \ {t}
    /\ IF Open /\ MemorySource(task[t])
       THEN /\ pending' = [pending EXCEPT ![t] = Due(t)]
            /\ worker' = IF worker.pc = "none" THEN Idle ELSE worker
       ELSE UNCHANGED <<pending, worker>>
    /\ UNCHANGED <<records, files, closed, blocked, restarts>>

\* retry_memory_sync: pending, in the file too, and then scheduled.
RetryMemorySync(t) ==
    /\ ~blocked /\ MemorySource(task[t])
    /\ Strictly(t, [task[t] EXCEPT !.sync = "pending"])
    /\ calls' = calls \cup {t}
    /\ UNCHANGED files

\* The delay of a deferred task is over.
Tick(t) ==
    /\ pending[t] # NoEntry /\ ~pending[t].due
    /\ pending' = [pending EXCEPT ![t].due = TRUE]
    /\ UNCHANGED <<records, calls, worker, files, closed, blocked, restarts>>

-----------------------------------------------------------------------------
(* The worker: _sync_memories and sync_recovery. *)

Works(pc, w) ==
    /\ worker.pc = pc
    /\ worker' = w
    /\ UNCHANGED <<calls, closed, restarts>>

\* Nothing is left, or nothing may be done any more.
Leave ==
    /\ ~Open \/ \A t \in Tasks : pending[t] = NoEntry
    /\ Works("idle", Nobody)
    /\ UNCHANGED <<records, pending, files, blocked>>

\* A task that is due, unless the entry is about an attempt that is over.
Take(t) ==
    /\ Open /\ pending[t].due
    /\ pending' = [pending EXCEPT ![t] = NoEntry]
    /\ LET w == [Idle EXCEPT !.pc = "sign", !.task = t, !.attempt = pending[t].attempt]
       IN  Works("idle", IF Mine(w) THEN w ELSE Idle)
    /\ UNCHANGED <<records, files, blocked>>

\* An error, wherever it is raised, leaves no trace: the rows and the marker are
\* written in one transaction.  A synchronisation that fails later than here is
\* one that waited here until it failed.
Fail ==
    /\ Works("sign", Outcome(FALSE))
    /\ UNCHANGED <<records, pending, files, blocked>>

\* The signature of the checkpoint; nothing to do if there is none, or if the
\* marker bears it.
Sign ==
    LET s == checkpoint[worker.task] IN
    /\ Works("sign", IF s \in {0, marker[worker.task]} THEN Outcome(TRUE)
                     ELSE [worker EXCEPT !.pc = "read", !.signature = s])
    /\ UNCHANGED <<records, pending, files, blocked>>

\* The rows of the checkpoint, unless it was deleted meanwhile ...
Read ==
    LET s == checkpoint[worker.task] IN
    /\ Works("read", IF s = 0 THEN Outcome(FALSE)
                     ELSE [worker EXCEPT !.pc = "check", !.entries = s])
    /\ UNCHANGED <<records, pending, files, blocked>>

\* ... which is looked at again: has it changed since it was signed?
Stable(w) == w.signature = checkpoint[w.task]

Check ==
    /\ Works("check", [worker EXCEPT !.pc = "merge", !.stable = Stable(worker)])
    /\ UNCHANGED <<records, pending, files, blocked>>

\* upsert: the rows and the marker in one transaction.
Merge ==
    LET w == worker IN
    /\ Works("merge", Outcome(TRUE))
    /\ memory' = [memory EXCEPT ![w.task] = w.entries]
    /\ marker' = [marker EXCEPT ![w.task] = IF w.stable THEN w.signature ELSE Unknown]
    /\ UNCHANGED <<records, pending, checkpoint, blocked>>

\* Under the lock again: the outcome counts if the attempt is still the same;
\* after an error the task is deferred, unless it was scheduled meanwhile.
Deferred(w) ==
    IF w.ok \/ pending[w.task] # NoEntry THEN pending
    ELSE [pending EXCEPT ![w.task] = [attempt |-> w.attempt, due |-> FALSE]]

Report ==
    LET w == worker
        state == IF w.ok THEN "synced" ELSE "pending"
        changed == task[w.task].sync \notin {state, IF w.ok THEN "none" ELSE state}
    IN  /\ w.pc = "report"
        /\ IF closed \/ ~Mine(w)
           THEN Works("report", Idle) /\ UNCHANGED <<task, pending>>
           ELSE /\ Works("report", IF changed THEN [Idle EXCEPT !.pc = "save"] ELSE Idle)
                /\ task' = [task EXCEPT ![w.task].sync = IF changed THEN state ELSE @]
                /\ pending' = Deferred(w)
        /\ UNCHANGED <<disk, ending, files, blocked>>

Save ==
    /\ Works("save", Idle)
    /\ Written
    /\ UNCHANGED <<task, ending, pending, files>>

-----------------------------------------------------------------------------
(* The end of a server, and the next one. *)

Close ==
    /\ ~closed
    /\ closed' = TRUE
    /\ UNCHANGED <<records, calls, pending, worker, files, blocked, restarts>>

\* What was under way is interrupted.
Loaded(r) ==
    IF r.status \in {"queued", "running"} THEN [r EXCEPT !.status = "stopped"] ELSE r

\* The process ends or dies, and another one starts from the file: whatever
\* has a result is scheduled.
Restart ==
    /\ restarts < MaxRestarts /\ restarts' = restarts + 1
    /\ task' = [t \in Tasks |-> Loaded(disk[t])]
    /\ pending' = [t \in Tasks |->
         IF MemorySource(disk[t]) THEN [attempt |-> disk[t].attempt, due |-> TRUE]
         ELSE NoEntry]
    /\ worker' = IF \E t \in Tasks : MemorySource(disk[t]) THEN Idle ELSE Nobody
    /\ ending' = NoTask /\ calls' = {} /\ closed' = FALSE /\ blocked' = FALSE
    /\ UNCHANGED <<disk, files>>

-----------------------------------------------------------------------------
\* A step of the worker that it takes by itself.
Work == Leave \/ Read \/ Check \/ Merge \/ Report \/ Save

Next ==
    \/ \E t \in Tasks :
          \/ NextAttempt(t) \/ Resume(t) \/ Delete(t) \/ Start(t) \/ Commit(t)
          \/ \E status \in {"result", "failed", "stopped"} : Conclude(t, status)
          \/ Schedule(t) \/ RetryMemorySync(t) \/ Tick(t) \/ Take(t)
    \/ SaveEnding \/ Work \/ Fail \/ Sign \/ Close \/ Restart

Spec == Init /\ [][Next]_vars

\* Threads go on and delays end; a task that is due is taken in the end, for the
\* worker takes the one that has been due for longest; and a checkpoint that can
\* be read and a memory that can be written now and then is synchronised once.
Fairness ==
    /\ WF_vars(SaveEnding) /\ WF_vars(Work) /\ WF_vars(Sign \/ Fail)
    /\ \A t \in Tasks :
          /\ WF_vars(Schedule(t)) /\ WF_vars(Tick(t))
          /\ SF_vars(Take(t)) /\ SF_vars(Sign /\ worker.task = t)

FairSpec == Spec /\ Fairness

-----------------------------------------------------------------------------
TypeOK ==
    /\ task \in [Tasks -> Record] /\ disk \in [Tasks -> Record]
    /\ ending \in Tasks \cup {NoTask} /\ calls \subseteq Tasks
    /\ pending \in [Tasks -> Entry] /\ worker \in Worker
    /\ checkpoint \in [Tasks -> Nat] /\ memory \in [Tasks -> Nat]
    /\ marker \in [Tasks -> Nat \cup {Unknown}]
    /\ closed \in BOOLEAN /\ blocked \in BOOLEAN /\ restarts \in 0..MaxRestarts

\* A result that is deleted leaves every translation of its checkpoint in the
\* memory, whatever attempt wrote to the checkpoint while it was read, whatever
\* failed and whenever the server was restarted (delete_task; server/README.md).
DeletedIsRemembered ==
    [][\A t \in Tasks :
          MemorySource(task[t]) /\ task'[t].status = "absent" =>
              memory[t] = checkpoint[t]]_vars

\* What is to be synchronised is: the worker never leaves work behind, and a
\* task that fails comes back without keeping the others from their turn, until
\* it is synchronised or the server is closed or may not write its store.
SyncEnds ==
    \A t \in Tasks :
        MemorySource(task[t]) /\ task[t].sync = "pending" ~>
            ~MemorySource(task[t]) \/ task[t].sync = "synced" \/ ~Open
=============================================================================
