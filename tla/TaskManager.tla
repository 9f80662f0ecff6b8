----------------------------- MODULE TaskManager -----------------------------
(***************************************************************************)
(* The task manager of the translation server (server/task_manager.py).    *)
(*                                                                         *)
(* HTTP threads create, cancel, resume, retry, repair and delete tasks.    *)
(* Each of those handlers runs from its first check to its last assignment *)
(* under the persistence lock and the state lock, so it is one action.     *)
(* One worker thread takes (task, attempt) items from a FIFO queue, runs   *)
(* them, and saves what came out; it copies the records under the state    *)
(* lock but writes the file holding the persistence lock only, so a save   *)
(* of the worker is two actions and close(), which takes the state lock    *)
(* only, may come between them.  Every file write may fail.  The process   *)
(* may die at any point; a new one starts from the file alone.             *)
(*                                                                         *)
(* Left to other modules: the bytes of the store and its protection        *)
(* (TaskStore), the child process of a run (TaskRuntime), the events sent  *)
(* to clients (TaskEvents), the translation memory (MemorySync).           *)
(***************************************************************************)
EXTENDS Naturals, Sequences

CONSTANTS
    Tasks,        \* task ids; uuid4 never gives an id out twice
    Requests,     \* submission ids the clients choose
    Fingerprint,  \* what each task translates: file, service and options
    NoTask,       \* no task id
    MaxAttempt    \* bound on the retries and repairs of one task

ASSUME ConstantsAssumption ==
    /\ NoTask \notin Tasks
    /\ MaxAttempt \in Nat \ {0}

VARIABLES
    task,         \* the records in memory
    submissions,  \* the task each submission id was answered with
    pending,      \* the work queue: (task, attempt) items, then the sentinel
    pc,           \* where the worker thread is
    job,          \* the item the worker took from the queue
    outcome,      \* what the run of that item came to
    snap,         \* {} or what a save copied; the persistence lock is then held
    closed,       \* close() has begun
    finalSave,    \* close() will save once the worker has stopped
    blocked,      \* a child process may still live: nothing may be started
    disk,         \* the task store file
    promise       \* history: the last request for a task that was acknowledged

memory == <<task, submissions, pending, pc, job, outcome, snap, closed,
            finalSave, blocked>>
vars == <<memory, disk, promise>>

-----------------------------------------------------------------------------
ActiveStatus == {"queued", "running", "cancelling"}
Status == ActiveStatus \cup {"absent", "paused", "incomplete", "completed",
                             "failed", "cancelled"}

Record == [status: Status, recovery: {"none", "queued", "interrupted"},
           attempt: Nat, cancelRequested: BOOLEAN, cancelEvent: BOOLEAN,
           results: BOOLEAN]

Absent == [status |-> "absent", recovery |-> "none", attempt |-> 0,
           cancelRequested |-> FALSE, cancelEvent |-> FALSE, results |-> FALSE]

NewRecord == [Absent EXCEPT !.status = "queued", !.attempt = 1]

Image == [task: [Tasks -> Record], submissions: [Requests -> Tasks \cup {NoTask}]]

Items == [task: Tasks \cup {NoTask}, attempt: Nat]
Item(t) == [task |-> t, attempt |-> task[t].attempt]
Stop == [task |-> NoTask, attempt |-> 0]
NoJob == Stop

Present(t) == task[t].status # "absent"
Active(r) == r.status \in ActiveStatus
Recovering(r) == r.recovery # "none"
Live(r) == Active(r) \/ Recovering(r)
Current(j) == j.task \in Tasks /\ Present(j.task)
                /\ task[j.task].attempt = j.attempt

(* Event objects are not saved. *)
Saved(r) == [r EXCEPT !.cancelEvent = FALSE]

ImageOf(tasks, subs) ==
    [task |-> [t \in Tasks |-> Saved(tasks[t])], submissions |-> subs]

(* Mutant of Loaded: a restart forgets that a cancellation was asked for. *)
LoadedIgnoringCancel(r) ==
    IF ~Active(r) THEN r
    ELSE IF r.status = "queued"
    THEN [r EXCEPT !.status = "paused", !.recovery = "queued"]
    ELSE [r EXCEPT !.status = "incomplete", !.recovery = "interrupted"]

(* What a new process makes of a saved record. *)
Loaded(r) ==
    IF ~Active(r) THEN r
    ELSE IF r.cancelRequested
    THEN [r EXCEPT !.status = "cancelled", !.recovery = "none"]
    ELSE IF r.status = "queued"
    THEN [r EXCEPT !.status = "paused", !.recovery = "queued"]
    ELSE [r EXCEPT !.status = "incomplete", !.recovery = "interrupted"]

Requeued(r) == [r EXCEPT !.status = "queued", !.recovery = "none",
                         !.cancelRequested = FALSE, !.cancelEvent = FALSE]

(* Mutant of NextAttempt: the results of the previous attempt stay. *)
NextAttemptKeepsResults(r) == [Requeued(r) EXCEPT !.attempt = r.attempt + 1]

NextAttempt(r) == [r EXCEPT !.status = "queued", !.recovery = "none",
                            !.cancelRequested = FALSE, !.cancelEvent = FALSE,
                            !.attempt = r.attempt + 1, !.results = FALSE]

(* Shutdown stops a run without changing what the user asked for. *)
CancellationFinished(r) ==
    IF closed /\ ~r.cancelRequested
    THEN [r EXCEPT !.status = "incomplete", !.recovery = "interrupted",
                   !.results = FALSE]
    ELSE [r EXCEPT !.status = "cancelled", !.recovery = "none",
                   !.results = FALSE]

-----------------------------------------------------------------------------
(* The locks and the strict save of the handlers. *)

Unlocked == snap = {}
Open == ~closed /\ ~blocked

(* The file takes the new records and the request counts as acknowledged. *)
Commit(tasks, subs) ==
    /\ task' = tasks
    /\ submissions' = subs
    /\ disk' = ImageOf(tasks, subs)

Acknowledge(ts, what) ==
    promise' = [t \in Tasks |-> IF t \in ts THEN what ELSE promise[t]]

(* The write failed; the handler has put everything back and raised. *)
RolledBack == UNCHANGED vars

WorkerStarted == IF pc = "none" THEN "idle" ELSE pc

Enqueue(t, r) ==
    /\ Commit([task EXCEPT ![t] = r], submissions)
    /\ pending' = Append(pending, [task |-> t, attempt |-> r.attempt])
    /\ pc' = WorkerStarted
    /\ Acknowledge({t}, "run")
    /\ UNCHANGED <<job, outcome, snap, closed, finalSave, blocked>>

-----------------------------------------------------------------------------
(* HTTP handlers. *)

Duplicates(t) == {u \in Tasks : /\ Fingerprint[u] = Fingerprint[t]
                                /\ Live(task[u])}

(* Mutant of Create: a failed save leaves the new record in memory. *)
CreateNotRolledBack(r, t) ==
    /\ Unlocked /\ Open
    /\ submissions[r] = NoTask /\ promise[t] = "none" /\ Duplicates(t) = {}
    /\ task' = [task EXCEPT ![t] = NewRecord]
    /\ UNCHANGED <<submissions, pending, pc, job, outcome, snap, closed, finalSave,
                   blocked, disk, promise>>

(* Mutant of Create: a submission id that was answered is answered anew. *)
CreateForgetsAnswers(r, t) ==
    /\ Unlocked /\ Open
    /\ promise[t] = "none" /\ Duplicates(t) = {}
    /\ Commit([task EXCEPT ![t] = NewRecord], [submissions EXCEPT ![r] = t])
    /\ pending' = Append(pending, [task |-> t, attempt |-> 1])
    /\ Acknowledge({t}, "run")
    /\ UNCHANGED <<pc, job, outcome, snap, closed, finalSave, blocked>>

(* A request id seen for the first time: a new task, saved before the      *)
(* worker can see it, or the live task that already translates the same.   *)
(* (A known id is answered with its task and changes nothing.)             *)
Create(r, t) ==
    /\ Unlocked /\ Open
    /\ submissions[r] = NoTask
    /\ promise[t] = "none"
    /\ Duplicates(t) = {}
    /\ \/ /\ Commit([task EXCEPT ![t] = NewRecord],
                    [submissions EXCEPT ![r] = t])
          /\ pending' = Append(pending, [task |-> t, attempt |-> 1])
          /\ Acknowledge({t}, "run")
          /\ UNCHANGED <<pc, job, outcome, snap, closed, finalSave, blocked>>
       \/ RolledBack

Attach(r, t) ==
    /\ Unlocked /\ Open
    /\ submissions[r] = NoTask
    /\ promise[t] = "none"
    /\ \E u \in Duplicates(t) :
          \/ /\ Commit(task, [submissions EXCEPT ![r] = u])
             /\ UNCHANGED <<pending, pc, job, outcome, snap, closed, finalSave,
                            blocked, promise>>
          \/ RolledBack

(* create_task starts the worker in a second critical section. *)
StartWorker ==
    /\ ~closed /\ pc = "none" /\ pending # <<>>
    /\ pc' = "idle"
    /\ UNCHANGED <<task, submissions, pending, job, outcome, snap, closed,
                   finalSave, blocked, disk, promise>>

CancelledByUser(r) ==
    IF Live(r)
    THEN [r EXCEPT !.recovery = "none", !.cancelRequested = TRUE, !.cancelEvent = TRUE,
                   !.status = IF r.status = "queued" \/ Recovering(r)
                              THEN "cancelled" ELSE "cancelling"]
    ELSE r

(* Mutant of Cancel: a queued task is left to the worker to cancel. *)
CancelLeavesItToWorker(t) ==
    /\ Unlocked /\ Active(task[t])
    /\ Commit([task EXCEPT ![t] = [@ EXCEPT !.cancelRequested = TRUE,
                                           !.cancelEvent = TRUE,
                                           !.status = "cancelling"]], submissions)
    /\ Acknowledge({t}, "cancel")
    /\ UNCHANGED <<pending, pc, job, outcome, snap, closed, finalSave, blocked>>

(* A cancellation is kept in memory even when it cannot be saved; only a   *)
(* saved one is acknowledged.  Repeating one that ended retries the save.  *)
Cancel(t) ==
    LET tasks == [task EXCEPT ![t] = CancelledByUser(task[t])]
    IN /\ Unlocked /\ Present(t)
       /\ Live(task[t]) \/ task[t].cancelRequested
       /\ \/ Commit(tasks, submissions) /\ Acknowledge({t}, "cancel")
          \/ task' = tasks /\ UNCHANGED <<submissions, disk, promise>>
       /\ UNCHANGED <<pending, pc, job, outcome, snap, closed, finalSave, blocked>>

Remove(ts) ==
    /\ Unlocked
    /\ \/ /\ Commit([t \in Tasks |-> IF t \in ts THEN Absent ELSE task[t]],
                    submissions)
          /\ Acknowledge(ts, "deleted")
          /\ UNCHANGED <<pending, pc, job, outcome, snap, closed, finalSave, blocked>>
       \/ RolledBack

Delete(t) == Present(t) /\ ~Active(task[t]) /\ Remove({t})

(* With no failed task this only saves the store. *)
ClearFailed == Remove({t \in Tasks : task[t].status = "failed"})

Resume(t) ==
    /\ Unlocked /\ Open
    /\ Present(t) /\ Recovering(task[t])
    /\ Enqueue(t, Requeued(task[t])) \/ RolledBack

(* retry_task, also called by repair_task: a failed task is retried, a     *)
(* cancelled or finished one repaired; both start a new attempt.           *)
Retry(t) ==
    /\ Unlocked /\ Open
    /\ Present(t) /\ task[t].attempt < MaxAttempt
    /\ task[t].status \in {"failed", "incomplete", "completed", "cancelled"}
    /\ Enqueue(t, NextAttempt(task[t])) \/ RolledBack

-----------------------------------------------------------------------------
(* The worker thread. *)

(* _work: take an item; the sentinel or a blocked queue ends the thread. *)
Take ==
    /\ pc = "idle" /\ pending # <<>>
    /\ pending' = Tail(pending)
    /\ IF Head(pending) = Stop \/ blocked
       THEN pc' = "exited" /\ UNCHANGED job
       ELSE pc' = "taken" /\ job' = Head(pending)
    /\ UNCHANGED <<task, submissions, outcome, snap, closed, finalSave, blocked,
                   disk, promise>>

Admissible(j) == ~closed /\ Current(j) /\ ~Recovering(task[j.task])
                   /\ task[j.task].status = "queued"

Started(r) ==
    [r EXCEPT !.status = IF r.cancelRequested THEN "cancelling" ELSE "running"]

(* _run_task, first critical section: an item that is no longer what it    *)
(* was queued for is dropped.                                              *)
Admit ==
    /\ pc = "taken" /\ Admissible(job)
    /\ pc' = "begun"
    /\ task' = [task EXCEPT ![job.task] = Started(@)]
    /\ Acknowledge({job.task}, "started")
    /\ UNCHANGED <<submissions, pending, job, outcome, snap, closed, finalSave,
                   blocked, disk>>

(* Mutant of Skip: an item that is out of date ends the thread. *)
SkipEndsThread ==
    /\ pc = "taken" /\ ~Admissible(job)
    /\ pc' = "exited" /\ job' = NoJob
    /\ UNCHANGED <<task, submissions, pending, outcome, snap, closed, finalSave,
                   blocked, disk, promise>>

Skip ==
    /\ pc = "taken" /\ ~Admissible(job)
    /\ pc' = "idle" /\ job' = NoJob
    /\ UNCHANGED <<task, submissions, pending, outcome, snap, closed, finalSave,
                   blocked, disk, promise>>

(* The three saves of the worker: before the run (strict), from time to    *)
(* time during it, and after it.                                           *)
SaveStarts ==
    /\ pc \in {"begun", "running", "saving"} /\ Unlocked
    /\ snap' = {ImageOf(task, submissions)}
    /\ UNCHANGED <<task, submissions, pending, pc, job, outcome, closed,
                   finalSave, blocked, disk, promise>>

Written(image) == disk' = image \/ disk' = disk

SaveEnds ==
    /\ \E image \in snap :
          \/ /\ pc = "begun"
             /\ \/ disk' = image /\ pc' = "running" /\ UNCHANGED outcome
                \/ disk' = disk /\ pc' = "ended" /\ outcome' = "error"
             /\ UNCHANGED job
          \/ /\ pc = "running"
             /\ Written(image) /\ UNCHANGED <<pc, job, outcome>>
          \/ /\ pc = "saving"
             /\ Written(image)
             /\ pc' = "idle" /\ job' = NoJob /\ UNCHANGED outcome
    /\ snap' = {}
    /\ UNCHANGED <<task, submissions, pending, closed, finalSave, blocked, promise>>

(* run_translation returns or raises.  It returns no result once it has    *)
(* seen the cancellation; a cancellation may still arrive after it did.    *)
RunEnds ==
    /\ pc = "running" /\ Unlocked
    /\ outcome' \in IF task[job.task].cancelEvent
                    THEN {"cancelled", "error", "cleanup"}
                    ELSE {"completed", "incomplete", "cancelled", "error", "cleanup"}
    /\ pc' = "ended"
    /\ UNCHANGED <<task, submissions, pending, job, snap, closed, finalSave,
                   blocked, disk, promise>>

(* Mutant of Concluded: results are kept although the run was cancelled. *)
ConcludedIgnoringCancel(r) ==
    IF outcome \in {"cleanup", "error"} THEN [r EXCEPT !.status = "failed"]
    ELSE IF outcome = "cancelled" THEN CancellationFinished(r)
    ELSE [r EXCEPT !.status = outcome, !.results = TRUE]

(* What the record becomes, by what the run came to. *)
Concluded(r) ==
    IF outcome = "cleanup" THEN [r EXCEPT !.status = "failed"]
    ELSE IF r.cancelEvent \/ outcome = "cancelled" THEN CancellationFinished(r)
    ELSE IF outcome = "error" THEN [r EXCEPT !.status = "failed"]
    ELSE [r EXCEPT !.status = outcome, !.results = TRUE]

Conclude ==
    /\ pc = "ended"
    /\ IF Current(job)
       THEN /\ task' = [task EXCEPT ![job.task] = Concluded(@)]
            /\ pc' = "saving" /\ UNCHANGED job
       ELSE UNCHANGED task /\ pc' = "idle" /\ job' = NoJob
    /\ blocked' = (blocked \/ outcome = "cleanup")
    /\ outcome' = "none"
    /\ UNCHANGED <<submissions, pending, snap, closed, finalSave, disk, promise>>

-----------------------------------------------------------------------------
(* The end of the process and the next one. *)

(* Mutant of Closing: what is queued is left as it is. *)
ClosingLeavesQueued(r) ==
    IF Active(r) /\ r.status # "queued"
    THEN [r EXCEPT !.status = "cancelling", !.cancelEvent = TRUE]
    ELSE r

Closing(r) ==
    IF ~Active(r) THEN r
    ELSE IF r.status = "queued"
    THEN [r EXCEPT !.status = "paused", !.recovery = "queued", !.cancelEvent = TRUE]
    ELSE [r EXCEPT !.status = "cancelling", !.cancelEvent = TRUE]

(* Mutant of Close: the worker is not told to stop. *)
CloseWithoutSentinel ==
    /\ ~closed /\ closed' = TRUE
    /\ finalSave' = \E t \in Tasks : Active(task[t])
    /\ UNCHANGED <<task, submissions, pending, pc, job, outcome, snap, blocked,
                   disk, promise>>

(* close(), under the state lock only: it may come while a save is open.   *)
Close ==
    /\ ~closed
    /\ closed' = TRUE
    /\ finalSave' = \E t \in Tasks : Active(task[t])
    /\ task' = [t \in Tasks |-> Closing(task[t])]
    /\ pending' = IF pc = "none" THEN pending ELSE Append(pending, Stop)
    /\ UNCHANGED <<submissions, pc, job, outcome, snap, blocked, disk, promise>>

(* close(), after the worker was joined. *)
CloseSaves ==
    /\ finalSave /\ pc \in {"none", "exited"}
    /\ finalSave' = FALSE
    /\ disk' = disk \/ disk' = ImageOf(task, submissions)
    /\ UNCHANGED <<task, submissions, pending, pc, job, outcome, snap, closed,
                   blocked, promise>>

(* The process is gone, at any point: after close, killed, or crashed.  A  *)
(* new one loads the file; blocked says that recover_leases could not make *)
(* sure that the children of the old one are dead.                         *)
Restart ==
    /\ task' = [t \in Tasks |-> Loaded(disk.task[t])]
    /\ submissions' = disk.submissions
    /\ pending' = <<>> /\ pc' = "none" /\ job' = NoJob /\ outcome' = "none"
    /\ snap' = {} /\ closed' = FALSE /\ finalSave' = FALSE
    /\ blocked' \in BOOLEAN
    /\ UNCHANGED <<disk, promise>>

-----------------------------------------------------------------------------
Init ==
    /\ task = [t \in Tasks |-> Absent]
    /\ submissions = [r \in Requests |-> NoTask]
    /\ pending = <<>> /\ pc = "none" /\ job = NoJob /\ outcome = "none"
    /\ snap = {} /\ closed = FALSE /\ finalSave = FALSE /\ blocked = FALSE
    /\ disk = ImageOf(task, submissions)
    /\ promise = [t \in Tasks |-> "none"]

Handlers ==
    \/ \E r \in Requests, t \in Tasks : Create(r, t) \/ Attach(r, t)
    \/ \E t \in Tasks : Cancel(t) \/ Delete(t) \/ Resume(t) \/ Retry(t)
    \/ ClearFailed

Worker == \/ StartWorker \/ Take \/ Admit \/ Skip
          \/ SaveStarts \/ SaveEnds \/ RunEnds \/ Conclude

Next == Handlers \/ Worker \/ Close \/ CloseSaves \/ Restart

Spec == Init /\ [][Next]_vars

(* The threads that run are not stopped for ever by the scheduler.  The    *)
(* checkpoints during a run are left out: nothing waits for them.          *)
ThreadsRun ==
    /\ WF_vars(StartWorker) /\ WF_vars(Take) /\ WF_vars(Admit) /\ WF_vars(Skip)
    /\ WF_vars(pc # "running" /\ SaveStarts) /\ WF_vars(SaveEnds)
    /\ WF_vars(Conclude) /\ WF_vars(CloseSaves)

(* run_translation polls the cancellation between two checkpoints and      *)
(* gives up 15 seconds after it: strong, since a checkpoint interrupts it. *)
CancelledRunsEnd == SF_vars(RunEnds /\ task[job.task].cancelEvent)

(* A translation left alone comes to an end (bounded retries per request). *)
RunsEnd == SF_vars(RunEnds)

LiveSpec == Spec /\ ThreadsRun /\ CancelledRunsEnd

-----------------------------------------------------------------------------
TypeOK ==
    /\ task \in [Tasks -> Record]
    /\ submissions \in [Requests -> Tasks \cup {NoTask}]
    /\ pending \in Seq(Items)
    /\ pc \in {"none", "idle", "taken", "begun", "running", "ended", "saving", "exited"}
    /\ job \in Items
    /\ outcome \in {"none", "completed", "incomplete", "cancelled", "error", "cleanup"}
    /\ (outcome # "none") <=> (pc = "ended")
    /\ snap \in SUBSET Image
    /\ closed \in BOOLEAN /\ finalSave \in BOOLEAN /\ blocked \in BOOLEAN
    /\ disk \in Image
    /\ promise \in [Tasks -> {"none", "run", "started", "cancel", "deleted"}]

-----------------------------------------------------------------------------
(* Properties. *)

Versions(t) == {task[t], disk.task[t]} \cup {image.task[t] : image \in snap}

(* A cancellation that was acknowledged is final until the user asks for a *)
(* new attempt: in memory, in the file and in a save under way the task is *)
(* neither runnable nor resumable, and offers no result (cancel_task,      *)
(* _finish_cancellation_locked, _load_persistent_tasks).                   *)
CancelIsFinal ==
    \A t \in Tasks : promise[t] = "cancel" =>
        \A r \in Versions(t) :
            /\ r.cancelRequested /\ ~r.results /\ ~Recovering(r)
            /\ r.status \in {"cancelling", "cancelled", "failed"}

(* Memory, the file and a save under way agree on which tasks exist, on    *)
(* their attempt and on the answer to every submission, whatever saves     *)
(* failed before: a crash takes back no acknowledged create, retry or      *)
(* delete, and a rejected one leaves nothing behind.                       *)
AcceptedIsDurable ==
    /\ \A t \in Tasks : \A r \in Versions(t) :
          /\ r.attempt = task[t].attempt
          /\ (r.status = "absent") <=> promise[t] \in {"none", "deleted"}
    /\ \A image \in snap \cup {disk} : image.submissions = submissions
    /\ \A r \in Requests : submissions[r] # NoTask => promise[submissions[r]] # "none"

(* A task that says queued is in the queue for its attempt, or in the      *)
(* worker's hands, unless the queue is blocked.                            *)
QueuedIsPending ==
    \A t \in Tasks : task[t].status = "queued" =>
        /\ ~closed
        /\ \/ blocked
           \/ \E i \in 1..Len(pending) : pending[i] = Item(t)
           \/ pc = "taken" /\ job = Item(t)

(* A task says running or cancelling exactly while the worker is busy with *)
(* its current attempt.                                                    *)
RunningIsExecuted ==
    /\ \A t \in Tasks :
          task[t].status \in {"running", "cancelling"}
              <=> pc \in {"begun", "running", "ended"} /\ job.task = t
    /\ pc \in {"begun", "running", "ended"} => \E t \in Tasks : job = Item(t)

(* Whatever a task says that is under way, somebody sees to it: nothing    *)
(* accepted waits for a worker that will never look at it, no handler      *)
(* takes the record away under a run, and no path out of a run leaves the  *)
(* task behind (_work, _run_task, close).                                  *)
WorkIsOwned == QueuedIsPending /\ RunningIsExecuted

(* What the file says of an attempt never gets ahead of memory: finished   *)
(* results in the file are the results in memory.                          *)
DiskBehindMemory ==
    \A t \in Tasks : \A r \in Versions(t) : r.results =>
        task[t].results /\ task[t].status = r.status

(* The manager keeps the promises of the abstract task life cycle: a run   *)
(* answers exactly one acknowledged request, and crashes lose no promise.  *)
Lifecycle == INSTANCE TaskLifecycle WITH
    generation <- [t \in Tasks |-> task[t].attempt],
    executing <- IF pc \in {"begun", "running", "ended"} THEN job.task ELSE NoTask,
    offered <- {t \in Tasks : task[t].results}

ImplementsLifecycle == Lifecycle!Spec

(* Answers to submissions are permanent, across failed saves and crashes:  *)
(* a client that repeats a submission gets the task it was given before.   *)
AnswersArePermanent ==
    [][\A r \in Requests : disk.submissions[r] # NoTask =>
          disk'.submissions[r] = disk.submissions[r]
          /\ submissions'[r] = disk.submissions[r]]_vars

(* Cancelling is a passing state: a task that says cancelling leaves it,   *)
(* with no assumption on how long translations take.                       *)
CancellationEnds ==
    \A t \in Tasks : task[t].status = "cancelling" ~> task[t].status # "cancelling"

(* Once close() began, the worker stops and the final save is attempted,   *)
(* unless the process dies first.                                          *)
CloseEnds == closed ~> (~closed \/ (pc \in {"none", "exited"} /\ ~finalSave))

(* If translations left alone end, every queued task gets its turn, unless *)
(* the queue gets blocked.                                                 *)
QueueMoves ==
    RunsEnd => \A t \in Tasks : task[t].status = "queued" ~> task[t].status # "queued" \/ blocked
=============================================================================
