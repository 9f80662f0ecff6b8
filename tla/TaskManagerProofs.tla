-------------------------- MODULE TaskManagerProofs --------------------------
(***************************************************************************)
(* Proofs about TaskManager, for any set of tasks and submission ids, any  *)
(* number of attempts, and any sequence of failed saves and restarts.      *)
(***************************************************************************)
EXTENDS TaskManager, TLAPS

(* What a record may look like, whoever holds it. *)
Sound(r) ==
    /\ r.cancelRequested =>
          r.status \in {"cancelling", "cancelled", "failed"} /\ ~r.results
    /\ r.results => r.status \in {"completed", "incomplete"}
    /\ Recovering(r) => r.status \in {"paused", "incomplete"} /\ ~r.results
                          /\ ~r.cancelRequested

RecordsSound == \A t \in Tasks : \A r \in Versions(t) : Sound(r)

(* A cancellation that was asked for reaches the run it is about. *)
CancelSignalled ==
    \A t \in Tasks : task[t].cancelRequested /\ Active(task[t]) => task[t].cancelEvent

(* What was acknowledged as cancelled says so everywhere. *)
CancelRecorded ==
    \A t \in Tasks : promise[t] = "cancel" =>
        \A r \in Versions(t) : r.cancelRequested

(* While the worker is busy its item is the current attempt of a task, and *)
(* that task is the one that says so.                                      *)
Busy == pc \in {"begun", "running", "ended"}
Running(r) == r.status \in {"running", "cancelling"}

JobIsCurrent ==
    /\ Busy => job.task \in Tasks /\ job.attempt = task[job.task].attempt
    /\ \A t \in Tasks : Running(task[t]) <=> Busy /\ job.task = t

-----------------------------------------------------------------------------
LEMMA SavedRecord ==
    ASSUME NEW r \in Record
    PROVE  /\ Saved(r) \in Record
           /\ Saved(r).status = r.status /\ Saved(r).recovery = r.recovery
           /\ Saved(r).attempt = r.attempt /\ Saved(r).results = r.results
           /\ Saved(r).cancelRequested = r.cancelRequested
BY DEF Saved, Record

LEMMA ImageTyped ==
    ASSUME NEW tasks \in [Tasks -> Record],
           NEW subs \in [Requests -> Tasks \cup {NoTask}]
    PROVE  /\ ImageOf(tasks, subs) \in Image
           /\ ImageOf(tasks, subs).submissions = subs
           /\ \A t \in Tasks : ImageOf(tasks, subs).task[t] = Saved(tasks[t])
<1>1. \A t \in Tasks : Saved(tasks[t]) \in Record
  BY SavedRecord
<1>2. QED BY <1>1 DEF ImageOf, Image

LEMMA LoadedRecord ==
    ASSUME NEW r \in Record
    PROVE  /\ Loaded(r) \in Record
           /\ Loaded(r).attempt = r.attempt /\ Loaded(r).results = r.results
           /\ Loaded(r).cancelRequested = r.cancelRequested
           /\ (Loaded(r).status = "absent") <=> (r.status = "absent")
           /\ ~Active(Loaded(r))
           /\ Sound(r) => Sound(Loaded(r))
BY DEF Loaded, Record, Status, ActiveStatus, Active, Sound, Recovering

LEMMA ConcludedRecord ==
    ASSUME NEW r \in Record,
           outcome \in {"completed", "incomplete", "cancelled", "error", "cleanup"},
           r.status \in {"running", "cancelling"},
           r.cancelRequested => r.cancelEvent,
           Sound(r)
    PROVE  /\ Concluded(r) \in Record
           /\ Concluded(r).attempt = r.attempt
           /\ Concluded(r).status \in {"failed", "cancelled", "incomplete", "completed"}
           /\ Concluded(r).cancelRequested = r.cancelRequested
           /\ Sound(Concluded(r))
BY DEF Concluded, CancellationFinished, Record, Status, ActiveStatus, Active,
       Sound, Recovering

LEMMA RequeuedRecord ==
    ASSUME NEW r \in Record
    PROVE  /\ Requeued(r) \in Record /\ NextAttempt(r) \in Record
           /\ Requeued(r).attempt = r.attempt
           /\ Requeued(r).status = "queued" /\ NextAttempt(r).status = "queued"
           /\ ~r.results => Sound(Requeued(r))
           /\ Sound(NextAttempt(r))
           /\ ~Requeued(r).cancelRequested /\ ~NextAttempt(r).cancelRequested
<1>1. Requeued(r) \in Record /\ ~Requeued(r).cancelRequested
        /\ Requeued(r).attempt = r.attempt /\ Requeued(r).status = "queued"
        /\ Requeued(r).results = r.results /\ ~Recovering(Requeued(r))
  BY DEF Requeued, Record, Status, ActiveStatus, Recovering
<1>2. r.attempt + 1 \in Nat
  BY DEF Record
<1>3. NextAttempt(r) \in Record /\ ~NextAttempt(r).cancelRequested
        /\ NextAttempt(r).status = "queued" /\ ~NextAttempt(r).results
        /\ ~Recovering(NextAttempt(r))
  BY <1>2 DEF NextAttempt, Record, Status, ActiveStatus, Recovering
<1>4. QED BY <1>1, <1>3 DEF Sound

LEMMA CancelledRecord ==
    ASSUME NEW r \in Record
    PROVE  /\ CancelledByUser(r) \in Record
           /\ CancelledByUser(r).attempt = r.attempt
           /\ r.status # "absent" => CancelledByUser(r).status # "absent"
           /\ CancelledByUser(r).status # "queued"
           /\ Sound(r) => (CancelledByUser(r).status \in {"running", "cancelling"}
                               <=> r.status \in {"running", "cancelling"})
           /\ Live(r) => CancelledByUser(r).cancelRequested
           /\ Active(CancelledByUser(r)) => CancelledByUser(r).cancelEvent
           /\ ~Live(r) => CancelledByUser(r) = r
           /\ Sound(r) => Sound(CancelledByUser(r))
<1>1. CASE ~Live(r)
  BY <1>1 DEF CancelledByUser, Live, Active, ActiveStatus
<1>2. CASE Live(r)
  <2>1. /\ CancelledByUser(r) \in Record
        /\ CancelledByUser(r).attempt = r.attempt
        /\ CancelledByUser(r).results = r.results
        /\ CancelledByUser(r).recovery = "none"
        /\ CancelledByUser(r).cancelRequested /\ CancelledByUser(r).cancelEvent
        /\ CancelledByUser(r).status =
              IF r.status = "queued" \/ Recovering(r) THEN "cancelled" ELSE "cancelling"
    BY <1>2 DEF CancelledByUser, Record, Status, ActiveStatus
  <2>2. QED BY <1>2, <2>1 DEF Live, Active, ActiveStatus, Sound, Recovering
<1>3. QED BY <1>1, <1>2

LEMMA StartedRecord ==
    ASSUME NEW r \in Record
    PROVE  /\ Started(r) \in Record
           /\ Started(r).attempt = r.attempt
           /\ Started(r).status \in {"running", "cancelling"}
           /\ Started(r).cancelRequested = r.cancelRequested
           /\ Started(r).cancelEvent = r.cancelEvent
           /\ Started(r).recovery = r.recovery /\ Started(r).results = r.results
BY DEF Started, Record, Status, ActiveStatus

LEMMA ClosingRecord ==
    ASSUME NEW r \in Record
    PROVE  /\ Closing(r) \in Record
           /\ Closing(r).attempt = r.attempt /\ Closing(r).results = r.results
           /\ Closing(r).cancelRequested = r.cancelRequested
           /\ (Closing(r).status = "absent") <=> (r.status = "absent")
           /\ Closing(r).status # "queued"
           /\ Closing(r).status \in {"running", "cancelling"}
                 <=> r.status \in {"running", "cancelling"}
           /\ Active(Closing(r)) => Closing(r).cancelEvent
           /\ Sound(r) => Sound(Closing(r))
BY DEF Closing, Record, Status, ActiveStatus, Active, Sound, Recovering

LEMMA FixedRecords ==
    /\ Absent \in Record /\ Sound(Absent) /\ Absent.status = "absent"
    /\ NewRecord \in Record /\ Sound(NewRecord) /\ NewRecord.status = "queued"
    /\ NewRecord.attempt = 1 /\ Absent.attempt = 0
    /\ ~NewRecord.cancelRequested /\ ~Absent.cancelRequested
<1>1. Absent \in Record /\ Sound(Absent) /\ Absent.status = "absent"
        /\ Absent.attempt = 0 /\ ~Absent.cancelRequested
  BY DEF Absent, Record, Status, ActiveStatus, Sound, Recovering
<1>2. NewRecord \in Record /\ NewRecord.status = "queued" /\ NewRecord.attempt = 1
        /\ ~NewRecord.cancelRequested /\ ~NewRecord.results /\ ~Recovering(NewRecord)
  BY DEF Absent, NewRecord, Record, Status, ActiveStatus, Recovering
<1>3. QED BY <1>1, <1>2 DEF Sound

-----------------------------------------------------------------------------
LEMMA TypeInitially == Init => TypeOK
<1> SUFFICES ASSUME Init PROVE TypeOK
  OBVIOUS
<1>1. task \in [Tasks -> Record] /\ submissions \in [Requests -> Tasks \cup {NoTask}]
  BY FixedRecords DEF Init
<1>2. disk \in Image
  BY <1>1, ImageTyped DEF Init
<1>3. job \in Items
  BY DEF Init, NoJob, Stop, Items
<1>4. pending \in Seq(Items) /\ snap \in SUBSET Image
  BY DEF Init
<1>5. promise \in [Tasks -> {"none", "run", "started", "cancel", "deleted"}]
  BY DEF Init
<1>6. QED BY <1>1, <1>2, <1>3, <1>4, <1>5 DEF Init, TypeOK

(* Every variable keeps its type. *)
THEOREM TypeCorrect == Spec => []TypeOK
<1>1. TypeOK /\ [Next]_vars => TypeOK'
  <2> SUFFICES ASSUME TypeOK, [Next]_vars PROVE TypeOK'
    OBVIOUS
  <2>0. NoJob \in Items /\ Stop \in Items
    BY DEF NoJob, Stop, Items
  <2>1. ASSUME NEW tasks \in [Tasks -> Record],
               NEW subs \in [Requests -> Tasks \cup {NoTask}], Commit(tasks, subs)
        PROVE  /\ task' \in [Tasks -> Record]
               /\ submissions' \in [Requests -> Tasks \cup {NoTask}]
               /\ disk' \in Image
    BY <2>1, ImageTyped DEF Commit
  <2>2. ASSUME NEW ts, NEW what \in {"run", "started", "cancel", "deleted"},
               Acknowledge(ts, what)
        PROVE  promise' \in [Tasks -> {"none", "run", "started", "cancel", "deleted"}]
    BY <2>2 DEF Acknowledge, TypeOK
  <2>3. ASSUME NEW t \in Tasks, NEW r \in Record, Enqueue(t, r)
        PROVE  TypeOK'
    <3>1. [task EXCEPT ![t] = r] \in [Tasks -> Record]
      BY DEF TypeOK
    <3>2. [task |-> t, attempt |-> r.attempt] \in Items
      BY DEF Record, Items
    <3>3. pending' \in Seq(Items)
      BY <2>3, <3>2 DEF TypeOK, Enqueue
    <3>4. pc' \in {"none", "idle", "taken", "begun", "running", "ended", "saving", "exited"}
            /\ (pc' = "ended" <=> pc = "ended")
      BY <2>3 DEF TypeOK, Enqueue, WorkerStarted
    <3>5. QED
      BY <2>3, <3>1, <3>3, <3>4, <2>1, <2>2 DEF TypeOK, Enqueue
  <2>4. ASSUME NEW q \in Requests, NEW t \in Tasks, Create(q, t)
        PROVE  TypeOK'
    <3>1. [task EXCEPT ![t] = NewRecord] \in [Tasks -> Record]
      BY FixedRecords DEF TypeOK
    <3>2. [submissions EXCEPT ![q] = t] \in [Requests -> Tasks \cup {NoTask}]
      BY DEF TypeOK
    <3>3. CASE RolledBack BY <3>3 DEF RolledBack, vars, memory, TypeOK
    <3>4. CASE ~RolledBack
      <4>1. [task |-> t, attempt |-> 1] \in Items
        BY DEF Items
      <4>2. pending' \in Seq(Items)
        BY <2>4, <3>4, <4>1 DEF TypeOK, Create
      <4>3. QED BY <2>4, <3>4, <3>1, <3>2, <4>2, <2>1, <2>2 DEF TypeOK, Create
    <3>5. QED BY <3>3, <3>4
  <2>5. ASSUME NEW q \in Requests, NEW t \in Tasks, Attach(q, t)
        PROVE  TypeOK'
    <3>1. PICK u \in Duplicates(t) :
             \/ /\ Commit(task, [submissions EXCEPT ![q] = u])
                /\ UNCHANGED <<pending, pc, job, outcome, snap, closed, finalSave,
                               blocked, promise>>
             \/ RolledBack
      BY <2>5 DEF Attach
    <3>2. [submissions EXCEPT ![q] = u] \in [Requests -> Tasks \cup {NoTask}]
      BY DEF TypeOK, Duplicates
    <3>3. CASE RolledBack BY <3>3 DEF RolledBack, vars, memory, TypeOK
    <3>4. CASE ~RolledBack BY <3>1, <3>4, <3>2, <2>1 DEF TypeOK
    <3>5. QED BY <3>3, <3>4
  <2>6. CASE StartWorker BY <2>6 DEF StartWorker, TypeOK
  <2>7. ASSUME NEW t \in Tasks, Cancel(t)
        PROVE  TypeOK'
    <3> DEFINE tasks == [task EXCEPT ![t] = CancelledByUser(task[t])]
    <3>1. tasks \in [Tasks -> Record]
      BY CancelledRecord DEF TypeOK
    <3>2. /\ \/ Commit(tasks, submissions) /\ Acknowledge({t}, "cancel")
             \/ task' = tasks /\ UNCHANGED <<submissions, disk, promise>>
          /\ UNCHANGED <<pending, pc, job, outcome, snap, closed, finalSave, blocked>>
      BY <2>7 DEF Cancel
    <3> HIDE DEF tasks
    <3>3. QED BY <3>1, <3>2, <2>1, <2>2 DEF TypeOK
  <2>8. ASSUME NEW ts, Remove(ts)
        PROVE  TypeOK'
    <3>1. [t \in Tasks |-> IF t \in ts THEN Absent ELSE task[t]] \in [Tasks -> Record]
      BY FixedRecords DEF TypeOK
    <3>2. CASE RolledBack BY <3>2 DEF RolledBack, vars, memory, TypeOK
    <3>3. CASE ~RolledBack
      BY <2>8, <3>3, <3>1, <2>1, <2>2 DEF TypeOK, Remove
    <3>4. QED BY <3>2, <3>3
  <2>9. ASSUME NEW t \in Tasks, Resume(t) \/ Retry(t)
        PROVE  TypeOK'
    <3>1. Requeued(task[t]) \in Record /\ NextAttempt(task[t]) \in Record
      BY RequeuedRecord DEF TypeOK
    <3>2. CASE RolledBack BY <3>2 DEF RolledBack, vars, memory, TypeOK
    <3>3. CASE ~RolledBack
      BY <2>9, <3>3, <3>1, <2>3 DEF Resume, Retry
    <3>4. QED BY <3>2, <3>3
  <2>10. CASE Take
    BY <2>10 DEF Take, TypeOK
  <2>11. CASE Admit
    <3>1. task' \in [Tasks -> Record]
      BY <2>11, StartedRecord DEF Admit, Admissible, Current, TypeOK
    <3>2. QED BY <2>11, <3>1, <2>2 DEF Admit, TypeOK
  <2>12. CASE Skip
    BY <2>12, <2>0 DEF Skip, TypeOK
  <2>13. CASE SaveStarts
    BY <2>13, ImageTyped DEF SaveStarts, TypeOK
  <2>14. CASE SaveEnds
    BY <2>14, <2>0 DEF SaveEnds, Written, TypeOK
  <2>15. CASE RunEnds
    BY <2>15 DEF RunEnds, TypeOK
  <2>16. CASE Conclude
    <3>1. ASSUME NEW r \in Record PROVE Concluded(r) \in Record
      BY <2>16 DEF Conclude, Concluded, CancellationFinished, TypeOK, Record, Status, ActiveStatus
    <3>2. QED BY <2>16, <3>1, <2>0 DEF Conclude, Current, TypeOK
  <2>17. CASE Close
    <3>1. task' \in [Tasks -> Record]
      BY <2>17, ClosingRecord DEF Close, TypeOK
    <3>2. QED BY <2>17, <3>1, <2>0 DEF Close, TypeOK
  <2>18. CASE CloseSaves
    BY <2>18, ImageTyped DEF CloseSaves, TypeOK
  <2>19. CASE Restart
    <3>1. task' \in [Tasks -> Record] /\ submissions' \in [Requests -> Tasks \cup {NoTask}]
      BY <2>19, LoadedRecord DEF Restart, TypeOK, Image
    <3>2. pending' \in Seq(Items) /\ snap' \in SUBSET Image
      BY <2>19 DEF Restart
    <3>3. QED BY <2>19, <3>1, <3>2, <2>0 DEF Restart, TypeOK
  <2>20. CASE UNCHANGED vars BY <2>20 DEF vars, memory, TypeOK
  <2>21. QED
    BY <2>4, <2>5, <2>6, <2>7, <2>8, <2>9, <2>10, <2>11, <2>12, <2>13, <2>14,
       <2>15, <2>16, <2>17, <2>18, <2>19, <2>20
    DEF Next, Handlers, Worker, Delete, ClearFailed
<1>2. QED BY TypeInitially, <1>1, PTL DEF Spec

-----------------------------------------------------------------------------
(* The copies of a task that exist at one time, after the three ways in    *)
(* which a step may touch them.                                            *)
VersionsOK == RecordsSound /\ AcceptedIsDurable /\ CancelRecorded /\ DiskBehindMemory

(* What that says of the records in memory. *)
LEMMA InMemory ==
    ASSUME TypeOK, VersionsOK, NEW t \in Tasks
    PROVE  /\ task[t] \in Record /\ Sound(task[t])
           /\ promise[t] = "cancel" => task[t].cancelRequested
           /\ (task[t].status = "absent") <=> promise[t] \in {"none", "deleted"}
<1>1. task[t] \in Versions(t)
  BY DEF Versions
<1>2. QED BY <1>1 DEF TypeOK, VersionsOK, RecordsSound, CancelRecorded, AcceptedIsDurable

(* A strict save that worked: all copies are the new one. *)
LEMMA AfterCommit ==
    ASSUME TypeOK, Unlocked, snap' = snap,
           NEW tasks \in [Tasks -> Record],
           NEW subs \in [Requests -> Tasks \cup {NoTask}],
           Commit(tasks, subs),
           \A t \in Tasks :
              /\ Sound(tasks[t])
              /\ promise'[t] = "cancel" => tasks[t].cancelRequested
              /\ (tasks[t].status = "absent") <=> promise'[t] \in {"none", "deleted"},
           \A q \in Requests : subs[q] # NoTask => promise'[subs[q]] # "none"
    PROVE  VersionsOK'
<1>1. /\ task' = tasks /\ submissions' = subs /\ snap' = {}
      /\ disk'.submissions = subs
      /\ \A t \in Tasks : disk'.task[t] = Saved(tasks[t])
  BY ImageTyped DEF Commit, Unlocked
<1>2. ASSUME NEW t \in Tasks, NEW r \in Versions(t)'
      PROVE  /\ r.attempt = tasks[t].attempt /\ r.status = tasks[t].status
             /\ r.cancelRequested = tasks[t].cancelRequested
             /\ r.results = tasks[t].results /\ r.recovery = tasks[t].recovery
  BY <1>1, <1>2, SavedRecord DEF Versions
<1>3. RecordsSound' /\ CancelRecorded'
  BY <1>2 DEF RecordsSound, CancelRecorded, Sound, Recovering
<1>4. AcceptedIsDurable' /\ DiskBehindMemory'
  BY <1>1, <1>2 DEF AcceptedIsDurable, DiskBehindMemory
<1>5. QED BY <1>3, <1>4 DEF VersionsOK

(* A change of memory that is saved later, if at all. *)
LEMMA AfterMemoryChange ==
    ASSUME TypeOK, VersionsOK, disk' = disk, snap' = snap, submissions' = submissions,
           \A t \in Tasks :
              /\ Sound(task'[t]) /\ task'[t].attempt = task[t].attempt
              /\ (task'[t].status = "absent") <=> (task[t].status = "absent")
              /\ task[t].cancelRequested => task'[t].cancelRequested
              /\ task[t].results => task'[t] = task[t]
              /\ \/ promise'[t] = promise[t]
                 \/ promise[t] \notin {"none", "deleted"} /\ promise'[t] = "started"
    PROVE  VersionsOK'
<1>1. ASSUME NEW t \in Tasks, NEW r \in Versions(t)', r # task'[t]
      PROVE  r \in Versions(t)
  BY <1>1 DEF Versions
<1>2. \A t \in Tasks : task[t] \in Versions(t)
  BY DEF Versions
<1>3. RecordsSound'
  BY <1>1 DEF VersionsOK, RecordsSound
<1>4. CancelRecorded'
  BY <1>1, <1>2 DEF VersionsOK, CancelRecorded
<1>5. AcceptedIsDurable'
  <2>1. ASSUME NEW t \in Tasks, NEW r \in Versions(t)'
        PROVE  /\ r.attempt = task'[t].attempt
               /\ (r.status = "absent") <=> promise'[t] \in {"none", "deleted"}
    <3>1. CASE r = task'[t]
      BY <3>1, <1>2 DEF VersionsOK, AcceptedIsDurable
    <3>2. CASE r # task'[t]
      BY <3>2, <2>1, <1>1 DEF VersionsOK, AcceptedIsDurable
    <3>3. QED BY <3>1, <3>2
  <2>2. \A q \in Requests : submissions[q] # NoTask => promise'[submissions[q]] # "none"
    BY DEF VersionsOK, AcceptedIsDurable, TypeOK
  <2>3. QED BY <2>1, <2>2 DEF VersionsOK, AcceptedIsDurable
<1>6. DiskBehindMemory'
  BY <1>1 DEF VersionsOK, DiskBehindMemory
<1>7. QED BY <1>3, <1>4, <1>5, <1>6 DEF VersionsOK

(* Saves and restarts only move copies around. *)
LEMMA AfterCopy ==
    ASSUME TypeOK, VersionsOK, UNCHANGED <<submissions, promise>>,
           \A t \in Tasks : \A r \in Versions(t)' :
              /\ Sound(r)
              /\ r.results => task'[t].results /\ task'[t].status = r.status
              /\ \E v \in Versions(t) :
                    /\ r.attempt = v.attempt
                    /\ r.cancelRequested = v.cancelRequested
                    /\ (r.status = "absent") <=> (v.status = "absent"),
           \A image \in (snap \cup {disk})' : image.submissions = submissions
    PROVE  VersionsOK'
<1>1. RecordsSound' /\ CancelRecorded' /\ DiskBehindMemory'
  BY DEF VersionsOK, RecordsSound, CancelRecorded, DiskBehindMemory
<1>2. AcceptedIsDurable'
  <2>1. \A t \in Tasks : task'[t] \in Versions(t)'
    BY DEF Versions
  <2>2. QED BY <2>1 DEF VersionsOK, AcceptedIsDurable
<1>3. QED BY <1>1, <1>2 DEF VersionsOK

-----------------------------------------------------------------------------
(* The inductive invariant. *)
Inv == TypeOK /\ VersionsOK /\ CancelSignalled /\ JobIsCurrent /\ QueuedIsPending

LEMMA VersionsKept ==
    ASSUME Inv, TypeOK', [Next]_vars
    PROVE  VersionsOK'
<1> USE DEF Inv
<1>1. \A t \in Tasks :
         /\ task[t] \in Record /\ Sound(task[t])
         /\ promise[t] = "cancel" => task[t].cancelRequested
         /\ (task[t].status = "absent") <=> promise[t] \in {"none", "deleted"}
  BY InMemory
<1>2. \A q \in Requests : submissions[q] # NoTask =>
         submissions[q] \in Tasks /\ promise[submissions[q]] # "none"
  BY DEF TypeOK, VersionsOK, AcceptedIsDurable
<1>3. CASE UNCHANGED vars
  BY <1>3 DEF vars, memory, VersionsOK, RecordsSound, CancelRecorded,
              AcceptedIsDurable, DiskBehindMemory, Versions
<1>4. ASSUME NEW t \in Tasks, NEW r \in Record, Sound(r), r.status = "queued",
             Unlocked, Enqueue(t, r)
      PROVE  VersionsOK'
  <2> DEFINE tasks == [task EXCEPT ![t] = r]
  <2>1. tasks \in [Tasks -> Record] /\ submissions \in [Requests -> Tasks \cup {NoTask}]
    BY DEF TypeOK
  <2>2. snap' = snap /\ Commit(tasks, submissions) /\ Acknowledge({t}, "run")
    BY <1>4 DEF Enqueue
  <2>3. \A u \in Tasks :
          /\ Sound(tasks[u])
          /\ promise'[u] = "cancel" => tasks[u].cancelRequested
          /\ (tasks[u].status = "absent") <=> promise'[u] \in {"none", "deleted"}
    BY <1>1, <1>4, <2>2 DEF Acknowledge, TypeOK
  <2>4. \A q \in Requests : submissions[q] # NoTask => promise'[submissions[q]] # "none"
    BY <1>2, <2>2 DEF Acknowledge
  <2> HIDE DEF tasks
  <2>5. QED BY <1>4, <2>1, <2>2, <2>3, <2>4, AfterCommit
<1>5. ASSUME NEW q \in Requests, NEW t \in Tasks, Create(q, t)
      PROVE  VersionsOK'
  <2>1. CASE RolledBack BY <2>1, <1>3 DEF RolledBack
  <2>2. CASE ~RolledBack
    <3> DEFINE tasks == [task EXCEPT ![t] = NewRecord]
               subs == [submissions EXCEPT ![q] = t]
    <3>1. tasks \in [Tasks -> Record] /\ subs \in [Requests -> Tasks \cup {NoTask}]
      BY FixedRecords DEF TypeOK
    <3>2. Unlocked /\ snap' = snap /\ Commit(tasks, subs) /\ Acknowledge({t}, "run")
      BY <1>5, <2>2 DEF Create
    <3>3. \A u \in Tasks :
            /\ Sound(tasks[u])
            /\ promise'[u] = "cancel" => tasks[u].cancelRequested
            /\ (tasks[u].status = "absent") <=> promise'[u] \in {"none", "deleted"}
      BY <1>1, <3>2, FixedRecords DEF Acknowledge, TypeOK
    <3>4. \A p \in Requests : subs[p] # NoTask => promise'[subs[p]] # "none"
      BY <1>2, <3>2 DEF Acknowledge, TypeOK
    <3> HIDE DEF tasks, subs
    <3>5. QED BY <3>1, <3>2, <3>3, <3>4, AfterCommit
  <2>3. QED BY <2>1, <2>2
<1>6. ASSUME NEW q \in Requests, NEW t \in Tasks, Attach(q, t)
      PROVE  VersionsOK'
  <2>1. CASE RolledBack BY <2>1, <1>3 DEF RolledBack
  <2>2. CASE ~RolledBack
    <3>1. PICK u \in Duplicates(t) :
             /\ Commit(task, [submissions EXCEPT ![q] = u])
             /\ UNCHANGED <<snap, promise>>
      BY <1>6, <2>2 DEF Attach
    <3> DEFINE subs == [submissions EXCEPT ![q] = u]
    <3>2. u \in Tasks /\ Live(task[u])
      BY DEF Duplicates
    <3>3. promise[u] # "none"
      BY <1>1, <3>2 DEF Live, Active, ActiveStatus, Sound
    <3>4. subs \in [Requests -> Tasks \cup {NoTask}] /\ task \in [Tasks -> Record]
      BY <3>2 DEF TypeOK
    <3>5. \A p \in Requests : subs[p] # NoTask => promise'[subs[p]] # "none"
      BY <1>2, <3>1, <3>3 DEF TypeOK
    <3>6. Unlocked /\ snap' = snap /\ promise' = promise /\ Commit(task, subs)
      BY <1>6, <3>1 DEF Attach
    <3> HIDE DEF subs
    <3>7. QED BY <1>1, <3>4, <3>5, <3>6, AfterCommit
  <2>3. QED BY <2>1, <2>2
<1>7. ASSUME NEW t \in Tasks, Cancel(t)
      PROVE  VersionsOK'
  <2> DEFINE tasks == [task EXCEPT ![t] = CancelledByUser(task[t])]
  <2>1. tasks \in [Tasks -> Record] /\ submissions \in [Requests -> Tasks \cup {NoTask}]
    BY CancelledRecord DEF TypeOK
  <2>2. \A u \in Tasks :
          /\ Sound(tasks[u]) /\ tasks[u].attempt = task[u].attempt
          /\ (tasks[u].status = "absent") <=> (task[u].status = "absent")
          /\ task[u].cancelRequested => tasks[u].cancelRequested
          /\ task[u].results => tasks[u] = task[u]
    <3>1. ASSUME NEW r \in Record, Sound(r)
          PROVE  /\ r.status = "absent" => CancelledByUser(r) = r
                 /\ r.cancelRequested => CancelledByUser(r).cancelRequested
                 /\ r.results => CancelledByUser(r) = r
      BY <3>1, CancelledRecord DEF Sound, Live, Active, ActiveStatus
    <3>2. QED BY <1>1, <3>1, CancelledRecord DEF TypeOK
  <2>3. Unlocked /\ snap' = snap /\ Present(t)
          /\ (Live(task[t]) \/ task[t].cancelRequested)
          /\ \/ Commit(tasks, submissions) /\ Acknowledge({t}, "cancel")
             \/ task' = tasks /\ UNCHANGED <<submissions, disk, promise>>
    BY <1>7 DEF Cancel
  <2>4. tasks[t].cancelRequested
    BY <1>1, <2>2, <2>3, CancelledRecord DEF TypeOK
  <2> HIDE DEF tasks
  <2>5. CASE Commit(tasks, submissions) /\ Acknowledge({t}, "cancel")
    <3>1. \A u \in Tasks :
            /\ Sound(tasks[u])
            /\ promise'[u] = "cancel" => tasks[u].cancelRequested
            /\ (tasks[u].status = "absent") <=> promise'[u] \in {"none", "deleted"}
      BY <1>1, <2>2, <2>3, <2>4, <2>5 DEF Acknowledge, Present
    <3>2. \A q \in Requests : submissions[q] # NoTask => promise'[submissions[q]] # "none"
      BY <1>2, <2>5 DEF Acknowledge
    <3>3. QED BY <2>1, <2>3, <2>5, <3>1, <3>2, AfterCommit
  <2>6. CASE task' = tasks /\ UNCHANGED <<submissions, disk, promise>>
    BY <2>2, <2>3, <2>6, AfterMemoryChange
  <2>7. QED BY <2>3, <2>5, <2>6
<1>8. ASSUME NEW ts \in SUBSET Tasks, Remove(ts), \A t \in ts : Present(t)
      PROVE  VersionsOK'
  <2>1. CASE RolledBack BY <2>1, <1>3 DEF RolledBack
  <2>2. CASE ~RolledBack
    <3> DEFINE tasks == [t \in Tasks |-> IF t \in ts THEN Absent ELSE task[t]]
    <3>1. tasks \in [Tasks -> Record] /\ submissions \in [Requests -> Tasks \cup {NoTask}]
      BY FixedRecords DEF TypeOK
    <3>2. Unlocked /\ snap' = snap /\ Commit(tasks, submissions) /\ Acknowledge(ts, "deleted")
      BY <1>8, <2>2 DEF Remove
    <3>3. \A u \in Tasks :
            /\ Sound(tasks[u])
            /\ promise'[u] = "cancel" => tasks[u].cancelRequested
            /\ (tasks[u].status = "absent") <=> promise'[u] \in {"none", "deleted"}
      BY <1>1, <3>2, FixedRecords DEF Acknowledge
    <3>4. \A q \in Requests : submissions[q] # NoTask => promise'[submissions[q]] # "none"
      BY <1>2, <3>2 DEF Acknowledge
    <3> HIDE DEF tasks
    <3>5. QED BY <3>1, <3>2, <3>3, <3>4, AfterCommit
  <2>3. QED BY <2>1, <2>2
<1>9. ASSUME NEW t \in Tasks, Resume(t) \/ Retry(t)
      PROVE  VersionsOK'
  <2>1. CASE RolledBack BY <2>1, <1>3 DEF RolledBack
  <2>2. CASE ~RolledBack
    <3>1. CASE Resume(t)
      <4>1. ~task[t].results /\ Unlocked /\ Enqueue(t, Requeued(task[t]))
        BY <1>1, <2>2, <3>1 DEF Resume, Sound
      <4>2. QED BY <1>1, <1>4, <4>1, RequeuedRecord
    <3>2. CASE Retry(t)
      <4>1. Unlocked /\ Enqueue(t, NextAttempt(task[t]))
        BY <2>2, <3>2 DEF Retry
      <4>2. QED BY <1>1, <1>4, <4>1, RequeuedRecord
    <3>3. QED BY <1>9, <3>1, <3>2
  <2>3. QED BY <2>1, <2>2
<1>10. CASE StartWorker \/ Take \/ Skip \/ RunEnds
  <2>1. UNCHANGED <<task, submissions, snap, disk, promise>>
    BY <1>10 DEF StartWorker, Take, Skip, RunEnds
  <2>2. QED BY <1>1, <2>1, AfterMemoryChange
<1>11. CASE Admit
  <2>1. /\ job.task \in Tasks /\ task[job.task].status = "queued"
        /\ task' = [task EXCEPT ![job.task] = Started(task[job.task])]
        /\ Acknowledge({job.task}, "started")
        /\ UNCHANGED <<submissions, snap, disk>>
    BY <1>11 DEF Admit, Admissible, Current
  <2>2. Sound(Started(task[job.task]))
    BY <1>1, <2>1, StartedRecord DEF Sound, Recovering
  <2>3. \A t \in Tasks :
              /\ Sound(task'[t]) /\ task'[t].attempt = task[t].attempt
              /\ (task'[t].status = "absent") <=> (task[t].status = "absent")
              /\ task[t].cancelRequested => task'[t].cancelRequested
              /\ task[t].results => task'[t] = task[t]
              /\ \/ promise'[t] = promise[t]
                 \/ promise[t] \notin {"none", "deleted"} /\ promise'[t] = "started"
    <3> TAKE t \in Tasks
    <3>1. CASE t = job.task
      BY <1>1, <2>1, <2>2, <3>1, StartedRecord DEF TypeOK, Acknowledge, Sound
    <3>2. CASE t # job.task
      BY <1>1, <2>1, <3>2 DEF TypeOK, Acknowledge
    <3>3. QED BY <3>1, <3>2
  <2>4. QED BY <2>1, <2>3, AfterMemoryChange
<1>12. CASE Conclude
  <2>1. UNCHANGED <<submissions, snap, disk, promise>>
    BY <1>12 DEF Conclude
  <2>2. CASE ~Current(job)
    <3>1. task' = task
      BY <1>12, <2>2 DEF Conclude
    <3>2. QED BY <1>1, <2>1, <3>1, AfterMemoryChange
  <2>3. CASE Current(job)
    <3>1. /\ job.task \in Tasks /\ Running(task[job.task])
          /\ task' = [task EXCEPT ![job.task] = Concluded(task[job.task])]
          /\ outcome \in {"completed", "incomplete", "cancelled", "error", "cleanup"}
      BY <1>12, <2>3 DEF Conclude, Current, JobIsCurrent, Busy, TypeOK
    <3>2. task[job.task].cancelRequested => task[job.task].cancelEvent
      BY <3>1 DEF CancelSignalled, Running, Active, ActiveStatus
    <3>3. \A t \in Tasks :
              /\ Sound(task'[t]) /\ task'[t].attempt = task[t].attempt
              /\ (task'[t].status = "absent") <=> (task[t].status = "absent")
              /\ task[t].cancelRequested => task'[t].cancelRequested
              /\ task[t].results => task'[t] = task[t]
      <4> TAKE t \in Tasks
      <4>1. CASE t = job.task
        <5>1. task'[t] = Concluded(task[t])
          BY <3>1, <4>1 DEF TypeOK
        <5>2. task[t] \in Record /\ Sound(task[t])
                /\ task[t].status \in {"running", "cancelling"}
          BY <1>1, <3>1, <4>1 DEF Running
        <5>3. QED BY <3>1, <3>2, <4>1, <5>1, <5>2, ConcludedRecord DEF Sound
      <4>2. CASE t # job.task
        BY <1>1, <3>1, <4>2 DEF TypeOK
      <4>3. QED BY <4>1, <4>2
    <3>4. QED BY <2>1, <3>3, AfterMemoryChange
  <2>4. QED BY <2>2, <2>3
<1>13. CASE Close
  <2>1. /\ \A t \in Tasks : task'[t] = Closing(task[t])
        /\ UNCHANGED <<submissions, snap, disk, promise>>
    BY <1>13 DEF Close
  <2>2. \A r \in Record : Sound(r) /\ r.results => Closing(r) = r
    BY DEF Sound, Closing, Active, ActiveStatus
  <2>3. QED BY <1>1, <2>1, <2>2, ClosingRecord, AfterMemoryChange
<1>14. ASSUME NEW tasks \in [Tasks -> Record], tasks = task,
              NEW image, image = ImageOf(tasks, submissions), NEW t \in Tasks
       PROVE  /\ image.submissions = submissions
              /\ Sound(image.task[t])
              /\ image.task[t].attempt = task[t].attempt
              /\ image.task[t].status = task[t].status
              /\ image.task[t].results = task[t].results
              /\ image.task[t].cancelRequested = task[t].cancelRequested
  <2>1. image.submissions = submissions /\ image.task[t] = Saved(task[t])
    BY <1>14, ImageTyped DEF TypeOK
  <2>2. QED BY <1>1, <2>1, SavedRecord DEF Sound, Recovering
<1>15. \A t \in Tasks : \A r \in Versions(t) :
          /\ Sound(r)
          /\ r.results => task[t].results /\ task[t].status = r.status
  BY DEF VersionsOK, RecordsSound, DiskBehindMemory
<1>16. \A image \in snap \cup {disk} : image.submissions = submissions
  BY DEF VersionsOK, AcceptedIsDurable
<1>17. ASSUME task' = task, UNCHANGED <<submissions, promise>>,
              (snap \cup {disk})' \subseteq snap \cup {disk, ImageOf(task, submissions)}
       PROVE  VersionsOK'
  <2>1. ASSUME NEW t \in Tasks, NEW r \in Versions(t)'
        PROVE  r \in Versions(t) \/ r = ImageOf(task, submissions).task[t]
    BY <1>17, <2>1 DEF Versions
  <2>2. \A t \in Tasks : task[t] \in Versions(t)
    BY DEF Versions
  <2>3. \A t \in Tasks : \A r \in Versions(t)' :
          /\ Sound(r)
          /\ r.results => task'[t].results /\ task'[t].status = r.status
          /\ \E v \in Versions(t) :
                /\ r.attempt = v.attempt
                /\ r.cancelRequested = v.cancelRequested
                /\ (r.status = "absent") <=> (v.status = "absent")
    <3> SUFFICES ASSUME NEW t \in Tasks, NEW r \in Versions(t)'
                 PROVE  /\ Sound(r)
                        /\ r.results => task[t].results /\ task[t].status = r.status
                        /\ \E v \in Versions(t) :
                              /\ r.attempt = v.attempt
                              /\ r.cancelRequested = v.cancelRequested
                              /\ (r.status = "absent") <=> (v.status = "absent")
      BY <1>17
    <3>1. CASE r \in Versions(t) BY <3>1, <1>15
    <3>2. CASE r = ImageOf(task, submissions).task[t]
      BY <3>2, <2>2, <1>14 DEF TypeOK
    <3>3. QED BY <3>1, <3>2, <2>1
  <2>4. \A image \in (snap \cup {disk})' : image.submissions = submissions
    BY <1>16, <1>17, ImageTyped DEF TypeOK
  <2>5. QED BY <1>17, <2>3, <2>4, AfterCopy
<1>18. CASE SaveStarts \/ SaveEnds \/ CloseSaves
  <2>1. task' = task /\ UNCHANGED <<submissions, promise>>
    BY <1>18 DEF SaveStarts, SaveEnds, CloseSaves
  <2>2. (snap \cup {disk})' \subseteq snap \cup {disk, ImageOf(task, submissions)}
    BY <1>18 DEF SaveStarts, SaveEnds, Written, CloseSaves
  <2>3. QED BY <1>17, <2>1, <2>2
<1>19. CASE Restart
  <2>1. /\ UNCHANGED <<submissions, promise>> /\ snap' = {} /\ disk' = disk
        /\ \A t \in Tasks : task'[t] = Loaded(disk.task[t])
    BY <1>16, <1>19 DEF Restart
  <2>2. \A t \in Tasks : disk.task[t] \in Versions(t) /\ disk.task[t] \in Record
    BY DEF Versions, TypeOK, Image
  <2>3. ASSUME NEW r \in Record, Sound(r), r.results PROVE Loaded(r) = r
    BY <2>3 DEF Loaded, Sound, Active, ActiveStatus
  <2>4. ASSUME NEW t \in Tasks, NEW r \in Versions(t)'
        PROVE  r = Loaded(disk.task[t]) \/ r = disk.task[t]
    BY <2>1, <2>4 DEF Versions
  <2>5. \A t \in Tasks : \A r \in Versions(t)' :
          /\ Sound(r)
          /\ r.results => task'[t].results /\ task'[t].status = r.status
          /\ r.attempt = disk.task[t].attempt
          /\ r.cancelRequested = disk.task[t].cancelRequested
          /\ (r.status = "absent") <=> (disk.task[t].status = "absent")
    BY <1>15, <2>1, <2>2, <2>3, <2>4, LoadedRecord
  <2>6. \A image \in (snap \cup {disk})' : image.submissions = submissions
    BY <1>16, <2>1
  <2>7. QED BY <2>1, <2>2, <2>5, <2>6, AfterCopy
<1>20. ASSUME NEW t \in Tasks, Delete(t) PROVE VersionsOK'
  BY <1>8, <1>20 DEF Delete
<1>21. CASE ClearFailed
  <2>1. Remove({t \in Tasks : task[t].status = "failed"})
    BY <1>21 DEF ClearFailed
  <2>2. QED BY <1>8, <2>1 DEF Present
<1>22. QED
  BY <1>3, <1>5, <1>6, <1>7, <1>9, <1>10, <1>11, <1>12, <1>13, <1>18, <1>19,
     <1>20, <1>21
  DEF Next, Handlers, Worker

-----------------------------------------------------------------------------
(* What each step does to the parts of the state the other conjuncts read. *)
LEMMA EnqueueStep ==
    ASSUME Inv, NEW t \in Tasks, NEW r \in Record, Enqueue(t, r)
    PROVE  /\ task' = [task EXCEPT ![t] = r]
           /\ pending' = Append(pending, [task |-> t, attempt |-> r.attempt])
           /\ Busy' <=> Busy
           /\ pc = "taken" => pc' = "taken"
           /\ UNCHANGED <<job, closed, blocked>>
BY DEF Enqueue, Commit, WorkerStarted, Busy

LEMMA SignalledKept ==
    ASSUME Inv, TypeOK', [Next]_vars
    PROVE  CancelSignalled'
<1> USE DEF Inv
<1>1. \A t \in Tasks : task[t] \in Record /\ Sound(task[t])
  BY InMemory
<1>2. ASSUME NEW t \in Tasks, task'[t] = task[t]
      PROVE  task'[t].cancelRequested /\ Active(task'[t]) => task'[t].cancelEvent
  BY <1>2 DEF CancelSignalled
<1>3. CASE task' = task
  BY <1>2, <1>3 DEF CancelSignalled
<1>4. ASSUME NEW t \in Tasks, NEW r \in Record, task' = [task EXCEPT ![t] = r],
             r.cancelRequested /\ Active(r) => r.cancelEvent
      PROVE  CancelSignalled'
  <2>1. \A u \in Tasks : task'[u] = IF u = t THEN r ELSE task[u]
    BY <1>4 DEF TypeOK
  <2>2. QED BY <1>2, <1>4, <2>1 DEF CancelSignalled
<1>5. ASSUME NEW q \in Requests, NEW t \in Tasks, Create(q, t)
      PROVE  CancelSignalled'
  <2>1. task' = task \/ task' = [task EXCEPT ![t] = NewRecord]
    BY <1>5 DEF Create, Commit, RolledBack, vars, memory
  <2>2. QED BY <1>3, <1>4, <2>1, FixedRecords
<1>6. ASSUME NEW q \in Requests, NEW t \in Tasks, Attach(q, t)
      PROVE  CancelSignalled'
  <2>1. task' = task
    BY <1>6 DEF Attach, Commit, RolledBack, vars, memory
  <2>2. QED BY <1>3, <2>1
<1>7. ASSUME NEW t \in Tasks, Cancel(t)
      PROVE  CancelSignalled'
  <2>1. task' = [task EXCEPT ![t] = CancelledByUser(task[t])]
    BY <1>7 DEF Cancel, Commit
  <2>2. QED BY <1>1, <1>4, <2>1, CancelledRecord
<1>8. ASSUME NEW ts, Remove(ts)
      PROVE  CancelSignalled'
  <2>1. task' = task \/ \A u \in Tasks : task'[u] = IF u \in ts THEN Absent ELSE task[u]
    BY <1>8 DEF Remove, Commit, RolledBack, vars, memory
  <2>2. QED BY <1>2, <1>3, <2>1, FixedRecords DEF CancelSignalled
<1>9. ASSUME NEW t \in Tasks, Resume(t) \/ Retry(t)
      PROVE  CancelSignalled'
  <2>1. \/ task' = task
        \/ task' = [task EXCEPT ![t] = Requeued(task[t])]
        \/ task' = [task EXCEPT ![t] = NextAttempt(task[t])]
    BY <1>9 DEF Resume, Retry, Enqueue, Commit, RolledBack, vars, memory
  <2>2. QED BY <1>1, <1>3, <1>4, <2>1, RequeuedRecord
<1>10. CASE Admit
  <2>1. /\ job.task \in Tasks /\ task[job.task].status = "queued"
        /\ task' = [task EXCEPT ![job.task] = Started(task[job.task])]
    BY <1>10 DEF Admit, Admissible, Current
  <2>2. task[job.task].cancelRequested => task[job.task].cancelEvent
    BY <2>1 DEF CancelSignalled, Active, ActiveStatus
  <2>3. QED BY <1>1, <1>4, <2>1, <2>2, StartedRecord
<1>11. CASE Conclude
  <2>1. CASE ~Current(job) BY <1>3, <1>11, <2>1 DEF Conclude
  <2>2. CASE Current(job)
    <3>1. job.task \in Tasks /\ Running(task[job.task])
            /\ task' = [task EXCEPT ![job.task] = Concluded(task[job.task])]
            /\ outcome \in {"completed", "incomplete", "cancelled", "error", "cleanup"}
      BY <1>11, <2>2 DEF Conclude, Current, JobIsCurrent, Busy, TypeOK
    <3>2. task[job.task].cancelRequested => task[job.task].cancelEvent
      BY <3>1 DEF CancelSignalled, Running, Active, ActiveStatus
    <3>3. Concluded(task[job.task]) \in Record /\ ~Active(Concluded(task[job.task]))
      BY <1>1, <3>1, <3>2, ConcludedRecord DEF Running, Active, ActiveStatus
    <3>4. QED BY <1>4, <3>1, <3>3
  <2>3. QED BY <2>1, <2>2
<1>12. CASE Close
  BY <1>1, <1>12, ClosingRecord DEF Close, CancelSignalled
<1>13. CASE Restart
  BY <1>13, LoadedRecord DEF Restart, CancelSignalled, TypeOK, Image
<1>14. CASE StartWorker \/ Take \/ Skip \/ SaveStarts \/ SaveEnds \/ RunEnds
              \/ CloseSaves \/ UNCHANGED vars
  BY <1>3, <1>14 DEF StartWorker, Take, Skip, SaveStarts, SaveEnds, RunEnds,
                     CloseSaves, vars, memory
<1>15. QED
  BY <1>5, <1>6, <1>7, <1>8, <1>9, <1>10, <1>11, <1>12, <1>13, <1>14
  DEF Next, Handlers, Worker, Delete, ClearFailed

LEMMA JobKept ==
    ASSUME Inv, TypeOK', [Next]_vars
    PROVE  JobIsCurrent'
<1> USE DEF Inv
<1>1. \A t \in Tasks : task[t] \in Record /\ Sound(task[t])
  BY InMemory
<1>2. ASSUME Busy' <=> Busy, Busy => job' = job,
             \A t \in Tasks : /\ Running(task'[t]) <=> Running(task[t])
                              /\ Running(task[t]) => task'[t].attempt = task[t].attempt
      PROVE  JobIsCurrent'
  BY <1>2 DEF JobIsCurrent
<1>3. ASSUME NEW t \in Tasks, NEW r \in Record, task' = [task EXCEPT ![t] = r],
             ~Running(task[t]), ~Running(r), Busy' <=> Busy, job' = job
      PROVE  JobIsCurrent'
  <2>1. \A u \in Tasks : task'[u] = IF u = t THEN r ELSE task[u]
    BY <1>3 DEF TypeOK
  <2>2. QED BY <1>2, <1>3, <2>1
<1>4. CASE UNCHANGED <<task, pc, job>>
  BY <1>2, <1>4 DEF Busy
<1>5. ASSUME NEW q \in Requests, NEW t \in Tasks, Create(q, t)
      PROVE  JobIsCurrent'
  <2>1. CASE RolledBack BY <1>4, <2>1 DEF RolledBack, vars, memory
  <2>2. CASE ~RolledBack
    <3>1. task' = [task EXCEPT ![t] = NewRecord] /\ UNCHANGED <<pc, job>>
      BY <1>5, <2>2 DEF Create, Commit
    <3>2. task[t].status = "absent"
      BY <1>5, InMemory DEF Create
    <3>3. QED BY <1>3, <3>1, <3>2, FixedRecords DEF Busy, Running
  <2>3. QED BY <2>1, <2>2
<1>6. ASSUME NEW q \in Requests, NEW t \in Tasks, Attach(q, t)
      PROVE  JobIsCurrent'
  <2>1. UNCHANGED <<task, pc, job>>
    BY <1>6 DEF Attach, Commit, RolledBack, vars, memory
  <2>2. QED BY <1>4, <2>1
<1>7. ASSUME NEW t \in Tasks, Cancel(t)
      PROVE  JobIsCurrent'
  <2>1. task' = [task EXCEPT ![t] = CancelledByUser(task[t])] /\ UNCHANGED <<pc, job>>
    BY <1>7 DEF Cancel, Commit
  <2>2. \A u \in Tasks : task'[u] = IF u = t THEN CancelledByUser(task[u]) ELSE task[u]
    BY <2>1 DEF TypeOK
  <2>3. QED BY <1>1, <1>2, <2>1, <2>2, CancelledRecord DEF Busy, Running
<1>8. ASSUME NEW ts, Remove(ts), \A t \in ts : t \in Tasks /\ ~Running(task[t])
      PROVE  JobIsCurrent'
  <2>1. CASE RolledBack BY <1>4, <2>1 DEF RolledBack, vars, memory
  <2>2. CASE ~RolledBack
    <3>1. \A u \in Tasks : task'[u] = IF u \in ts THEN Absent ELSE task[u]
      BY <1>8, <2>2 DEF Remove, Commit
    <3>2. UNCHANGED <<pc, job>>
      BY <1>8, <2>2 DEF Remove
    <3>3. QED BY <1>2, <1>8, <3>1, <3>2, FixedRecords DEF Busy, Running
  <2>3. QED BY <2>1, <2>2
<1>9. ASSUME NEW t \in Tasks, Resume(t) \/ Retry(t)
      PROVE  JobIsCurrent'
  <2>1. CASE RolledBack BY <1>4, <2>1 DEF RolledBack, vars, memory
  <2>2. CASE ~RolledBack
    <3>1. PICK r \in Record : Enqueue(t, r) /\ r.status = "queued"
      BY <1>1, <1>9, <2>2, RequeuedRecord DEF Resume, Retry
    <3>2. ~Running(task[t])
      BY <1>1, <1>9 DEF Resume, Retry, Sound, Running
    <3>3. QED BY <1>3, <3>1, <3>2, EnqueueStep DEF Running
  <2>3. QED BY <2>1, <2>2
<1>10. CASE Admit
  <2>1. /\ job.task \in Tasks /\ task[job.task].attempt = job.attempt
        /\ task' = [task EXCEPT ![job.task] = Started(task[job.task])]
        /\ job' = job /\ pc = "taken" /\ pc' = "begun"
    BY <1>10 DEF Admit, Admissible, Current
  <2>2. \A u \in Tasks : task'[u] = IF u = job.task THEN Started(task[u]) ELSE task[u]
    BY <2>1 DEF TypeOK
  <2>3. Busy' /\ ~Busy
    BY <2>1 DEF Busy
  <2>4. \A u \in Tasks : Running(task'[u]) <=> u = job.task
    BY <1>1, <2>1, <2>2, <2>3, StartedRecord DEF Running, JobIsCurrent
  <2>5. QED BY <1>1, <2>1, <2>2, <2>3, <2>4, StartedRecord DEF JobIsCurrent
<1>11. CASE Conclude
  <2>1. pc = "ended" /\ Busy /\ ~Busy'
    BY <1>11 DEF Conclude, Busy
  <2>2. Current(job) /\ Running(task[job.task])
    BY <1>1, <2>1 DEF JobIsCurrent, Current, Running, Present
  <2>3. task' = [task EXCEPT ![job.task] = Concluded(task[job.task])]
    BY <1>11, <2>2 DEF Conclude
  <2>4. task[job.task].cancelRequested => task[job.task].cancelEvent
    BY <2>1, <2>2 DEF CancelSignalled, Running, Active, ActiveStatus, JobIsCurrent
  <2>5. ~Running(Concluded(task[job.task])) /\ job.task \in Tasks
    BY <1>1, <2>1, <2>2, <2>4, ConcludedRecord DEF TypeOK, Running, JobIsCurrent
  <2>6. \A u \in Tasks : ~Running(task'[u])
    BY <2>1, <2>3, <2>5 DEF JobIsCurrent, TypeOK
  <2>7. QED BY <2>1, <2>6 DEF JobIsCurrent
<1>12. CASE Close
  <2>1. \A u \in Tasks : task'[u] = Closing(task[u])
    BY <1>12 DEF Close
  <2>2. UNCHANGED <<pc, job>>
    BY <1>12 DEF Close
  <2>3. QED BY <1>1, <1>2, <2>1, <2>2, ClosingRecord DEF Running, Busy
<1>13. CASE Restart
  <2>1. \A u \in Tasks : ~Running(task'[u])
    BY <1>13, LoadedRecord DEF Restart, TypeOK, Image, Active, ActiveStatus, Running
  <2>2. ~Busy'
    BY <1>13 DEF Restart, Busy
  <2>3. QED BY <2>1, <2>2 DEF JobIsCurrent
<1>14. CASE StartWorker \/ Take \/ Skip \/ SaveStarts \/ SaveEnds \/ RunEnds \/ CloseSaves
  <2>1. task' = task
    BY <1>14 DEF StartWorker, Take, Skip, SaveStarts, SaveEnds, RunEnds, CloseSaves
  <2>2. Busy' <=> Busy
    BY <1>14 DEF StartWorker, Take, Skip, SaveStarts, SaveEnds, RunEnds, CloseSaves, Busy
  <2>3. Busy => job' = job
    BY <1>14 DEF StartWorker, Take, Skip, SaveStarts, SaveEnds, RunEnds, CloseSaves, Busy
  <2>4. QED BY <1>2, <2>1, <2>2, <2>3
<1>15. ASSUME NEW t \in Tasks, Delete(t) PROVE JobIsCurrent'
  BY <1>8, <1>15 DEF Delete, Active, ActiveStatus, Running
<1>16. CASE ClearFailed
  BY <1>8, <1>16 DEF ClearFailed, Running
<1>17. QED
  BY <1>4, <1>5, <1>6, <1>7, <1>9, <1>10, <1>11, <1>12, <1>13, <1>14, <1>15, <1>16
  DEF Next, Handlers, Worker, vars, memory

Waits(t) == \/ \E i \in 1..Len(pending) : pending[i] = Item(t)
            \/ pc = "taken" /\ job = Item(t)

LEMMA QueuedKept ==
    ASSUME Inv, TypeOK', [Next]_vars
    PROVE  QueuedIsPending'
<1> USE DEF Inv
<1>1. \A t \in Tasks : task[t] \in Record /\ Sound(task[t])
  BY InMemory
<1>2. ASSUME \A t \in Tasks : task'[t].status = "queued" =>
                task[t].status = "queued" /\ task'[t].attempt = task[t].attempt,
             UNCHANGED <<pending, job, closed>>, blocked => blocked',
             pc = "taken" => pc' = "taken"
      PROVE  QueuedIsPending'
  BY <1>2 DEF QueuedIsPending, Item
<1>3. CASE UNCHANGED <<task, pending, pc, job, closed, blocked>>
  BY <1>2, <1>3
<1>4. ASSUME NEW t \in Tasks, NEW r \in Record, task' = [task EXCEPT ![t] = r],
             pending' = Append(pending, [task |-> t, attempt |-> r.attempt]),
             ~closed, UNCHANGED <<job, closed, blocked>>,
             pc = "taken" => pc' = "taken"
      PROVE  QueuedIsPending'
  <2>1. /\ Len(pending') = Len(pending) + 1
        /\ pending'[Len(pending) + 1] = [task |-> t, attempt |-> r.attempt]
        /\ \A i \in 1..Len(pending) : pending'[i] = pending[i]
    BY <1>4 DEF TypeOK, Record, Items
  <2>2. Len(pending) \in Nat
    BY DEF TypeOK
  <2>3. SUFFICES ASSUME NEW u \in Tasks, task'[u].status = "queued"
                 PROVE  /\ ~closed'
                        /\ blocked' \/ Waits(u)'
    BY DEF QueuedIsPending, Waits
  <2>4. CASE u = t
    <3>1. Item(u)' = [task |-> t, attempt |-> r.attempt]
      BY <1>4, <2>4 DEF Item, TypeOK
    <3>2. Len(pending) + 1 \in 1..Len(pending')
      BY <2>1, <2>2
    <3>3. QED BY <1>4, <2>1, <3>1, <3>2 DEF Waits
  <2>5. CASE u # t
    <3>1. task'[u] = task[u] /\ Item(u)' = Item(u)
      BY <1>4, <2>5 DEF Item, TypeOK
    <3>2. \A i \in 1..Len(pending) : i \in 1..Len(pending')
      BY <2>1, <2>2
    <3>3. QED BY <1>4, <2>1, <2>3, <3>1, <3>2 DEF QueuedIsPending, Waits
  <2>6. QED BY <2>4, <2>5
<1>5. ASSUME NEW q \in Requests, NEW t \in Tasks, Create(q, t)
      PROVE  QueuedIsPending'
  <2>1. CASE RolledBack BY <1>3, <2>1 DEF RolledBack, vars, memory
  <2>2. CASE ~RolledBack
    BY <1>4, <1>5, <2>2, FixedRecords DEF Create, Commit, Open
  <2>3. QED BY <2>1, <2>2
<1>6. ASSUME NEW q \in Requests, NEW t \in Tasks, Attach(q, t)
      PROVE  QueuedIsPending'
  <2>1. UNCHANGED <<task, pending, pc, job, closed, blocked>>
    BY <1>6 DEF Attach, Commit, RolledBack, vars, memory
  <2>2. QED BY <1>3, <2>1
<1>7. ASSUME NEW t \in Tasks, Cancel(t)
      PROVE  QueuedIsPending'
  <2>1. /\ task' = [task EXCEPT ![t] = CancelledByUser(task[t])]
        /\ UNCHANGED <<pending, pc, job, closed, blocked>>
    BY <1>7 DEF Cancel, Commit
  <2>2. \A u \in Tasks : task'[u] = IF u = t THEN CancelledByUser(task[u]) ELSE task[u]
    BY <2>1 DEF TypeOK
  <2>3. QED BY <1>1, <1>2, <2>1, <2>2, CancelledRecord
<1>8. ASSUME NEW ts, Remove(ts)
      PROVE  QueuedIsPending'
  <2>1. CASE RolledBack BY <1>3, <2>1 DEF RolledBack, vars, memory
  <2>2. CASE ~RolledBack
    <3>1. \A u \in Tasks : task'[u] = IF u \in ts THEN Absent ELSE task[u]
      BY <1>8, <2>2 DEF Remove, Commit
    <3>2. UNCHANGED <<pending, pc, job, closed, blocked>>
      BY <1>8, <2>2 DEF Remove
    <3>3. QED BY <1>2, <3>1, <3>2, FixedRecords
  <2>3. QED BY <2>1, <2>2
<1>9. ASSUME NEW t \in Tasks, Resume(t) \/ Retry(t)
      PROVE  QueuedIsPending'
  <2>1. CASE RolledBack BY <1>3, <2>1 DEF RolledBack, vars, memory
  <2>2. CASE ~RolledBack
    <3>1. PICK r \in Record : Enqueue(t, r)
      BY <1>1, <1>9, <2>2, RequeuedRecord DEF Resume, Retry
    <3>2. ~closed
      BY <1>9 DEF Resume, Retry, Open
    <3>3. QED BY <1>4, <3>1, <3>2, EnqueueStep
  <2>3. QED BY <2>1, <2>2
<1>10. CASE Take
  <2>1. /\ pc = "idle" /\ pending # <<>> /\ pending' = Tail(pending)
        /\ UNCHANGED <<task, closed, blocked>>
    BY <1>10 DEF Take
  <2>2. /\ Len(pending) \in Nat \ {0} /\ Len(pending') = Len(pending) - 1
        /\ \A i \in 1..Len(pending') : pending'[i] = pending[i + 1]
        /\ Head(pending) = pending[1]
    BY <2>1 DEF TypeOK
  <2>3. SUFFICES ASSUME NEW u \in Tasks, task'[u].status = "queued", ~blocked
                 PROVE  ~closed' /\ Waits(u)'
    BY <2>1 DEF QueuedIsPending, Waits
  <2>4. Item(u)' = Item(u)
    BY <2>1 DEF Item
  <2>5. PICK i \in 1..Len(pending) : pending[i] = Item(u)
    BY <2>1, <2>3 DEF QueuedIsPending
  <2>6. CASE i = 1
    <3>1. Head(pending) = Item(u) /\ Item(u) # Stop
      BY <2>2, <2>5, <2>6, ConstantsAssumption DEF Item, Stop
    <3>2. pc' = "taken" /\ job' = Item(u)
      BY <1>10, <2>3, <3>1 DEF Take
    <3>3. QED BY <2>1, <2>3, <2>4, <3>2 DEF Waits, QueuedIsPending
  <2>7. CASE i # 1
    <3>1. i - 1 \in 1..Len(pending') /\ pending'[i - 1] = pending[i]
      BY <2>2, <2>7
    <3>2. QED BY <2>1, <2>3, <2>4, <2>5, <3>1 DEF Waits, QueuedIsPending
  <2>8. QED BY <2>6, <2>7
<1>11. CASE Admit
  <2>1. /\ job.task \in Tasks /\ task' = [task EXCEPT ![job.task] = Started(task[job.task])]
        /\ pc = "taken" /\ UNCHANGED <<pending, job, closed, blocked>>
    BY <1>11 DEF Admit, Admissible, Current
  <2>2. \A u \in Tasks : task'[u] = IF u = job.task THEN Started(task[u]) ELSE task[u]
    BY <2>1 DEF TypeOK
  <2>3. ASSUME NEW u \in Tasks, task'[u].status = "queued"
        PROVE  u # job.task /\ task'[u] = task[u] /\ Item(u)' = Item(u)
    BY <1>1, <2>2, <2>3, StartedRecord DEF Item
  <2>4. \A u \in Tasks : u # job.task => job # Item(u)
    BY DEF Item
  <2>5. QED BY <2>1, <2>3, <2>4 DEF QueuedIsPending
<1>12. CASE Skip
  <2>1. pc = "taken" /\ ~Admissible(job) /\ UNCHANGED <<task, pending, closed, blocked>>
    BY <1>12 DEF Skip
  <2>2. ASSUME NEW u \in Tasks, task[u].status = "queued", job = Item(u)
        PROVE  FALSE
    <3>1. ~closed
      BY <2>2 DEF QueuedIsPending
    <3>2. Current(job) /\ job.task = u
      BY <2>2 DEF Current, Item, Present
    <3>3. ~Recovering(task[u])
      BY <1>1, <2>2 DEF Sound
    <3>4. QED BY <2>1, <2>2, <3>1, <3>2, <3>3 DEF Admissible
  <2>3. \A u \in Tasks : Item(u)' = Item(u)
    BY <2>1 DEF Item
  <2>4. QED BY <2>1, <2>2, <2>3 DEF QueuedIsPending
<1>13. CASE Conclude
  <2>1. pc = "ended" /\ Busy /\ (blocked => blocked') /\ UNCHANGED <<pending, closed>>
    BY <1>13 DEF Conclude, Busy
  <2>2. Current(job) /\ Running(task[job.task]) /\ job.task \in Tasks
    BY <1>1, <2>1 DEF JobIsCurrent, Current, Running, Present
  <2>3. task' = [task EXCEPT ![job.task] = Concluded(task[job.task])] /\ job' = job
    BY <1>13, <2>2 DEF Conclude
  <2>4. task[job.task].cancelRequested => task[job.task].cancelEvent
    BY <2>2 DEF CancelSignalled, Running, Active, ActiveStatus
  <2>5. Concluded(task[job.task]).status # "queued"
    BY <1>1, <2>1, <2>2, <2>4, ConcludedRecord DEF TypeOK, Running
  <2>6. \A u \in Tasks : task'[u].status = "queued" => task'[u] = task[u]
    BY <2>2, <2>3, <2>5 DEF TypeOK
  <2>7. QED BY <1>2, <2>1, <2>3, <2>6
<1>14. CASE Close
  <2>1. \A u \in Tasks : task'[u] = Closing(task[u])
    BY <1>14 DEF Close
  <2>2. QED BY <1>1, <2>1, ClosingRecord DEF QueuedIsPending
<1>15. CASE Restart
  <2>1. \A u \in Tasks : task'[u].status # "queued"
    BY <1>15, LoadedRecord DEF Restart, TypeOK, Image, Active, ActiveStatus
  <2>2. QED BY <2>1 DEF QueuedIsPending
<1>16. CASE StartWorker \/ SaveStarts \/ SaveEnds \/ RunEnds \/ CloseSaves
  <2>1. UNCHANGED <<task, pending, closed, blocked>>
    BY <1>16 DEF StartWorker, SaveStarts, SaveEnds, RunEnds, CloseSaves
  <2>2. pc = "taken" => pc' = "taken" /\ job' = job
    BY <1>16 DEF StartWorker, SaveStarts, SaveEnds, RunEnds, CloseSaves
  <2>3. \A u \in Tasks : Item(u)' = Item(u)
    BY <2>1 DEF Item
  <2>4. QED BY <2>1, <2>2, <2>3 DEF QueuedIsPending
<1>17. QED
  BY <1>3, <1>5, <1>6, <1>7, <1>8, <1>9, <1>10, <1>11, <1>12, <1>13, <1>14, <1>15, <1>16
  DEF Next, Handlers, Worker, Delete, ClearFailed, vars, memory

-----------------------------------------------------------------------------
LEMMA InitInv == Init => Inv
<1> SUFFICES ASSUME Init, TypeOK PROVE Inv
  BY TypeInitially
<1>1. \A t \in Tasks : task[t] = Absent /\ promise[t] = "none"
  BY DEF Init
<1>2. \A t \in Tasks : \A r \in Versions(t) :
         /\ r.status = "absent" /\ r.attempt = 0 /\ ~r.cancelRequested
         /\ Sound(r) /\ r.results = FALSE
  <2>1. \A t \in Tasks : \A r \in Versions(t) : r = Absent \/ r = Saved(Absent)
    BY <1>1, ImageTyped DEF Init, Versions, TypeOK
  <2>2. Absent.results = FALSE
    BY DEF Absent
  <2>3. QED BY <2>1, <2>2, FixedRecords, SavedRecord DEF Sound, Recovering
<1>3. VersionsOK
  <2>1. snap = {} /\ disk.submissions = submissions
          /\ \A q \in Requests : submissions[q] = NoTask
    BY ImageTyped DEF Init, TypeOK
  <2>2. \A t \in Tasks : task[t].attempt = 0
    BY <1>1, FixedRecords
  <2>3. RecordsSound /\ CancelRecorded /\ DiskBehindMemory
    BY <1>1, <1>2 DEF RecordsSound, CancelRecorded, DiskBehindMemory
  <2>4. AcceptedIsDurable
    BY <1>1, <1>2, <2>1, <2>2 DEF AcceptedIsDurable
  <2>5. QED BY <2>3, <2>4 DEF VersionsOK
<1>4. \A t \in Tasks : task[t].status = "absent" /\ ~task[t].cancelRequested
  BY <1>1, FixedRecords
<1>5. ~Busy
  BY DEF Init, Busy
<1>6. CancelSignalled /\ JobIsCurrent /\ QueuedIsPending
  BY <1>4, <1>5 DEF CancelSignalled, JobIsCurrent, QueuedIsPending, Running
<1>7. QED BY <1>3, <1>6 DEF Inv

(* Inv holds throughout: it is inductive. *)
THEOREM Invariance == Spec => []Inv
<1>1. Inv /\ TypeOK' /\ [Next]_vars => Inv'
  BY VersionsKept, SignalledKept, JobKept, QueuedKept DEF Inv
<1>2. QED BY <1>1, InitInv, TypeCorrect, PTL DEF Spec

(* A cancellation that was acknowledged stays in force in memory, in the   *)
(* file and in every save under way, across failed saves, a shutdown and   *)
(* any number of crashes, until the user asks for a new attempt.           *)
THEOREM CancellationIsFinal == Spec => []CancelIsFinal
<1>1. Inv => CancelIsFinal
  <2> SUFFICES ASSUME Inv, NEW t \in Tasks, promise[t] = "cancel", NEW r \in Versions(t)
               PROVE  /\ r.cancelRequested /\ ~r.results /\ ~Recovering(r)
                      /\ r.status \in {"cancelling", "cancelled", "failed"}
    BY DEF CancelIsFinal
  <2>1. Sound(r) /\ r.cancelRequested
    BY DEF Inv, VersionsOK, RecordsSound, CancelRecorded
  <2>2. QED BY <2>1 DEF Sound
<1>2. QED BY <1>1, Invariance, PTL

(* Whatever saves failed, a crash takes back no acknowledged create, retry *)
(* or delete and no answer to a submission.                                *)
THEOREM AcceptanceIsDurable == Spec => []AcceptedIsDurable
<1>1. Inv => AcceptedIsDurable
  BY DEF Inv, VersionsOK
<1>2. QED BY <1>1, Invariance, PTL

(* A save that is late or failed leaves no result in the file that memory  *)
(* has withdrawn.                                                          *)
THEOREM ResultsNotAhead == Spec => []DiskBehindMemory
<1>1. Inv => DiskBehindMemory
  BY DEF Inv, VersionsOK
<1>2. QED BY <1>1, Invariance, PTL

(* No accepted task is left without an item in the queue. *)
THEOREM NoTaskStranded == Spec => []QueuedIsPending
<1>1. Inv => QueuedIsPending
  BY DEF Inv
<1>2. QED BY <1>1, Invariance, PTL

(* The record of a running task and the worker never part. *)
THEOREM RunsAreOwned == Spec => []RunningIsExecuted
<1>1. Inv => RunningIsExecuted
  <2> SUFFICES ASSUME Inv PROVE RunningIsExecuted
    OBVIOUS
  <2>1. \A i \in Items : i = [task |-> i.task, attempt |-> i.attempt]
    BY DEF Items
  <2>2. Busy => job = Item(job.task) /\ job.task \in Tasks
    BY <2>1 DEF Inv, JobIsCurrent, TypeOK, Item
  <2>3. \A t \in Tasks : Running(task[t]) <=> Busy /\ job.task = t
    BY DEF Inv, JobIsCurrent
  <2>4. QED BY <2>2, <2>3 DEF RunningIsExecuted, Running, Busy
<1>2. QED BY <1>1, Invariance, PTL

(* Whatever is queued or under way has the worker see to it. *)
THEOREM WorkHasItsWorker == Spec => []WorkIsOwned
<1>1. QueuedIsPending /\ RunningIsExecuted => WorkIsOwned
  BY DEF WorkIsOwned
<1>2. QED BY <1>1, NoTaskStranded, RunsAreOwned, PTL

(* No step changes the answer to a submission. *)
THEOREM AnswersKept == Spec => AnswersArePermanent
<1> DEFINE Kept == \A r \in Requests : disk.submissions[r] # NoTask =>
                      disk'.submissions[r] = disk.submissions[r]
                      /\ submissions'[r] = disk.submissions[r]
<1>1. Inv /\ TypeOK' /\ [Next]_vars => Kept
  <2> SUFFICES ASSUME Inv, TypeOK', [Next]_vars,
                      NEW r \in Requests, submissions[r] # NoTask
               PROVE  disk'.submissions[r] = submissions[r]
                      /\ submissions'[r] = submissions[r]
    BY DEF Inv, VersionsOK, AcceptedIsDurable
  <2>1. disk.submissions = submissions /\ disk'.submissions = submissions'
    BY VersionsKept DEF Inv, VersionsOK, AcceptedIsDurable
  <2>2. submissions'[r] = submissions[r]
    <3>1. ASSUME NEW q \in Requests, NEW t \in Tasks, Create(q, t) \/ Attach(q, t)
          PROVE  submissions'[r] = submissions[r]
      BY <3>1 DEF Create, Attach, Commit, RolledBack, vars, memory, Inv, TypeOK
    <3>2. ASSUME NEW t \in Tasks, Cancel(t) \/ Delete(t) \/ Resume(t) \/ Retry(t)
          PROVE  submissions' = submissions
      BY <3>2 DEF Cancel, Delete, Remove, Resume, Retry, Enqueue, Commit,
                  RolledBack, vars, memory
    <3>3. CASE ClearFailed
      BY <3>3 DEF ClearFailed, Remove, Commit, RolledBack, vars, memory
    <3>4. CASE Worker \/ Close \/ CloseSaves \/ UNCHANGED vars
      BY <3>4 DEF Worker, StartWorker, Take, Admit, Skip, SaveStarts, SaveEnds,
                  RunEnds, Conclude, Close, CloseSaves, vars, memory
    <3>5. CASE Restart
      BY <2>1, <3>5 DEF Restart
    <3>6. QED BY <3>1, <3>2, <3>3, <3>4, <3>5 DEF Next, Handlers
  <2>3. QED BY <2>1, <2>2
<1>2. QED BY <1>1, Invariance, TypeCorrect, PTL DEF Spec, AnswersArePermanent

-----------------------------------------------------------------------------
(* TaskManager implements TaskLifecycle: every step of the manager is a    *)
(* step of the life cycle or changes nothing in it.                        *)

(* The mapped variables, as state functions with a name. *)
generation == [t \in Tasks |-> task[t].attempt]
executing == IF pc \in {"begun", "running", "ended"} THEN job.task ELSE NoTask
offered == {t \in Tasks : task[t].results}

(* What waits was acknowledged and not started; what runs was started, and *)
(* only a cancellation has come after it.                                  *)
PromiseMatches ==
    \A t \in Tasks :
        /\ task[t].status = "queued" => promise[t] = "run"
        /\ Running(task[t]) => promise[t] \in {"started", "cancel"}

LEMMA StepOfOne ==
    ASSUME Inv, NEW t \in Tasks, NEW r \in Record, task' = [task EXCEPT ![t] = r]
    PROVE  \A u \in Tasks : task'[u] = IF u = t THEN r ELSE task[u]
BY DEF Inv, TypeOK

LEMMA PromiseKept ==
    ASSUME Inv, TypeOK', PromiseMatches, [Next]_vars
    PROVE  PromiseMatches'
<1> USE DEF Inv
<1>1. \A t \in Tasks : task[t] \in Record /\ Sound(task[t])
  BY InMemory
<1>2. ASSUME promise' = promise,
             \A t \in Tasks : /\ task'[t].status = "queued" => task[t].status = "queued"
                              /\ Running(task'[t]) => Running(task[t])
      PROVE  PromiseMatches'
  BY <1>2 DEF PromiseMatches
<1>3. CASE UNCHANGED <<task, promise>>
  BY <1>2, <1>3
<1>4. ASSUME NEW t \in Tasks, NEW r \in Record, r.status = "queued",
             task' = [task EXCEPT ![t] = r], Acknowledge({t}, "run")
      PROVE  PromiseMatches'
  <2>1. \A u \in Tasks : promise'[u] = IF u = t THEN "run" ELSE promise[u]
    BY <1>4 DEF Acknowledge
  <2>2. \A u \in Tasks : task'[u] = IF u = t THEN r ELSE task[u]
    BY <1>4, StepOfOne
  <2>3. QED BY <1>4, <2>1, <2>2 DEF PromiseMatches, Running
<1>5. ASSUME NEW q \in Requests, NEW t \in Tasks, Create(q, t) \/ Attach(q, t)
      PROVE  PromiseMatches'
  <2>1. \/ UNCHANGED <<task, promise>>
        \/ task' = [task EXCEPT ![t] = NewRecord] /\ Acknowledge({t}, "run")
    BY <1>5 DEF Create, Attach, Commit, RolledBack, vars, memory
  <2>2. QED BY <1>3, <1>4, <2>1, FixedRecords
<1>6. ASSUME NEW t \in Tasks, Cancel(t)
      PROVE  PromiseMatches'
  <2>1. task' = [task EXCEPT ![t] = CancelledByUser(task[t])]
    BY <1>6 DEF Cancel, Commit
  <2>2. promise' = promise \/ \A u \in Tasks :
           promise'[u] = IF u = t THEN "cancel" ELSE promise[u]
    BY <1>6 DEF Cancel, Acknowledge
  <2>3. \A u \in Tasks : task'[u] = IF u = t THEN CancelledByUser(task[u]) ELSE task[u]
    BY <2>1 DEF TypeOK
  <2>4. ASSUME NEW u \in Tasks
        PROVE  /\ task'[u].status = "queued" => promise'[u] = "run"
               /\ Running(task'[u]) => promise'[u] \in {"started", "cancel"}
    <3>1. CASE u = t
      BY <1>1, <2>2, <2>3, <3>1, CancelledRecord DEF PromiseMatches, Running
    <3>2. CASE u # t
      BY <2>2, <2>3, <3>2 DEF PromiseMatches
    <3>3. QED BY <3>1, <3>2
  <2>5. QED BY <2>4 DEF PromiseMatches
<1>7. ASSUME NEW ts, Remove(ts)
      PROVE  PromiseMatches'
  <2>1. CASE RolledBack BY <1>3, <2>1 DEF RolledBack, vars, memory
  <2>2. CASE ~RolledBack
    BY <1>7, <2>2, FixedRecords DEF Remove, Commit, Acknowledge, PromiseMatches, Running
  <2>3. QED BY <2>1, <2>2
<1>8. ASSUME NEW t \in Tasks, Resume(t) \/ Retry(t)
      PROVE  PromiseMatches'
  <2>1. CASE RolledBack BY <1>3, <2>1 DEF RolledBack, vars, memory
  <2>2. CASE ~RolledBack
    <3>1. PICK r \in Record : Enqueue(t, r) /\ r.status = "queued"
      BY <1>1, <1>8, <2>2, RequeuedRecord DEF Resume, Retry
    <3>2. QED BY <1>4, <3>1 DEF Enqueue, Commit
  <2>3. QED BY <2>1, <2>2
<1>9. CASE Admit
  <2>1. /\ job.task \in Tasks /\ Acknowledge({job.task}, "started")
        /\ task' = [task EXCEPT ![job.task] = Started(task[job.task])]
    BY <1>9 DEF Admit, Admissible, Current
  <2>2. \A u \in Tasks : promise'[u] = IF u = job.task THEN "started" ELSE promise[u]
    BY <2>1 DEF Acknowledge
  <2>3. \A u \in Tasks : task'[u] = IF u = job.task THEN Started(task[u]) ELSE task[u]
    BY <2>1 DEF TypeOK
  <2>4. QED BY <1>1, <2>2, <2>3, StartedRecord DEF PromiseMatches, Running
<1>10. CASE Conclude
  <2>1. /\ job.task \in Tasks /\ Running(task[job.task]) /\ Busy
        /\ promise' = promise
        /\ task' = [task EXCEPT ![job.task] = Concluded(task[job.task])]
    BY <1>1, <1>10 DEF Conclude, Busy, JobIsCurrent, Current, Running, Present
  <2>2. task[job.task].cancelRequested => task[job.task].cancelEvent
    BY <2>1 DEF CancelSignalled, Running, Active, ActiveStatus
  <2>3. /\ Concluded(task[job.task]) \in Record
        /\ Concluded(task[job.task]).status # "queued"
        /\ ~Running(Concluded(task[job.task]))
    BY <1>1, <1>10, <2>1, <2>2, ConcludedRecord DEF Conclude, TypeOK, Running
  <2>4. QED BY <1>2, <2>1, <2>3, StepOfOne
<1>11. CASE Close
  BY <1>1, <1>2, <1>11, ClosingRecord DEF Close, Running
<1>12. CASE Restart
  BY <1>2, <1>12, LoadedRecord DEF Restart, TypeOK, Image, Active, ActiveStatus, Running
<1>13. CASE StartWorker \/ Take \/ Skip \/ SaveStarts \/ SaveEnds \/ RunEnds
              \/ CloseSaves \/ UNCHANGED vars
  BY <1>3, <1>13 DEF StartWorker, Take, Skip, SaveStarts, SaveEnds, RunEnds,
                     CloseSaves, vars, memory
<1>14. QED
  BY <1>5, <1>6, <1>7, <1>8, <1>9, <1>10, <1>11, <1>12, <1>13
  DEF Next, Handlers, Worker, Delete, ClearFailed

-----------------------------------------------------------------------------
(* The life cycle's variables, step by step. *)
LEMMA Unseen ==
    ASSUME promise' = promise, executing' = executing,
           \A t \in Tasks : task'[t].attempt = task[t].attempt
                              /\ task'[t].results = task[t].results
    PROVE  UNCHANGED Lifecycle!vars
BY DEF Lifecycle!vars, executing

LEMMA StepSimulated ==
    ASSUME Inv, TypeOK', PromiseMatches, [Next]_vars
    PROVE  Lifecycle!Next \/ UNCHANGED Lifecycle!vars
<1> USE DEF Inv
<1>1. \A t \in Tasks :
         /\ task[t] \in Record /\ Sound(task[t])
         /\ promise[t] = "cancel" => task[t].cancelRequested
         /\ (task[t].status = "absent") <=> promise[t] \in {"none", "deleted"}
  BY InMemory
<1>2. \A t \in Tasks : t = executing => Running(task[t])
  BY ConstantsAssumption DEF executing, JobIsCurrent, Busy
<1>3. \A t \in Tasks : Present(t) <=> t \in Lifecycle!Acknowledged
  BY <1>1 DEF Lifecycle!Acknowledged, Present, TypeOK
<1>4. CASE UNCHANGED <<task, pc, job, promise>>
  BY <1>4, Unseen DEF executing
<1>5. ASSUME NEW t \in Tasks, NEW r \in Record, Enqueue(t, r)
      PROVE  /\ \A u \in Tasks : task'[u] = IF u = t THEN r ELSE task[u]
             /\ promise' = [promise EXCEPT ![t] = "run"]
             /\ executing' = executing
  <2>1. Acknowledge({t}, "run") /\ promise \in [Tasks -> {"none", "run", "started", "cancel", "deleted"}]
    BY <1>5 DEF Enqueue, TypeOK
  <2>2. promise' = [promise EXCEPT ![t] = "run"]
    BY <2>1 DEF Acknowledge
  <2>3. QED BY <1>5, <2>2, EnqueueStep, StepOfOne DEF executing, Busy
<1>6. ASSUME NEW q \in Requests, NEW t \in Tasks, Create(q, t) \/ Attach(q, t)
      PROVE  Lifecycle!Next \/ UNCHANGED Lifecycle!vars
  <2>1. \/ UNCHANGED <<task, pc, job, promise>>
        \/ /\ promise[t] = "none" /\ Acknowledge({t}, "run")
           /\ task' = [task EXCEPT ![t] = NewRecord] /\ UNCHANGED <<pc, job>>
    BY <1>6 DEF Create, Attach, Commit, RolledBack, vars, memory
  <2>2. CASE /\ promise[t] = "none" /\ Acknowledge({t}, "run")
             /\ task' = [task EXCEPT ![t] = NewRecord] /\ UNCHANGED <<pc, job>>
    <3>1. \A u \in Tasks : task'[u] = IF u = t THEN NewRecord ELSE task[u]
      BY <2>2, StepOfOne, FixedRecords
    <3>2. ~task[t].results /\ ~NewRecord.results /\ NewRecord.attempt = 1
      BY <1>1, <2>2, FixedRecords DEF Sound
    <3>3. promise' = [promise EXCEPT ![t] = "run"]
      BY <2>2 DEF Acknowledge, TypeOK
    <3>4. generation' = [generation EXCEPT ![t] = 1]
      BY <3>1, <3>2 DEF generation
    <3>5. offered' = offered /\ executing' = executing
      BY <2>2, <3>1, <3>2 DEF offered, executing
    <3>6. Lifecycle!Accept(t)
      BY <2>2, <3>3, <3>4, <3>5 DEF Lifecycle!Accept, generation, offered, executing
    <3>7. QED BY <3>6 DEF Lifecycle!Next
  <2>3. QED BY <1>4, <2>1, <2>2
<1>7. ASSUME NEW t \in Tasks, Cancel(t)
      PROVE  Lifecycle!Next \/ UNCHANGED Lifecycle!vars
  <2>1. \A u \in Tasks : task'[u] = IF u = t THEN CancelledByUser(task[u]) ELSE task[u]
    BY <1>1, <1>7, StepOfOne, CancelledRecord DEF Cancel, Commit
  <2>2. \A r \in Record : CancelledByUser(r).results = r.results
    BY DEF CancelledByUser, Record
  <2>3. /\ generation' = generation /\ offered' = offered /\ executing' = executing
        /\ \A u \in Tasks : task'[u].attempt = task[u].attempt
                              /\ task'[u].results = task[u].results
    BY <1>1, <1>7, <2>1, <2>2, CancelledRecord DEF generation, offered, executing, Cancel
  <2>4. CASE promise' = promise BY <2>3, <2>4, Unseen
  <2>5. CASE Acknowledge({t}, "cancel")
    <3>1. promise' = [promise EXCEPT ![t] = "cancel"]
      BY <2>5 DEF Acknowledge, TypeOK
    <3>2. t \in Lifecycle!Acknowledged /\ t \notin offered
      BY <1>1, <1>3, <1>7 DEF Cancel, offered, Sound, Live, Active, ActiveStatus
    <3>3. Lifecycle!CancelRequested(t)
      BY <2>3, <3>1, <3>2 DEF Lifecycle!CancelRequested, generation, offered, executing
    <3>4. QED BY <3>3 DEF Lifecycle!Next
  <2>6. QED BY <1>7, <2>4, <2>5 DEF Cancel
<1>8. ASSUME NEW ts \in SUBSET Tasks, Remove(ts),
             \A t \in ts : Present(t) /\ ~Running(task[t])
      PROVE  Lifecycle!Next \/ UNCHANGED Lifecycle!vars
  <2>1. CASE RolledBack BY <1>4, <2>1 DEF RolledBack, vars, memory
  <2>2. CASE ~RolledBack
    <3>1. \A u \in Tasks : task'[u] = IF u \in ts THEN Absent ELSE task[u]
      BY <1>8, <2>2 DEF Remove, Commit
    <3>2. Absent.attempt = 0 /\ Absent.results = FALSE
      BY DEF Absent
    <3>3. generation' = [t \in Tasks |-> IF t \in ts THEN 0 ELSE generation[t]]
      BY <3>1, <3>2 DEF generation
    <3>4. offered' = offered \ ts
      BY <3>1, <3>2 DEF offered
    <3>5. executing' = executing
            /\ promise' = [t \in Tasks |-> IF t \in ts THEN "deleted" ELSE promise[t]]
      BY <1>8, <2>2 DEF Remove, Acknowledge, executing
    <3>6. ts \subseteq Lifecycle!Acknowledged \ {executing}
      BY <1>2, <1>3, <1>8
    <3>7. Lifecycle!Delete(ts)
      BY <3>3, <3>4, <3>5, <3>6 DEF Lifecycle!Delete, generation, offered, executing
    <3>8. QED BY <3>7 DEF Lifecycle!Next
  <2>3. QED BY <2>1, <2>2
<1>9. ASSUME NEW t \in Tasks, Resume(t)
      PROVE  Lifecycle!Next \/ UNCHANGED Lifecycle!vars
  <2>1. CASE RolledBack BY <1>4, <2>1 DEF RolledBack, vars, memory
  <2>2. CASE ~RolledBack
    <3>0. \A r \in Record : Requeued(r).results = r.results
      BY DEF Requeued, Record
    <3>1. /\ Requeued(task[t]) \in Record /\ Enqueue(t, Requeued(task[t]))
          /\ Requeued(task[t]).attempt = task[t].attempt
          /\ Requeued(task[t]).results = task[t].results
      BY <1>1, <1>9, <2>2, <3>0, RequeuedRecord DEF Resume
    <3>2. /\ \A u \in Tasks : task'[u].attempt = task[u].attempt
                                /\ task'[u].results = task[u].results
          /\ promise' = [promise EXCEPT ![t] = "run"]
          /\ executing' = executing
      BY <1>5, <3>1
    <3>3. promise[t] \in {"run", "started"} /\ t \notin offered /\ t # executing
      BY <1>1, <1>2, <1>9 DEF Resume, Sound, TypeOK, offered, Running
    <3>4. CASE promise[t] = "run"
      <4>1. promise' = promise BY <3>2, <3>4 DEF TypeOK
      <4>2. QED BY <3>2, <4>1, Unseen
    <3>5. CASE promise[t] = "started"
      <4>1. generation' = generation /\ offered' = offered
        BY <3>2 DEF generation, offered
      <4>2. Lifecycle!Continue(t)
        BY <3>2, <3>3, <3>5, <4>1 DEF Lifecycle!Continue, generation, offered, executing
      <4>3. QED BY <4>2 DEF Lifecycle!Next
    <3>6. QED BY <3>3, <3>4, <3>5
  <2>3. QED BY <2>1, <2>2
<1>10. ASSUME NEW t \in Tasks, Retry(t)
       PROVE  Lifecycle!Next \/ UNCHANGED Lifecycle!vars
  <2>1. CASE RolledBack BY <1>4, <2>1 DEF RolledBack, vars, memory
  <2>2. CASE ~RolledBack
    <3>0. \A r \in Record :
             NextAttempt(r).attempt = r.attempt + 1 /\ ~NextAttempt(r).results
      BY DEF NextAttempt, Record
    <3>1. /\ NextAttempt(task[t]) \in Record /\ Enqueue(t, NextAttempt(task[t]))
          /\ NextAttempt(task[t]).attempt = task[t].attempt + 1
          /\ ~NextAttempt(task[t]).results
      BY <1>1, <1>10, <2>2, <3>0, RequeuedRecord DEF Retry
    <3>2. /\ \A u \in Tasks : task'[u] = IF u = t THEN NextAttempt(task[t]) ELSE task[u]
          /\ promise' = [promise EXCEPT ![t] = "run"]
          /\ executing' = executing
      BY <1>5, <3>1
    <3>3. generation' = [generation EXCEPT ![t] = generation[t] + 1]
      BY <3>1, <3>2 DEF generation
    <3>4. offered' = offered \ {t}
      BY <3>1, <3>2 DEF offered
    <3>5. t \in Lifecycle!Acknowledged /\ t # executing
      BY <1>2, <1>3, <1>10 DEF Retry, Running
    <3>6. Lifecycle!AskAgain(t)
      BY <3>2, <3>3, <3>4, <3>5 DEF Lifecycle!AskAgain, generation, offered, executing
    <3>7. QED BY <3>6 DEF Lifecycle!Next
  <2>3. QED BY <2>1, <2>2
<1>11. CASE Admit
  <2> DEFINE t == job.task
  <2>1. /\ t \in Tasks /\ task[t].status = "queued" /\ Acknowledge({t}, "started")
        /\ task' = [task EXCEPT ![t] = Started(task[t])]
        /\ pc = "taken" /\ pc' = "begun" /\ job' = job
    BY <1>11 DEF Admit, Admissible, Current
  <2>2. \A u \in Tasks : task'[u].attempt = task[u].attempt
                           /\ task'[u].results = task[u].results
    BY <1>1, <2>1, StepOfOne, StartedRecord
  <2>3. generation' = generation /\ offered' = offered
    BY <2>2 DEF generation, offered
  <2>4. executing = NoTask /\ executing' = t
    BY <2>1 DEF executing
  <2>5. promise[t] = "run" /\ t \notin offered
    BY <1>1, <2>1 DEF PromiseMatches, Sound, offered
  <2>6. promise' = [promise EXCEPT ![t] = "started"]
    BY <2>1 DEF Acknowledge, TypeOK
  <2>7. Lifecycle!Start(t)
    BY <2>3, <2>4, <2>5, <2>6 DEF Lifecycle!Start, generation, offered, executing
  <2>8. QED BY <2>1, <2>7 DEF Lifecycle!Next
<1>12. CASE Conclude
  <2> DEFINE t == job.task
  <2>1. /\ t \in Tasks /\ Running(task[t]) /\ promise' = promise
        /\ task' = [task EXCEPT ![t] = Concluded(task[t])]
        /\ executing = t /\ executing' = NoTask
        /\ outcome \in {"completed", "incomplete", "cancelled", "error", "cleanup"}
    BY <1>1, <1>12 DEF Conclude, Busy, JobIsCurrent, Current, Running, Present,
                       executing, TypeOK
  <2>2. task[t].cancelRequested => task[t].cancelEvent
    BY <2>1 DEF CancelSignalled, Running, Active, ActiveStatus
  <2>3. /\ Concluded(task[t]) \in Record
        /\ Concluded(task[t]).attempt = task[t].attempt
    BY <1>1, <2>1, <2>2, ConcludedRecord DEF Running
  <2>4. \A u \in Tasks : task'[u] = IF u = t THEN Concluded(task[t]) ELSE task[u]
    BY <2>1, <2>3, StepOfOne
  <2>5. Concluded(task[t]).results => promise[t] = "started"
    <3>1. task[t].cancelRequested => ~Concluded(task[t]).results
      BY <1>1, <2>1, <2>2, ConcludedRecord DEF Sound, Running
    <3>2. QED BY <1>1, <2>1, <3>1 DEF PromiseMatches
  <2>6. generation' = generation
    BY <2>3, <2>4 DEF generation
  <2>7. offered' = offered \/ (promise[t] = "started" /\ offered' = offered \cup {t})
    <3>1. ~task[t].results
      BY <1>1, <2>1 DEF Sound, Running
    <3>2. QED BY <2>1, <2>4, <2>5, <3>1 DEF offered
  <2>8. Lifecycle!Finish
    BY <2>1, <2>6, <2>7, ConstantsAssumption
    DEF Lifecycle!Finish, generation, offered, executing
  <2>9. QED BY <2>8 DEF Lifecycle!Next
<1>13. CASE Close
  <2>1. \A u \in Tasks : task'[u] = Closing(task[u])
    BY <1>13 DEF Close
  <2>2. promise' = promise /\ executing' = executing
    BY <1>13 DEF Close, executing
  <2>3. QED BY <1>1, <2>1, <2>2, ClosingRecord, Unseen
<1>14. CASE Restart
  <2>1. \A u \in Tasks : disk.task[u] \in Record /\ disk.task[u] \in Versions(u)
    BY DEF TypeOK, Image, Versions
  <2>2. \A u \in Tasks : task'[u].attempt = task[u].attempt
                           /\ (task'[u].results => task[u].results)
    BY <1>14, <2>1, LoadedRecord
    DEF Restart, VersionsOK, AcceptedIsDurable, DiskBehindMemory
  <2>3. generation' = generation /\ offered' \subseteq offered
    BY <2>2 DEF generation, offered
  <2>4. promise' = promise /\ executing' = NoTask
    BY <1>14 DEF Restart, executing
  <2>5. Lifecycle!Crash
    BY <2>3, <2>4 DEF Lifecycle!Crash, generation, offered, executing
  <2>6. QED BY <2>5 DEF Lifecycle!Next
<1>15. CASE StartWorker \/ Take \/ Skip \/ SaveStarts \/ SaveEnds \/ RunEnds
              \/ CloseSaves \/ UNCHANGED vars
  <2>1. task' = task /\ promise' = promise
    BY <1>15 DEF StartWorker, Take, Skip, SaveStarts, SaveEnds, RunEnds,
                 CloseSaves, vars, memory
  <2>2. executing' = executing
    BY <1>15 DEF StartWorker, Take, Skip, SaveStarts, SaveEnds, RunEnds,
                 CloseSaves, vars, memory, executing
  <2>3. QED BY <2>1, <2>2, Unseen
<1>16. ASSUME NEW t \in Tasks, Delete(t)
       PROVE  Lifecycle!Next \/ UNCHANGED Lifecycle!vars
  BY <1>8, <1>16 DEF Delete, Active, ActiveStatus, Running
<1>17. CASE ClearFailed
  <2>1. Remove({t \in Tasks : task[t].status = "failed"})
    BY <1>17 DEF ClearFailed
  <2>2. QED BY <1>8, <2>1 DEF Present, Running
<1>18. QED
  BY <1>6, <1>7, <1>9, <1>10, <1>11, <1>12, <1>13, <1>14, <1>15, <1>16, <1>17
  DEF Next, Handlers, Worker

(* The task manager is an implementation of the task life cycle. *)
THEOREM Implementation == Spec => ImplementsLifecycle
<1>1. Init => Lifecycle!Init
  <2> SUFFICES ASSUME Init PROVE Lifecycle!Init
    OBVIOUS
  <2>1. \A t \in Tasks : task[t].attempt = 0 /\ ~task[t].results
    <3>1. Absent.attempt = 0 /\ Absent.results = FALSE BY DEF Absent
    <3>2. QED BY <3>1 DEF Init
  <2>2. QED BY <2>1 DEF Init, Lifecycle!Init
<1>2. Init => PromiseMatches
  BY FixedRecords DEF Init, PromiseMatches, Running
<1>3. Inv /\ TypeOK' /\ PromiseMatches /\ [Next]_vars =>
         PromiseMatches' /\ [Lifecycle!Next]_(Lifecycle!vars)
  BY PromiseKept, StepSimulated
<1>4. QED
  BY <1>1, <1>2, <1>3, Invariance, TypeCorrect, PTL
  DEF Spec, ImplementsLifecycle, Lifecycle!Spec
=============================================================================
