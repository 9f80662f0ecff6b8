-------------------------- MODULE MemorySyncProofs --------------------------
(***************************************************************************)
(* Proofs about MemorySync, for any set of tasks and any number of         *)
(* attempts, of paragraphs and of restarts: a result that is deleted is    *)
(* remembered.  That it is synchronised in the end is left to TLC.         *)
(*                                                                         *)
(* The worker reads while other attempts write, so the invariant says what *)
(* the worker holds: nothing newer than the checkpoint, and the same as    *)
(* the checkpoint as long as its attempt is the one of the task.           *)
(***************************************************************************)
EXTENDS MemorySync, TLAPS

\* A record is true to the files: a result that says it is synchronised is.
TrueToFiles(r, t) ==
    MemorySource(r) =>
        /\ r.sync # "none"
        /\ r.sync = "synced" => memory[t] = checkpoint[t]

\* The file is behind the records by a run at most.
Behind(t) ==
    /\ disk[t].status = "absent" <=> task[t].status = "absent"
    /\ MemorySource(disk[t]) => MemorySource(task[t])
    /\ disk[t].attempt = task[t].attempt

\* A task that is deleted has no checkpoint; what the memory holds of another
\* is not newer than its checkpoint.
Existing(t) ==
    IF task[t].status = "absent"
    THEN checkpoint[t] = 0 /\ (task[t].attempt = 0 => memory[t] = 0)
    ELSE task[t].attempt > 0 /\ memory[t] <= checkpoint[t]

Sound(t) == TrueToFiles(task[t], t) /\ TrueToFiles(disk[t], t) /\ Behind(t) /\ Existing(t)

Records == \A t \in Tasks : Sound(t)

Marked == \A t \in Tasks : marker[t] \in {Unknown, memory[t]}

Reading == {"sign", "read", "check", "merge", "report"}

\* The attempt that the worker is at is over, and a later one has not been
\* synchronised.
Later(r) == MemorySource(r) /\ r.attempt # worker.attempt => r.sync = "pending"

Overtaken ==
    LET t == worker.task IN
    /\ worker.attempt > 0 /\ worker.attempt <= task[t].attempt
    /\ worker.attempt = task[t].attempt => task[t].status \in {"result", "absent"}
    /\ Later(task[t]) /\ Later(disk[t])

\* What the worker has read is not newer than the checkpoint ...
ReadBehind ==
    LET t == worker.task IN
    /\ worker.pc \in {"read", "check"} => worker.signature > 0
    /\ worker.pc = "read" =>
           task[t].status = "absent" \/ worker.signature <= checkpoint[t]
    /\ worker.pc = "check" => worker.signature <= worker.entries
    /\ worker.pc \in {"check", "merge"} =>
           task[t].status = "absent" \/ worker.entries <= checkpoint[t]
    /\ worker.pc = "merge" /\ worker.stable => worker.entries = worker.signature

\* ... and the same while the attempt is.
Current ==
    LET t == worker.task IN
    Mine(worker) =>
        /\ worker.pc = "read" => worker.signature = checkpoint[t]
        /\ worker.pc \in {"check", "merge"} => worker.entries = checkpoint[t]
        /\ worker.pc = "report" /\ worker.ok => memory[t] = checkpoint[t]

Held == worker.pc \in Reading => worker.task \in Tasks /\ Overtaken /\ ReadBehind /\ Current

Inv == TypeOK /\ Records /\ Marked /\ Held

-----------------------------------------------------------------------------
LEMMA Begins == Init => Inv
<1> SUFFICES ASSUME Init PROVE Inv
  OBVIOUS
<1>1. /\ \A t \in Tasks : /\ task[t] = [status |-> "absent", attempt |-> 0, sync |-> "none"]
                          /\ disk[t] = task[t]
                          /\ checkpoint[t] = 0 /\ memory[t] = 0
      /\ \A t \in Tasks : marker[t] = Unknown
      /\ worker.pc = "none"
  BY DEF Init, Nobody
<1>2. TypeOK
  <2>1. restarts \in 0..MaxRestarts
    BY BoundsAssumption DEF BoundsAssumption, Init
  <2>2. worker \in Worker
    BY DEF Init, Worker, Nobody
  <2>3. task \in [Tasks -> Record] /\ disk \in [Tasks -> Record]
    BY DEF Init, Record
  <2>4. pending \in [Tasks -> Entry]
    BY DEF Init, Entry, NoEntry
  <2> QED  BY <2>1, <2>2, <2>3, <2>4 DEF Init, TypeOK
<1>3. Records
  BY <1>1 DEF Records, Sound, TrueToFiles, Behind, Existing, MemorySource
<1> QED  BY <1>1, <1>2, <1>3 DEF Inv, Marked, Held, Reading

LEMMA RecordFacts ==
    ASSUME NEW r \in Record
    PROVE  /\ \A s \in {"absent", "queued", "running", "result", "failed", "stopped"} :
                  /\ [r EXCEPT !.status = s] \in Record
                  /\ \A y \in {"none", "pending", "synced"} :
                         [r EXCEPT !.status = s, !.sync = y] \in Record
           /\ \A y \in {"none", "pending", "synced"} : [r EXCEPT !.sync = y] \in Record
           /\ r.attempt \in Nat
BY DEF Record

\* The parts of the types that most proofs need.
LEMMA Typed ==
    ASSUME TypeOK
    PROVE  /\ \A t \in Tasks : /\ task[t] \in Record /\ disk[t] \in Record
                               /\ task[t].attempt \in Nat /\ disk[t].attempt \in Nat
                               /\ checkpoint[t] \in Nat /\ memory[t] \in Nat
                               /\ pending[t] \in Entry /\ pending[t].attempt \in Nat
           /\ worker \in Worker /\ worker.attempt \in Nat
           /\ worker.signature \in Nat /\ worker.entries \in Nat
           /\ worker.task \in Tasks \cup {NoTask}
BY DEF TypeOK, Record, Entry, Worker

\* What the worker holds of a task depends on nothing else but that task.
LEMMA HeldOfAnother ==
    ASSUME worker.task \in Tasks, Overtaken, ReadBehind, Current, UNCHANGED worker,
           UNCHANGED <<task[worker.task], checkpoint[worker.task], memory[worker.task]>>,
           disk'[worker.task] \in {task[worker.task], disk[worker.task]}
    PROVE  (Overtaken /\ ReadBehind /\ Current)'
BY DEF Overtaken, Later, ReadBehind, Current, Mine, MemorySource

\* One record changes, and maybe its checkpoint; the file may follow.
LEMMA OneChanges ==
    ASSUME Inv, TypeOK', NEW t \in Tasks,
           UNCHANGED <<worker, memory, marker>>,
           \A u \in Tasks \ {t} : /\ UNCHANGED <<task[u], checkpoint[u]>>
                                /\ disk'[u] \in {task[u], disk[u]},
           Sound(t)',
           worker.pc \in Reading /\ worker.task = t => (Overtaken /\ ReadBehind /\ Current)'
    PROVE  Inv'
<1>1. Records'
  <2> SUFFICES ASSUME NEW u \in Tasks, u # t PROVE Sound(u)'
    BY DEF Records
  <2>1. UNCHANGED <<task[u], checkpoint[u], memory[u]>> /\ disk'[u] \in {task[u], disk[u]}
    OBVIOUS
  <2>2. Sound(u)
    BY DEF Inv, Records
  <2> QED  BY <2>1, <2>2 DEF Sound, TrueToFiles, Behind, Existing, MemorySource
<1>2. Marked'
  BY DEF Inv, Marked
<1>3. Held'
  <2> SUFFICES ASSUME worker.pc \in Reading
               PROVE  worker.task \in Tasks /\ (Overtaken /\ ReadBehind /\ Current)'
    BY DEF Held, Reading
  <2>1. worker.task \in Tasks /\ Overtaken /\ ReadBehind /\ Current
    BY DEF Inv, Held
  <2>2. CASE worker.task # t
    <3>1. /\ UNCHANGED <<task[worker.task], checkpoint[worker.task], memory[worker.task]>>
          /\ disk'[worker.task] \in {task[worker.task], disk[worker.task]}
      BY <2>1, <2>2
    <3> QED  BY <2>1, <3>1, HeldOfAnother
  <2> QED  BY <2>1, <2>2
<1> QED  BY <1>1, <1>2, <1>3 DEF Inv

\* A strict save of one record, as the handlers do it.
LEMMA StrictKeeps ==
    ASSUME Inv, NEW t \in Tasks, NEW r \in Record, Strictly(t, r),
           calls' \subseteq Tasks, UNCHANGED <<memory, marker>>,
           \/ r.status # "absent" /\ r.attempt > 0 /\ UNCHANGED checkpoint
           \/ r.status = "absent" /\ checkpoint' = [checkpoint EXCEPT ![t] = 0],
           task[t].status = "absent" => task[t].attempt = 0,
           MemorySource(r) => MemorySource(task[t]) /\ r.sync = "pending",
           \/ r.attempt > task[t].attempt
           \/ r.attempt = task[t].attempt /\ r.status \in {"result", "absent"}
           \/ r.attempt = task[t].attempt /\ task[t].status \notin {"result", "absent"}
    PROVE  Inv'
<1>1. /\ task' = [task EXCEPT ![t] = r] /\ disk' = task'
      /\ UNCHANGED <<ending, pending, worker, closed, blocked, restarts>>
  BY DEF Strictly
<1>2. /\ task \in [Tasks -> Record] /\ checkpoint \in [Tasks -> Nat]
      /\ task[t].attempt \in Nat /\ r.attempt \in Nat
      /\ checkpoint[t] \in Nat /\ memory[t] \in Nat
  BY RecordFacts, Typed DEF Inv, TypeOK
<1>3. /\ task'[t] = r /\ disk'[t] = r
      /\ \A u \in Tasks \ {t} : /\ task'[u] = task[u] /\ disk'[u] = task[u]
                                /\ checkpoint'[u] = checkpoint[u]
      /\ r.status # "absent" => checkpoint'[t] = checkpoint[t]
      /\ r.status = "absent" => checkpoint'[t] = 0
  BY <1>1, <1>2
<1>4. TypeOK'
  <2>1. task' \in [Tasks -> Record] /\ disk' \in [Tasks -> Record]
        /\ checkpoint' \in [Tasks -> Nat]
    BY <1>1, <1>2
  <2> QED  BY <1>1, <2>1 DEF Inv, TypeOK
<1>5. Sound(t)'
  <2>1. Sound(t)
    BY DEF Inv, Records
  <2>2. TrueToFiles(task[t], t)' /\ TrueToFiles(disk[t], t)' /\ Behind(t)'
    BY <1>3 DEF TrueToFiles, Behind, MemorySource
  <2>3. Existing(t)'
    BY <1>2, <1>3, <2>1 DEF Sound, Existing
  <2> QED  BY <2>2, <2>3 DEF Sound
<1>6. ASSUME worker.pc \in Reading, worker.task = t
      PROVE  (Overtaken /\ ReadBehind /\ Current)'
  <2>1. /\ Overtaken /\ ReadBehind /\ Current
        /\ worker.attempt \in Nat /\ worker.attempt > 0 /\ worker.attempt <= task[t].attempt
        /\ task[t].status # "absent"
    BY <1>6, Typed, <1>2 DEF Inv, Held, Overtaken
  <2>2. Overtaken'
    <3>1. worker.attempt <= r.attempt
      BY <1>2, <2>1
    <3>2. worker.attempt = r.attempt => r.status \in {"result", "absent"}
      BY <1>2, <1>6, <2>1 DEF Overtaken
    <3> QED  BY <1>1, <1>3, <1>6, <2>1, <3>1, <3>2 DEF Overtaken, Later, MemorySource
  <2>3. ReadBehind'
    BY <1>1, <1>3, <1>6, <2>1 DEF ReadBehind
  <2>4. Current'
    <3> SUFFICES ASSUME Mine(worker)' PROVE Current'
      BY DEF Current
    <3>1. MemorySource(r) /\ r.attempt = worker.attempt /\ r.status # "absent"
      BY <1>1, <1>3, <1>6 DEF Mine, MemorySource
    <3>2. Mine(worker) /\ checkpoint'[t] = checkpoint[t]
      BY <1>2, <1>3, <1>6, <2>1, <3>1 DEF Mine, MemorySource
    <3> QED  BY <1>1, <1>6, <2>1, <3>2 DEF Current
  <2> QED  BY <2>2, <2>3, <2>4
<1> QED  BY <1>1, <1>3, <1>4, <1>5, <1>6, OneChanges

-----------------------------------------------------------------------------
(* What the handlers and the run of a task change. *)

LEMMA NextAttemptKeeps == ASSUME Inv, NEW t \in Tasks, NextAttempt(t) PROVE Inv'
<1> DEFINE r == [status |-> "queued", attempt |-> task[t].attempt + 1, sync |-> "none"]
<1>1. task[t].attempt \in Nat
  BY Typed DEF Inv
<1>2. /\ r \in Record /\ r.status = "queued" /\ r.attempt > task[t].attempt /\ r.attempt > 0
      /\ ~MemorySource(r)
  BY <1>1 DEF Record, MemorySource
<1>3. /\ Strictly(t, r) /\ calls' = calls /\ UNCHANGED <<checkpoint, memory, marker>>
      /\ task[t].status = "absent" => task[t].attempt = 0
  BY DEF NextAttempt, files
<1>4. calls' \subseteq Tasks
  BY <1>3 DEF Inv, TypeOK
<1> HIDE DEF r
<1> QED  BY <1>2, <1>3, <1>4, StrictKeeps

LEMMA ResumeKeeps == ASSUME Inv, NEW t \in Tasks, Resume(t) PROVE Inv'
<1> DEFINE r == [task[t] EXCEPT !.status = "queued", !.sync = "none"]
<1>1. task[t] \in Record /\ task[t].attempt \in Nat /\ Existing(t)
  BY Typed DEF Inv, Records, Sound
<1>2. r \in Record /\ r.status = "queued" /\ r.attempt = task[t].attempt /\ ~MemorySource(r)
  BY <1>1 DEF Record, MemorySource
<1>3. /\ Strictly(t, r) /\ calls' = calls /\ UNCHANGED <<checkpoint, memory, marker>>
      /\ task[t].status = "stopped"
  BY DEF Resume, files
<1>4. calls' \subseteq Tasks /\ r.attempt > 0
  BY <1>1, <1>2, <1>3 DEF Inv, TypeOK, Existing
<1> HIDE DEF r
<1> QED  BY <1>2, <1>3, <1>4, StrictKeeps

LEMMA DeleteKeeps == ASSUME Inv, NEW t \in Tasks, Delete(t) PROVE Inv'
<1> DEFINE r == [task[t] EXCEPT !.status = "absent", !.sync = "none"]
<1>1. task[t] \in Record
  BY Typed DEF Inv
<1>2. r \in Record /\ r.status = "absent" /\ r.attempt = task[t].attempt /\ ~MemorySource(r)
  BY <1>1 DEF Record, MemorySource
<1>3. /\ Strictly(t, r) /\ calls' = calls /\ UNCHANGED <<memory, marker>>
      /\ checkpoint' = [checkpoint EXCEPT ![t] = 0]
      /\ task[t].status # "absent"
  BY DEF Delete, Deletable
<1>4. calls' \subseteq Tasks
  BY <1>3 DEF Inv, TypeOK
<1> HIDE DEF r
<1> QED  BY <1>2, <1>3, <1>4, StrictKeeps

LEMMA RetryKeeps == ASSUME Inv, NEW t \in Tasks, RetryMemorySync(t) PROVE Inv'
<1> DEFINE r == [task[t] EXCEPT !.sync = "pending"]
<1>1. task[t] \in Record /\ task[t].attempt \in Nat /\ Existing(t)
  BY Typed DEF Inv, Records, Sound
<1>2. /\ Strictly(t, r) /\ calls' = calls \cup {t} /\ UNCHANGED <<checkpoint, memory, marker>>
      /\ MemorySource(task[t]) /\ task[t].status = "result"
  BY DEF RetryMemorySync, files, MemorySource
<1>3. /\ r \in Record /\ r.status = "result" /\ r.attempt = task[t].attempt
      /\ r.sync = "pending"
  BY <1>1, <1>2 DEF Record
<1>4. calls' \subseteq Tasks /\ r.attempt > 0
  BY <1>1, <1>2, <1>3 DEF Inv, TypeOK, Existing
<1> HIDE DEF r
<1> QED  BY <1>2, <1>3, <1>4, StrictKeeps

\* A run that cannot be saved as running has failed.
LEMMA StartKeeps == ASSUME Inv, NEW t \in Tasks, Start(t) PROVE Inv'
<1>1. /\ task[t] \in Record /\ task[t].attempt \in Nat /\ Sound(t)
      /\ task[t].status = "queued" /\ calls' = calls /\ calls \subseteq Tasks
      /\ UNCHANGED <<checkpoint, memory, marker>>
      /\ task \in [Tasks -> Record]
  BY Typed DEF Inv, TypeOK, Records, Start, files
<1>2. CASE Strictly(t, [task[t] EXCEPT !.status = "running"])
  <2> DEFINE r == [task[t] EXCEPT !.status = "running"]
  <2>1. /\ r \in Record /\ r.status = "running" /\ r.attempt = task[t].attempt
        /\ ~MemorySource(r)
    BY <1>1 DEF Record, MemorySource
  <2>2. r.attempt > 0
    BY <1>1, <2>1 DEF Sound, Existing
  <2>3. Strictly(t, r)
    BY <1>2
  <2> HIDE DEF r
  <2> QED  BY <1>1, <2>1, <2>2, <2>3, StrictKeeps
<1>3. CASE /\ task' = [task EXCEPT ![t].status = "failed"]
           /\ UNCHANGED <<disk, ending, pending, worker, closed, blocked, restarts>>
  <2>1. /\ task'[t] = [task[t] EXCEPT !.status = "failed"]
        /\ task'[t].status = "failed" /\ task'[t].attempt = task[t].attempt
        /\ task'[t] \in Record
        /\ \A u \in Tasks \ {t} : task'[u] = task[u]
    <3>1. task'[t] = [task[t] EXCEPT !.status = "failed"]
      BY <1>1, <1>3
    <3> QED  BY <1>1, <1>3, <3>1 DEF Record
  <2>2. TypeOK'
    <3>1. task' \in [Tasks -> Record]
      BY <1>1, <1>3, <2>1
    <3> QED  BY <1>1, <1>3, <3>1 DEF Inv, TypeOK
  <2>3. Sound(t)'
    BY <1>1, <1>3, <2>1 DEF Sound, TrueToFiles, Behind, Existing, MemorySource
  <2>4. ASSUME worker.pc \in Reading, worker.task = t
        PROVE  (Overtaken /\ ReadBehind /\ Current)'
    <3>1. Overtaken /\ ReadBehind /\ worker.attempt # task[t].attempt
      BY <1>1, <2>4 DEF Inv, Held, Overtaken
    <3>2. disk[t].attempt = task[t].attempt /\ ~MemorySource(disk[t])
      BY <1>1 DEF Sound, Behind, MemorySource
    <3>3. Overtaken'
      BY <1>3, <2>1, <2>4, <3>1, <3>2 DEF Overtaken, Later, MemorySource
    <3>4. ReadBehind'
      BY <1>1, <1>3, <2>1, <2>4, <3>1 DEF ReadBehind
    <3>5. Current'
      BY <1>3, <2>1, <2>4 DEF Current, Mine, MemorySource
    <3> QED  BY <3>3, <3>4, <3>5
  <2> QED  BY <1>1, <1>3, <2>1, <2>2, <2>3, <2>4, OneChanges
<1> QED  BY <1>2, <1>3 DEF Start

LEMMA CommitKeeps == ASSUME Inv, NEW t \in Tasks, Commit(t) PROVE Inv'
<1>1. /\ Sound(t) /\ task[t].status = "running" /\ checkpoint \in [Tasks -> Nat]
      /\ checkpoint[t] \in Nat /\ memory[t] \in Nat /\ task[t].attempt \in Nat
      /\ checkpoint' = [checkpoint EXCEPT ![t] = @ + 1]
      /\ UNCHANGED <<task, disk, ending, calls, pending, worker, memory, marker, closed,
                     blocked, restarts>>
  BY Typed DEF Inv, TypeOK, Records, Commit, records
<1>2. /\ checkpoint'[t] = checkpoint[t] + 1
      /\ \A u \in Tasks \ {t} : checkpoint'[u] = checkpoint[u]
  BY <1>1
<1>3. TypeOK'
  <2>1. checkpoint' \in [Tasks -> Nat]
    BY <1>1
  <2> QED  BY <1>1, <2>1 DEF Inv, TypeOK
<1>4. Sound(t)'
  <2>1. memory[t] <= checkpoint[t] + 1
    BY <1>1 DEF Sound, Existing
  <2> QED  BY <1>1, <1>2, <2>1 DEF Sound, TrueToFiles, Behind, Existing, MemorySource
<1>5. ASSUME worker.pc \in Reading, worker.task = t
      PROVE  (Overtaken /\ ReadBehind /\ Current)'
  <2>1. /\ Overtaken /\ ReadBehind /\ worker.signature \in Nat /\ worker.entries \in Nat
    BY <1>5, Typed DEF Inv, Held
  <2>2. Overtaken' /\ Current'
    BY <1>1, <1>5, <2>1 DEF Overtaken, Later, Current, Mine, MemorySource
  <2>3. /\ worker.signature <= checkpoint[t] => worker.signature <= checkpoint[t] + 1
        /\ worker.entries <= checkpoint[t] => worker.entries <= checkpoint[t] + 1
    BY <1>1, <2>1
  <2>4. ReadBehind'
    BY <1>1, <1>2, <1>5, <2>1, <2>3 DEF ReadBehind
  <2> QED  BY <2>2, <2>4
<1> QED  BY <1>1, <1>2, <1>3, <1>4, <1>5, OneChanges

LEMMA ConcludeKeeps ==
    ASSUME Inv, NEW t \in Tasks, NEW status \in {"result", "failed", "stopped"},
           Conclude(t, status)
    PROVE  Inv'
<1> DEFINE sync == IF status = "result" THEN "pending" ELSE task[t].sync
<1>1. /\ Sound(t) /\ task[t].status = "running" /\ task[t] \in Record
      /\ task[t].attempt \in Nat /\ task \in [Tasks -> Record]
      /\ task' = [task EXCEPT ![t].status = status, ![t].sync = sync]
      /\ ending' = t
      /\ UNCHANGED <<disk, calls, pending, worker, checkpoint, memory, marker, closed,
                     blocked, restarts>>
  BY Typed DEF Inv, TypeOK, Records, Conclude, files
<1>2. /\ task'[t] = [task[t] EXCEPT !.status = status, !.sync = sync]
      /\ task'[t].status = status /\ task'[t].attempt = task[t].attempt
      /\ status = "result" => task'[t].sync = "pending"
      /\ \A u \in Tasks \ {t} : task'[u] = task[u]
  BY <1>1 DEF Record
<1>3. TypeOK'
  <2>1. sync \in {"none", "pending", "synced"}
    BY <1>1 DEF Record
  <2>2. task'[t] \in Record
    BY <1>1, <1>2, <2>1, RecordFacts
  <2>3. task' \in [Tasks -> Record]
    BY <1>1, <1>2, <2>2
  <2> QED  BY <1>1, <2>3 DEF Inv, TypeOK
<1> HIDE DEF sync
<1>4. Sound(t)'
  BY <1>1, <1>2 DEF Sound, TrueToFiles, Behind, Existing, MemorySource
<1>5. ASSUME worker.pc \in Reading, worker.task = t
      PROVE  (Overtaken /\ ReadBehind /\ Current)'
  <2>1. Overtaken /\ ReadBehind /\ worker.attempt # task[t].attempt
    BY <1>1, <1>5 DEF Inv, Held, Overtaken
  <2>2. ~MemorySource(disk[t])
    BY <1>1 DEF Sound, Behind, MemorySource
  <2>3. Overtaken'
    BY <1>1, <1>2, <1>5, <2>1, <2>2 DEF Overtaken, Later, MemorySource
  <2>4. ReadBehind'
    BY <1>1, <1>2, <1>5, <2>1 DEF ReadBehind
  <2>5. Current'
    BY <1>1, <1>2, <1>5, <2>1 DEF Current, Mine
  <2> QED  BY <2>3, <2>4, <2>5
<1> QED  BY <1>1, <1>2, <1>3, <1>4, <1>5, OneChanges

-----------------------------------------------------------------------------
(* What the saves, the schedule and the worker change. *)

\* A step that touches neither records nor files leaves what is true of them.
LEMMA RecordsStay ==
    ASSUME Inv, UNCHANGED <<task, checkpoint, memory, marker>>,
           disk' = disk \/ disk' = task
    PROVE  Records' /\ Marked'
<1>1. Records'
  <2> SUFFICES ASSUME NEW t \in Tasks PROVE Sound(t)'
    BY DEF Records
  <2>1. Sound(t) /\ disk'[t] \in {task[t], disk[t]}
    BY DEF Inv, Records
  <2> QED  BY <2>1 DEF Sound, TrueToFiles, Behind, Existing, MemorySource
<1> QED  BY <1>1 DEF Inv, Marked

\* ... and what is held by a worker that does not move.
LEMMA HeldStays ==
    ASSUME Inv, UNCHANGED <<task, checkpoint, memory, worker>>, disk' = disk \/ disk' = task
    PROVE  Held'
<1> SUFFICES ASSUME worker.pc \in Reading
             PROVE  worker.task \in Tasks /\ (Overtaken /\ ReadBehind /\ Current)'
  BY DEF Held, Reading
<1>1. worker.task \in Tasks /\ Overtaken /\ ReadBehind /\ Current
  BY DEF Inv, Held
<1>2. disk'[worker.task] \in {task[worker.task], disk[worker.task]}
  OBVIOUS
<1> QED  BY <1>1, <1>2, HeldOfAnother

LEMMA SaveEndingKeeps == ASSUME Inv, SaveEnding PROVE Inv'
<1>1. /\ ending' = NoTask /\ calls' \subseteq calls \cup {ending} /\ ending \in Tasks
      /\ UNCHANGED <<task, pending, worker, checkpoint, memory, marker, closed, restarts>>
      /\ disk' = disk \/ disk' = task
      /\ blocked' \in BOOLEAN
  BY DEF Inv, TypeOK, SaveEnding, Written, files
<1>2. TypeOK'
  BY <1>1 DEF Inv, TypeOK
<1> QED  BY <1>1, <1>2, RecordsStay, HeldStays DEF Inv

\* A worker is started: it holds nothing yet.
LEMMA ScheduleKeeps == ASSUME Inv, NEW t \in Tasks, Schedule(t) PROVE Inv'
<1>1. /\ calls' = calls \ {t} /\ worker' \in {worker, Idle}
      /\ pending' = pending \/ pending' = [pending EXCEPT ![t] = Due(t)]
      /\ UNCHANGED <<task, disk, ending, checkpoint, memory, marker, closed, blocked, restarts>>
  BY DEF Schedule, records, files
<1>2. TypeOK'
  <2>1. Due(t) \in Entry
    BY Typed DEF Inv, Due, Entry
  <2>2. Idle \in Worker
    BY DEF Idle, Nobody, Worker
  <2>3. pending' \in [Tasks -> Entry]
    BY <1>1, <2>1 DEF Inv, TypeOK
  <2> QED  BY <1>1, <2>2, <2>3 DEF Inv, TypeOK
<1>3. Idle.pc \notin Reading
  BY DEF Idle, Nobody, Reading
<1>4. Held'
  <2>1. CASE worker' = worker
    BY <1>1, <2>1, HeldStays
  <2>2. CASE worker' = Idle
    BY <1>3, <2>2 DEF Held, Reading
  <2> QED  BY <1>1, <2>1, <2>2
<1> QED  BY <1>1, <1>2, <1>4, RecordsStay DEF Inv

LEMMA TickKeeps == ASSUME Inv, NEW t \in Tasks, Tick(t) PROVE Inv'
<1>1. /\ pending' = [pending EXCEPT ![t].due = TRUE]
      /\ UNCHANGED <<task, disk, ending, calls, worker, checkpoint, memory, marker, closed,
                     blocked, restarts>>
  BY DEF Tick, records, files
<1>2. TypeOK'
  <2>1. pending' \in [Tasks -> Entry]
    BY <1>1 DEF Inv, TypeOK, Entry
  <2> QED  BY <1>1, <2>1 DEF Inv, TypeOK
<1> QED  BY <1>1, <1>2, RecordsStay, HeldStays DEF Inv

\* A worker that steps and changes neither records nor files.
LEMMA WorkerKeeps ==
    ASSUME Inv, NEW w \in Worker, worker' = w, pending' \in [Tasks -> Entry],
           blocked' \in BOOLEAN, disk' = disk \/ disk' = task,
           UNCHANGED <<task, ending, calls, checkpoint, memory, marker, closed, restarts>>,
           w.pc \in Reading =>
               w.task \in Tasks /\ Overtaken' /\ ReadBehind' /\ Current'
    PROVE  Inv'
<1>1. TypeOK'
  BY DEF Inv, TypeOK
<1>2. Held'
  BY DEF Held, Reading
<1> QED  BY <1>1, <1>2, RecordsStay DEF Inv

LEMMA WorkerTypes ==
    /\ Idle \in Worker /\ Nobody \in Worker
    /\ Idle.pc \notin Reading /\ Nobody.pc \notin Reading
    /\ [Idle EXCEPT !.pc = "save"] \in Worker /\ [Idle EXCEPT !.pc = "save"].pc \notin Reading
BY DEF Idle, Nobody, Worker, Reading

\* Leaving, and the save after the report.
LEMMA LeaveKeeps == ASSUME Inv, Leave PROVE Inv'
<1>1. /\ worker' = Nobody /\ pending' = pending /\ blocked' = blocked /\ disk' = disk
      /\ UNCHANGED <<task, ending, calls, checkpoint, memory, marker, closed, restarts>>
  BY DEF Leave, Works, records, files
<1>2. pending' \in [Tasks -> Entry] /\ blocked' \in BOOLEAN
  BY <1>1 DEF Inv, TypeOK
<1> QED  BY <1>1, <1>2, WorkerTypes, WorkerKeeps

LEMMA SaveKeeps == ASSUME Inv, Save PROVE Inv'
<1>1. /\ worker' = Idle /\ pending' = pending /\ (disk' = disk \/ disk' = task)
      /\ blocked' = blocked \/ blocked' = TRUE
      /\ UNCHANGED <<task, ending, calls, checkpoint, memory, marker, closed, restarts>>
  BY DEF Save, Works, Written, files
<1>2. pending' \in [Tasks -> Entry] /\ blocked' \in BOOLEAN
  BY <1>1 DEF Inv, TypeOK
<1> QED  BY <1>1, <1>2, WorkerTypes, WorkerKeeps

\* The worker takes a task whose attempt is over.
LEMMA TakeKeeps == ASSUME Inv, NEW t \in Tasks, Take(t) PROVE Inv'
<1> DEFINE w == [Idle EXCEPT !.pc = "sign", !.task = t, !.attempt = pending[t].attempt]
<1>1. /\ worker' = IF Mine(w) THEN w ELSE Idle
      /\ pending' = [pending EXCEPT ![t] = NoEntry]
      /\ UNCHANGED <<task, disk, ending, calls, checkpoint, memory, marker, closed, blocked,
                     restarts>>
  BY DEF Take, Works, records, files
<1>2. pending' \in [Tasks -> Entry] /\ blocked' \in BOOLEAN
  <2>1. NoEntry \in Entry
    BY DEF NoEntry, Entry
  <2> QED  BY <1>1, <2>1 DEF Inv, TypeOK
<1>3. w \in Worker /\ w.pc = "sign" /\ w.task = t /\ w.attempt = pending[t].attempt
  BY Typed DEF Inv, Idle, Nobody, Worker
<1> HIDE DEF w
<1>4. CASE ~Mine(w)
  BY <1>1, <1>2, <1>4, WorkerTypes, WorkerKeeps
<1>5. CASE Mine(w)
  <2>1. /\ worker' = w /\ task[t].status = "result" /\ task[t].attempt = w.attempt
        /\ Sound(t) /\ task[t].attempt \in Nat
    BY <1>1, <1>3, <1>5, Typed DEF Mine, MemorySource, Inv, Records
  <2>2. Overtaken'
    <3>1. task[t].attempt > 0 /\ disk[t].attempt = task[t].attempt
      BY <2>1 DEF Sound, Behind, Existing
    <3>2. w.attempt > 0 /\ w.attempt <= task[t].attempt
      BY <2>1, <3>1
    <3> QED  BY <1>1, <1>3, <2>1, <3>1, <3>2 DEF Overtaken, Later, MemorySource
  <2>3. ReadBehind' /\ Current'
    BY <1>3, <2>1 DEF ReadBehind, Current
  <2> QED  BY <1>1, <1>2, <1>3, <2>1, <2>2, <2>3, WorkerKeeps
<1> QED  BY <1>4, <1>5

\* The worker goes on with the same task and attempt: it is not held up by what
\* has happened to them.
LEMMA StillOvertaken ==
    ASSUME Overtaken, worker'.task = worker.task, worker'.attempt = worker.attempt,
           UNCHANGED <<task, disk>>
    PROVE  Overtaken'
BY DEF Overtaken, Later, MemorySource

LEMMA OutcomeTypes ==
    ASSUME worker \in Worker, NEW ok \in BOOLEAN
    PROVE  /\ Outcome(ok) \in Worker
           /\ Outcome(ok).pc = "report" /\ Outcome(ok).ok = ok
           /\ Outcome(ok).task = worker.task /\ Outcome(ok).attempt = worker.attempt
BY DEF Outcome, Worker

\* The worker reports that it has failed.
LEMMA FailureKeeps ==
    ASSUME Inv, worker.pc \in Reading, worker' = Outcome(FALSE),
           UNCHANGED <<task, disk, ending, calls, pending, checkpoint, memory, marker, closed,
                       blocked, restarts>>
    PROVE  Inv'
<1>1. worker.task \in Tasks /\ Overtaken /\ worker \in Worker
  BY DEF Inv, TypeOK, Held
<1>2. /\ Outcome(FALSE) \in Worker
      /\ Outcome(FALSE).pc = "report" /\ Outcome(FALSE).ok = FALSE
      /\ Outcome(FALSE).task = worker.task /\ Outcome(FALSE).attempt = worker.attempt
  BY <1>1, OutcomeTypes
<1>3. Overtaken'
  BY <1>1, <1>2, StillOvertaken
<1>4. ReadBehind' /\ Current'
  BY <1>2 DEF ReadBehind, Current
<1>5. pending' \in [Tasks -> Entry] /\ blocked' \in BOOLEAN
  BY DEF Inv, TypeOK
<1> QED  BY <1>1, <1>2, <1>3, <1>4, <1>5, WorkerKeeps

LEMMA FailKeeps == ASSUME Inv, Fail PROVE Inv'
BY FailureKeeps DEF Fail, Works, Reading, records, files

LEMMA SignKeeps == ASSUME Inv, Sign PROVE Inv'
<1> DEFINE t == worker.task
<1> DEFINE s == checkpoint[t]
<1> DEFINE w == [worker EXCEPT !.pc = "read", !.signature = s]
<1>1. /\ worker.pc = "sign"
      /\ worker' = IF s \in {0, marker[t]} THEN Outcome(TRUE) ELSE w
      /\ UNCHANGED <<task, disk, ending, calls, pending, checkpoint, memory, marker, closed,
                     blocked, restarts>>
  BY DEF Sign, Works, records, files
<1>2. t \in Tasks /\ Overtaken /\ worker \in Worker /\ Sound(t)
  BY <1>1 DEF Inv, TypeOK, Held, Reading, Records
<1>3. s \in Nat /\ memory[t] \in Nat /\ marker[t] \in {Unknown, memory[t]} /\ Unknown \notin Nat
  BY <1>2, Typed, UnknownAssumption DEF Inv, Marked, UnknownAssumption
<1>4. pending' \in [Tasks -> Entry] /\ blocked' \in BOOLEAN
  BY <1>1 DEF Inv, TypeOK
<1>5. CASE s \in {0, marker[t]}
  <2>1. /\ Outcome(TRUE) \in Worker /\ Outcome(TRUE).pc = "report"
        /\ Outcome(TRUE).task = t /\ Outcome(TRUE).attempt = worker.attempt
        /\ worker' = Outcome(TRUE)
    BY <1>1, <1>2, <1>5, OutcomeTypes
  <2>2. Overtaken' /\ ReadBehind'
    BY <1>1, <1>2, <2>1, StillOvertaken DEF ReadBehind
  <2>3. task[t].status = "result" => memory[t] = checkpoint[t]
    <3>1. CASE s = 0
      BY <1>2, <1>3, <3>1 DEF Sound, Existing
    <3>2. CASE s = marker[t]
      BY <1>3, <3>2
    <3> QED  BY <1>5, <3>1, <3>2
  <2>4. Current'
    <3>1. worker'.pc = "report" /\ worker'.task = t /\ UNCHANGED <<task, memory, checkpoint>>
      BY <1>1, <2>1
    <3> HIDE DEF w
    <3> QED  BY <2>3, <3>1 DEF Current, Mine, MemorySource
  <2>5. /\ UNCHANGED <<task, disk, ending, calls, checkpoint, memory, marker, closed, restarts>>
        /\ Outcome(TRUE).task \in Tasks
    BY <1>1, <1>2, <2>1
  <2> QED  BY <1>4, <2>1, <2>2, <2>4, <2>5, WorkerKeeps
<1>6. CASE s \notin {0, marker[t]}
  <2>1. s > 0
    BY <1>3, <1>6
  <2>2. /\ w \in Worker /\ w.pc = "read" /\ w.task = t /\ w.attempt = worker.attempt
        /\ w.signature = s
    BY <1>2, <1>3 DEF Worker
  <2>3. worker' = w
    BY <1>1, <1>6
  <2> HIDE DEF w
  <2>4. Overtaken'
    BY <1>1, <1>2, <2>2, <2>3, StillOvertaken
  <2>5. s <= s
    BY <1>3
  <2>6. ReadBehind' /\ Current'
    BY <1>1, <2>1, <2>2, <2>3, <2>5 DEF ReadBehind, Current
  <2> QED  BY <1>1, <1>2, <1>4, <2>2, <2>3, <2>4, <2>6, WorkerKeeps
<1> QED  BY <1>5, <1>6

LEMMA ReadKeeps == ASSUME Inv, Read PROVE Inv'
<1> DEFINE t == worker.task
<1> DEFINE s == checkpoint[t]
<1> DEFINE w == [worker EXCEPT !.pc = "check", !.entries = s]
<1>1. /\ worker.pc = "read"
      /\ worker' = IF s = 0 THEN Outcome(FALSE) ELSE w
      /\ UNCHANGED <<task, disk, ending, calls, pending, checkpoint, memory, marker, closed,
                     blocked, restarts>>
  BY DEF Read, Works, records, files
<1>2. /\ t \in Tasks /\ Overtaken /\ ReadBehind /\ Current /\ worker \in Worker
      /\ Existing(t) /\ s \in Nat
  BY <1>1, Typed DEF Inv, TypeOK, Held, Reading, Records, Sound
<1>3. CASE s = 0
  BY <1>1, <1>3, FailureKeeps DEF Reading
<1>4. CASE s # 0
  <2>1. /\ w \in Worker /\ w.pc = "check" /\ w.task = t /\ w.attempt = worker.attempt
        /\ w.entries = s /\ w.signature = worker.signature
        /\ worker' = w
    BY <1>1, <1>2, <1>4 DEF Worker
  <2>2. pending' \in [Tasks -> Entry] /\ blocked' \in BOOLEAN
    BY <1>1 DEF Inv, TypeOK
  <2> HIDE DEF w
  <2>3. worker.signature > 0 /\ worker.signature <= s
    BY <1>1, <1>2, <1>4 DEF ReadBehind, Existing
  <2>4. Overtaken'
    BY <1>1, <1>2, <2>1, StillOvertaken
  <2>5. s <= s
    BY <1>2
  <2>6. ReadBehind' /\ Current'
    BY <1>1, <2>1, <2>3, <2>5 DEF ReadBehind, Current
  <2> QED  BY <1>1, <1>2, <2>1, <2>2, <2>4, <2>6, WorkerKeeps
<1> QED  BY <1>3, <1>4

LEMMA CheckKeeps == ASSUME Inv, Check PROVE Inv'
<1> DEFINE t == worker.task
<1> DEFINE w == [worker EXCEPT !.pc = "merge", !.stable = Stable(worker)]
<1>1. /\ worker.pc = "check" /\ worker' = w
      /\ UNCHANGED <<task, disk, ending, calls, pending, checkpoint, memory, marker, closed,
                     blocked, restarts>>
  BY DEF Check, Works, records, files
<1>2. /\ t \in Tasks /\ Overtaken /\ ReadBehind /\ Current /\ worker \in Worker
      /\ Existing(t) /\ checkpoint[t] \in Nat
      /\ worker.signature \in Nat /\ worker.entries \in Nat
  BY <1>1, Typed DEF Inv, TypeOK, Held, Reading, Records, Sound
<1>3. /\ w \in Worker /\ w.pc = "merge" /\ w.task = t /\ w.attempt = worker.attempt
      /\ w.entries = worker.entries /\ w.signature = worker.signature
      /\ w.stable = (worker.signature = checkpoint[t])
  BY <1>2 DEF Worker, Stable
<1>4. pending' \in [Tasks -> Entry] /\ blocked' \in BOOLEAN
  BY <1>1 DEF Inv, TypeOK
<1> HIDE DEF w
<1>5. Overtaken'
  BY <1>1, <1>2, <1>3, StillOvertaken
<1>6. ReadBehind'
  <2>1. worker.signature = checkpoint[t] => worker.entries = worker.signature
    BY <1>1, <1>2 DEF ReadBehind, Existing
  <2>2. task[t].status = "absent" \/ worker.entries <= checkpoint[t]
    BY <1>1, <1>2 DEF ReadBehind
  <2> QED  BY <1>1, <1>3, <2>1, <2>2 DEF ReadBehind
<1>7. Current'
  <2>1. Mine(worker) => worker.entries = checkpoint[t]
    BY <1>1, <1>2 DEF Current
  <2> QED  BY <1>1, <1>3, <2>1 DEF Current, Mine, MemorySource
<1> QED  BY <1>1, <1>2, <1>3, <1>4, <1>5, <1>6, <1>7, WorkerKeeps

\* What is merged is the checkpoint of the task, unless a later attempt is there:
\* and then it still has to be synchronised.
LEMMA MergeKeeps == ASSUME Inv, Merge PROVE Inv'
<1> DEFINE t == worker.task
<1> DEFINE w == Outcome(TRUE)
<1>1. /\ worker.pc = "merge" /\ worker' = w
      /\ memory' = [memory EXCEPT ![t] = worker.entries]
      /\ marker' = [marker EXCEPT ![t] = IF worker.stable THEN worker.signature ELSE Unknown]
      /\ UNCHANGED <<task, disk, ending, calls, pending, checkpoint, closed, blocked, restarts>>
  BY DEF Merge, Works, records, files
<1>2. /\ t \in Tasks /\ Overtaken /\ ReadBehind /\ Current /\ worker \in Worker
      /\ Sound(t) /\ checkpoint[t] \in Nat /\ task[t].attempt \in Nat
      /\ worker.signature \in Nat /\ worker.entries \in Nat /\ worker.attempt \in Nat
  BY <1>1, Typed DEF Inv, TypeOK, Held, Reading, Records
<1>3. /\ w \in Worker /\ w.pc = "report" /\ w.task = t /\ w.attempt = worker.attempt
      /\ w.ok = TRUE
  BY <1>2, OutcomeTypes
<1> HIDE DEF w
<1>4. /\ memory'[t] = worker.entries
      /\ marker'[t] \in {Unknown, worker.entries}
      /\ \A u \in Tasks \ {t} : memory'[u] = memory[u] /\ marker'[u] = marker[u]
  <2>1. worker.stable => worker.entries = worker.signature
    BY <1>1, <1>2 DEF ReadBehind
  <2>2. memory \in [Tasks -> Nat] /\ marker \in [Tasks -> Nat \cup {Unknown}]
    BY DEF Inv, TypeOK
  <2> QED  BY <1>1, <1>2, <2>1, <2>2
<1>5. TypeOK'
  <2>1. memory' \in [Tasks -> Nat] /\ marker' \in [Tasks -> Nat \cup {Unknown}]
    BY <1>1, <1>2 DEF Inv, TypeOK
  <2> QED  BY <1>1, <1>3, <2>1 DEF Inv, TypeOK
<1>6. Records'
  <2> SUFFICES ASSUME NEW u \in Tasks PROVE Sound(u)'
    BY DEF Records
  <2>1. CASE u # t
    <3>1. Sound(u) /\ UNCHANGED <<task[u], disk[u], checkpoint[u], memory[u]>>
      BY <1>1, <1>4, <2>1 DEF Inv, Records
    <3> QED  BY <3>1 DEF Sound, TrueToFiles, Behind, Existing, MemorySource
  <2>2. CASE u = t
    <3>1. TrueToFiles(task[u], u)'
      <4>1. CASE task[t].attempt = worker.attempt
        <5>1. MemorySource(task[t]) => worker.entries = checkpoint[t]
          BY <1>1, <1>2, <4>1 DEF Current, Mine
        <5> QED  BY <1>1, <1>2, <1>4, <2>2, <5>1 DEF Sound, TrueToFiles, MemorySource
      <4>2. CASE task[t].attempt # worker.attempt
        BY <1>1, <1>2, <2>2, <4>2 DEF Overtaken, Later, TrueToFiles, MemorySource
      <4> QED  BY <4>1, <4>2
    <3>2. TrueToFiles(disk[u], u)'
      <4>1. /\ MemorySource(disk[t]) => MemorySource(task[t])
            /\ disk[t].attempt = task[t].attempt
        BY <1>2 DEF Sound, Behind
      <4>2. CASE task[t].attempt = worker.attempt
        <5>1. MemorySource(disk[t]) => worker.entries = checkpoint[t]
          BY <1>1, <1>2, <4>1, <4>2 DEF Current, Mine
        <5> QED  BY <1>1, <1>2, <1>4, <2>2, <5>1 DEF Sound, TrueToFiles, MemorySource
      <4>3. CASE task[t].attempt # worker.attempt
        BY <1>1, <1>2, <2>2, <4>1, <4>3 DEF Overtaken, Later, TrueToFiles, MemorySource
      <4> QED  BY <4>2, <4>3
    <3>3. Behind(u)'
      BY <1>1, <1>2, <2>2 DEF Sound, Behind, MemorySource
    <3>4. Existing(u)'
      <4>1. task[t].attempt > 0
        BY <1>2 DEF Overtaken
      <4>2. task[t].status = "absent" \/ worker.entries <= checkpoint[t]
        BY <1>1, <1>2 DEF ReadBehind
      <4>3. task[t].status = "absent" => checkpoint[t] = 0
        BY <1>2 DEF Sound, Existing
      <4> QED  BY <1>1, <1>2, <1>4, <2>2, <4>1, <4>2, <4>3 DEF Existing
    <3> QED  BY <3>1, <3>2, <3>3, <3>4 DEF Sound
  <2> QED  BY <2>1, <2>2
<1>7. Marked'
  BY <1>4 DEF Inv, Marked
<1>8. Held'
  <2>1. Overtaken'
    BY <1>1, <1>2, <1>3, StillOvertaken
  <2>2. ReadBehind'
    BY <1>1, <1>3 DEF ReadBehind
  <2>3. Current'
    <3>1. Mine(worker) => worker.entries = checkpoint[t]
      BY <1>1, <1>2 DEF Current
    <3> QED  BY <1>1, <1>3, <1>4, <3>1 DEF Current, Mine, MemorySource
  <2> QED  BY <1>1, <1>2, <1>3, <2>1, <2>2, <2>3 DEF Held
<1> QED  BY <1>5, <1>6, <1>7, <1>8 DEF Inv

\* The report says what is so.
LEMMA ReportKeeps == ASSUME Inv, Report PROVE Inv'
<1> DEFINE t == worker.task
<1> DEFINE state == IF worker.ok THEN "synced" ELSE "pending"
<1>1. worker.pc = "report"
  BY DEF Report
<1>2. /\ t \in Tasks /\ Overtaken /\ Current /\ worker \in Worker
      /\ Sound(t) /\ task \in [Tasks -> Record] /\ worker.attempt \in Nat
  BY <1>1, Typed DEF Inv, TypeOK, Held, Reading, Records
<1>3. UNCHANGED <<disk, ending, calls, checkpoint, memory, marker, closed, blocked, restarts>>
  BY DEF Report, Works, files
<1>4. worker' \in {Idle, [Idle EXCEPT !.pc = "save"]}
  BY DEF Report, Works
<1>5. pending' \in [Tasks -> Entry]
  <2>1. [attempt |-> worker.attempt, due |-> FALSE] \in Entry
    BY <1>2 DEF Entry
  <2>2. Deferred(worker) \in [Tasks -> Entry]
    BY <1>2, <2>1 DEF Deferred, Inv, TypeOK
  <2>3. pending' \in {pending, Deferred(worker)}
    BY DEF Report
  <2> QED  BY <2>2, <2>3 DEF Inv, TypeOK
<1>6. /\ \A u \in Tasks \ {t} : task'[u] = task[u]
      /\ task'[t] = task[t] \/ /\ Mine(worker)
                               /\ task'[t] = [task[t] EXCEPT !.sync = state]
      /\ task' \in [Tasks -> Record]
  <2>1. [task[t] EXCEPT !.sync = state] \in Record
    BY <1>2 DEF Record
  <2>2. \/ task' = task
        \/ Mine(worker) /\ task' = [task EXCEPT ![t].sync = state]
        \/ task' = [task EXCEPT ![t].sync = @]
    BY DEF Report
  <2>3. [task EXCEPT ![t].sync = @] = task
    BY <1>2 DEF Record
  <2>4. CASE task' = task
    BY <1>2, <2>4
  <2>5. CASE Mine(worker) /\ task' = [task EXCEPT ![t].sync = state]
    BY <1>2, <2>1, <2>5
  <2> QED  BY <2>2, <2>3, <2>4, <2>5
<1>7. TypeOK'
  BY <1>3, <1>4, <1>5, <1>6, WorkerTypes DEF Inv, TypeOK
<1>8. Records'
  <2> SUFFICES ASSUME NEW u \in Tasks PROVE Sound(u)'
    BY DEF Records
  <2>1. Sound(u)
    BY DEF Inv, Records
  <2>2. CASE task'[u] = task[u]
    BY <1>3, <2>1, <2>2 DEF Sound, TrueToFiles, Behind, Existing, MemorySource
  <2>3. CASE u = t /\ Mine(worker) /\ task'[t] = [task[t] EXCEPT !.sync = state]
    <3>1. task'[t].status = task[t].status /\ task'[t].attempt = task[t].attempt
          /\ task'[t].sync = state
      BY <1>2, <2>3 DEF Record
    <3>2. state = "synced" => memory[t] = checkpoint[t]
      BY <1>1, <1>2, <2>3 DEF Current
    <3>3. state # "none"
      OBVIOUS
    <3> HIDE DEF state
    <3> QED  BY <1>3, <2>1, <2>3, <3>1, <3>2, <3>3
             DEF Sound, TrueToFiles, Behind, Existing, MemorySource
  <2> QED  BY <1>6, <2>2, <2>3
<1>9. Marked' /\ Held'
  BY <1>3, <1>4, WorkerTypes DEF Inv, Marked, Held, Reading
<1> QED  BY <1>7, <1>8, <1>9 DEF Inv

LEMMA CloseKeeps == ASSUME Inv, Close PROVE Inv'
<1>1. /\ UNCHANGED <<task, disk, ending, calls, pending, worker, checkpoint, memory, marker,
                     blocked, restarts>>
      /\ closed' = TRUE
  BY DEF Close, records, files
<1>2. TypeOK'
  BY <1>1 DEF Inv, TypeOK
<1> QED  BY <1>1, <1>2, RecordsStay, HeldStays DEF Inv

\* A new server knows what is in the file, and starts a worker.
LEMMA RestartKeeps == ASSUME Inv, Restart PROVE Inv'
<1>1. /\ task' = [t \in Tasks |-> Loaded(disk[t])]
      /\ worker' \in {Idle, Nobody}
      /\ restarts < MaxRestarts /\ restarts' = restarts + 1
      /\ ending' = NoTask /\ calls' = {} /\ closed' = FALSE /\ blocked' = FALSE
      /\ UNCHANGED <<disk, checkpoint, memory, marker>>
  BY DEF Restart, files
<1>2. \A t \in Tasks :
         /\ Loaded(disk[t]) \in Record
         /\ Loaded(disk[t]).attempt = disk[t].attempt
         /\ Loaded(disk[t]).sync = disk[t].sync
         /\ Loaded(disk[t]).status = disk[t].status
               \/ /\ disk[t].status \in {"queued", "running"}
                  /\ Loaded(disk[t]).status = "stopped"
  BY Typed DEF Inv, Loaded, Record
<1>3. TypeOK'
  <2>1. task' \in [Tasks -> Record]
    BY <1>1, <1>2
  <2>2. pending' \in [Tasks -> Entry]
    <3>1. \A t \in Tasks : [attempt |-> disk[t].attempt, due |-> TRUE] \in Entry
      BY Typed DEF Inv, Entry
    <3>2. NoEntry \in Entry
      BY DEF NoEntry, Entry
    <3> QED  BY <3>1, <3>2 DEF Restart
  <2>3. restarts' \in 0..MaxRestarts
    BY <1>1, BoundsAssumption DEF Inv, TypeOK, BoundsAssumption
  <2> QED  BY <1>1, <2>1, <2>2, <2>3, WorkerTypes DEF Inv, TypeOK
<1>4. Records'
  <2> SUFFICES ASSUME NEW t \in Tasks PROVE Sound(t)'
    BY DEF Records
  <2>1. Sound(t) /\ task'[t] = Loaded(disk[t])
    BY <1>1 DEF Inv, Records
  <2> QED  BY <1>1, <1>2, <2>1 DEF Sound, TrueToFiles, Behind, Existing, MemorySource
<1>5. Marked' /\ Held'
  BY <1>1, WorkerTypes DEF Inv, Marked, Held, Reading
<1> QED  BY <1>3, <1>4, <1>5 DEF Inv

-----------------------------------------------------------------------------
LEMMA Step == ASSUME Inv, [Next]_vars PROVE Inv'
<1>1. ASSUME NEW t \in Tasks,
             NextAttempt(t) \/ Resume(t) \/ Delete(t) \/ Start(t) \/ Commit(t)
      PROVE  Inv'
  BY <1>1, NextAttemptKeeps, ResumeKeeps, DeleteKeeps, StartKeeps, CommitKeeps
<1>2. ASSUME NEW t \in Tasks, NEW status \in {"result", "failed", "stopped"},
             Conclude(t, status)
      PROVE  Inv'
  BY <1>2, ConcludeKeeps
<1>3. ASSUME NEW t \in Tasks, Schedule(t) \/ RetryMemorySync(t) \/ Tick(t) \/ Take(t)
      PROVE  Inv'
  BY <1>3, ScheduleKeeps, RetryKeeps, TickKeeps, TakeKeeps
<1>4. CASE Work
  BY <1>4, LeaveKeeps, ReadKeeps, CheckKeeps, MergeKeeps, ReportKeeps, SaveKeeps DEF Work
<1>5. CASE SaveEnding \/ Fail \/ Sign \/ Close \/ Restart
  BY <1>5, SaveEndingKeeps, FailKeeps, SignKeeps, CloseKeeps, RestartKeeps
<1>6. CASE UNCHANGED vars
  <2>1. UNCHANGED <<task, disk, ending, calls, pending, worker, checkpoint, memory, marker,
                    closed, blocked, restarts>>
    BY <1>6 DEF vars, records, files
  <2>2. TypeOK'
    BY <2>1 DEF Inv, TypeOK
  <2> QED  BY <2>1, <2>2, RecordsStay, HeldStays DEF Inv
<1> QED  BY <1>1, <1>2, <1>3, <1>4, <1>5, <1>6 DEF Next

\* Whatever the worker, the handlers and the failures do between each other, the
\* invariant holds.
THEOREM Invariance == Spec => []Inv
<1>1. Init => Inv
  BY Begins
<1>2. Inv /\ [Next]_vars => Inv'
  BY Step
<1> QED  BY <1>1, <1>2, PTL DEF Spec

\* The records, the file, the worker and the memory keep their types.
THEOREM TypeCorrect == Spec => []TypeOK
<1>1. Inv => TypeOK
  BY DEF Inv
<1> QED  BY <1>1, Invariance, PTL

\* Only delete_task takes a task away, and only if nothing has to be synchronised.
LEMMA OnlyDelete ==
    ASSUME Inv, [Next]_vars, NEW t \in Tasks, MemorySource(task[t]),
           task'[t].status = "absent"
    PROVE  Delete(t)
<1>1. /\ task \in [Tasks -> Record] /\ task[t].status = "result" /\ disk[t].status # "absent"
  BY DEF MemorySource, Inv, TypeOK, Records, Sound, Behind
<1>2. ASSUME NEW u \in Tasks, NEW r, task' = [task EXCEPT ![u] = r], r.status # "absent"
      PROVE  FALSE
  BY <1>1, <1>2
<1>3. ASSUME NEW u \in Tasks,
             NextAttempt(u) \/ Resume(u) \/ Start(u) \/ RetryMemorySync(u)
      PROVE  FALSE
  <2>1. task[u] \in Record
    BY <1>1
  <2>2. CASE NextAttempt(u)
    <3> DEFINE r == [status |-> "queued", attempt |-> task[u].attempt + 1, sync |-> "none"]
    <3>1. task' = [task EXCEPT ![u] = r] /\ r.status = "queued"
      BY <2>2 DEF NextAttempt, Strictly
    <3> HIDE DEF r
    <3> QED  BY <1>2, <3>1
  <2>3. CASE Resume(u)
    <3>1. [task[u] EXCEPT !.status = "queued", !.sync = "none"].status = "queued"
      BY <2>1 DEF Record
    <3> QED  BY <1>2, <2>3, <3>1 DEF Resume, Strictly
  <2>4. CASE Start(u)
    <3>1. /\ [task[u] EXCEPT !.status = "running"].status = "running"
          /\ [task[u] EXCEPT !.status = "failed"].status = "failed"
      BY <2>1 DEF Record
    <3>2. \/ task' = [task EXCEPT ![u] = [task[u] EXCEPT !.status = "running"]]
          \/ task' = [task EXCEPT ![u] = [task[u] EXCEPT !.status = "failed"]]
      BY <1>1, <2>4 DEF Start, Strictly
    <3> QED  BY <1>2, <3>1, <3>2
  <2>5. CASE RetryMemorySync(u)
    <3>1. [task[u] EXCEPT !.sync = "pending"].status = task[u].status
      BY <2>1 DEF Record
    <3> QED  BY <1>2, <2>5, <3>1 DEF RetryMemorySync, Strictly, MemorySource
  <2> QED  BY <1>3, <2>2, <2>3, <2>4, <2>5
<1>4. ASSUME NEW u \in Tasks, Commit(u) \/ Schedule(u) \/ Tick(u) \/ Take(u)
      PROVE  FALSE
  BY <1>1, <1>4 DEF Commit, Schedule, Tick, Take, records
<1>5. ASSUME NEW u \in Tasks, NEW status \in {"result", "failed", "stopped"},
             Conclude(u, status)
      PROVE  FALSE
  BY <1>1, <1>5 DEF Conclude, Record
<1>6. CASE Work
  <2>1. task' = task \/ Report
    BY <1>6 DEF Work, Leave, Read, Check, Merge, Save, records
  <2>2. CASE Report
    BY <1>1, <2>2 DEF Report, Record
  <2> QED  BY <1>1, <2>1, <2>2
<1>7. CASE SaveEnding \/ Fail \/ Sign \/ Close \/ UNCHANGED vars
  BY <1>1, <1>7 DEF SaveEnding, Fail, Sign, Close, vars, records
<1>8. CASE Restart
  <2>1. task'[t] = Loaded(disk[t]) /\ disk[t] \in Record
    BY <1>8 DEF Restart, Inv, TypeOK
  <2> QED  BY <1>1, <2>1 DEF Loaded, Record
<1>9. ASSUME NEW u \in Tasks, Delete(u), u # t
      PROVE  FALSE
  BY <1>1, <1>9 DEF Delete, Strictly
<1> QED  BY <1>3, <1>4, <1>5, <1>6, <1>7, <1>8, <1>9 DEF Next

\* A result that is deleted leaves its translations in the memory: for any set of
\* tasks, whatever was written, failed or restarted meanwhile (delete_task).
THEOREM ResultsAreRemembered == Spec => DeletedIsRemembered
<1>1. ASSUME Inv, [Next]_vars
      PROVE  \A t \in Tasks :
                MemorySource(task[t]) /\ task'[t].status = "absent" =>
                    memory[t] = checkpoint[t]
  <2> SUFFICES ASSUME NEW t \in Tasks, MemorySource(task[t]), task'[t].status = "absent"
               PROVE  memory[t] = checkpoint[t]
    OBVIOUS
  <2>1. Delete(t)
    BY <1>1, OnlyDelete
  <2>2. task[t].sync # "pending"
    BY <2>1 DEF Delete, Deletable
  <2>3. /\ task[t].sync \in {"none", "pending", "synced"}
        /\ TrueToFiles(task[t], t)
    BY <1>1 DEF Inv, TypeOK, Record, Records, Sound
  <2> QED  BY <2>2, <2>3 DEF TrueToFiles
<1> QED  BY <1>1, Invariance, PTL DEF Spec, DeletedIsRemembered
=============================================================================
