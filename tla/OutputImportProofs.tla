-------------------------- MODULE OutputImportProofs --------------------------
(***************************************************************************)
(* Proofs about OutputImport, for any number of outputs, attempts, imports *)
(* at a time, directories and crashes.                                     *)
(***************************************************************************)
EXTENDS OutputImport, TLAPS

-----------------------------------------------------------------------------
(* The inductive invariant. *)

\* The attempts come one after the other, and each ends once.
LogOrdered ==
    \A m, n \in DOMAIN log : m < n =>
        /\ log[m].attempt <= log[n].attempt
        /\ log[m].attempt = log[n].attempt => log[m].status = "working"

Told(record) == \E n \in DOMAIN log : log[n] = record

\* What the plugin knows, the record of the server without its own part.
Heading(t) == [attempt |-> t.attempt, status |-> t.status, files |-> t.files]

Learnt == Told(Heading(task)) /\ Told(Heading(stored))

Alive(i) == import[i].pc # "free"

\* An import is about a result that the server had; it is the only one of its
\* attempt, and while the attempt is the one the plugin knows of, the task says
\* that it is being imported.
About(i) ==
    Alive(i) =>
        /\ Told(import[i].of) /\ Downloadable(import[i].of)
        /\ import[i].of.attempt <= task.attempt
        /\ import[i].of.attempt = task.attempt =>
              task.importState = "importing" /\ Heading(task) = import[i].of

Apart ==
    \A i, j \in Imports :
        i # j /\ Alive(i) /\ Alive(j) => import[i].of.attempt # import[j].of.attempt

\* The file it holds was this output of its attempt or of a later one.
Content(i) ==
    /\ import[i].pc \in {"queued", "copied"} => import[i].content # 0
    /\ import[i].content # 0 =>
          import[i].content >= import[i].of.attempt
            /\ Had(import[i].content, import[i].mode)

\* The directory of an import is its own, and no attachment but its own is in
\* it; one import at a time is inside the transaction.
Directory(i) ==
    /\ import[i].folder <= made
    /\ import[i].folder # 0 => import[i].pc \in {"copied", "committed", "undo"}
    /\ import[i].pc \in {"copied", "undo"} => import[i].folder # 0
    /\ import[i].folder # 0 =>
          \A a \in attachments : a.folder = import[i].folder => a.key = Key(i)
    /\ import[i].pc = "copied" =>
          tx = i /\ Receipt(Key(i)) = {} /\ import[i].folder \in folders
    /\ import[i].pc = "committed" => Receipt(Key(i)) # {}
    /\ import[i].pc \in {"committed", "undo"} /\ import[i].folder # 0
         /\ Receipt(Key(i)) # {} =>
          \E a \in attachments : a.folder = import[i].folder

OwnDirectory ==
    \A i, j \in Imports :
        i # j /\ import[i].folder # 0 => import[i].folder # import[j].folder

\* Whatever counts a key as imported can show its receipt.
Saved(keys) == \A key \in keys : Receipt(key) # {}
WhollySaved(t) ==
    t.importState = "imported" =>
        Downloadable(t) /\ \A m \in Wanted(t) : Receipt(<<t.attempt, m>>) # {}

Receipts ==
    /\ Saved(task.imported) /\ Saved(stored.imported)
    /\ \A i \in Imports : Saved(import[i].done)
    /\ WhollySaved(task) /\ WhollySaved(stored)

\* And so was the file of every attachment.
Results == \A a \in attachments : Genuine(a)

Inv ==
    /\ TypeOK /\ LogOrdered /\ Learnt
    /\ \A i \in Imports : About(i) /\ Content(i) /\ Directory(i)
    /\ Apart /\ OwnDirectory
    /\ Receipts /\ Results
    /\ SavedOnce

-----------------------------------------------------------------------------
(* What the operators of the importer do. *)

LEMMA Bounds ==
    /\ ModeCount \in Nat /\ MaxAttempt \in Nat /\ MaxImports \in Nat
    /\ MaxFolders \in Nat /\ MaxCrashes \in Nat
    /\ 1 \in Modes /\ 1 \in Attempts
BY BoundsAssumption DEF Modes, Attempts

LEMMA IdleType == Idle \in Import
BY Bounds DEF Idle, Import, Record, Status, Keys

LEMMA ImportType ==
    ASSUME TypeOK, NEW i \in Imports
    PROVE  /\ import[i] \in Import /\ import[i].of \in Record
           /\ import[i].mode \in Modes /\ import[i].done \subseteq Keys
           /\ import[i].of.attempt \in Attempts /\ Key(i) \in Keys
           /\ import[i].content \in 0..MaxAttempt /\ import[i].folder \in 0..MaxFolders
BY DEF TypeOK, Import, Key, Keys, Record

LEMMA LogType ==
    ASSUME TypeOK
    PROVE  /\ Len(log) \in Nat /\ Len(log) > 0 /\ Len(log) \in DOMAIN log
           /\ DOMAIN log = 1..Len(log)
           /\ \A n \in DOMAIN log : log[n] \in Record
           /\ Server \in Record
BY DEF TypeOK, Server

\* What was told is not of an attempt to come.
LEMMA ToldIsPast ==
    ASSUME TypeOK, LogOrdered, NEW x, Told(x)
    PROVE  x.attempt <= Server.attempt
<1>1. PICK m \in DOMAIN log : log[m] = x BY DEF Told
<1>2. /\ m \in 1..Len(log) /\ Len(log) \in DOMAIN log /\ Len(log) \in Nat
      /\ log[m].attempt \in Nat
  BY LogType DEF Record, Attempts
<1>3. CASE m = Len(log) BY <1>1, <1>2, <1>3 DEF Server
<1>4. CASE m < Len(log) BY <1>1, <1>2, <1>4 DEF LogOrdered, Server
<1> QED BY <1>2, <1>3, <1>4

\* The others are not touched.
Others(i) ==
    /\ import' \in [Imports -> Import]
    /\ \A j \in Imports \ {i} : import'[j] = import[j]

LEMMA ReturnMoves ==
    ASSUME TypeOK, NEW i \in Imports, Return(i)
    PROVE  import'[i] = Idle /\ Others(i)
BY IdleType DEF TypeOK, Return, Others

\* A part of the task that another step of an import leaves alone.
SameHeading == Heading(task') = Heading(task)

LEMMA FailMoves ==
    ASSUME TypeOK, NEW i \in Imports, Fail(i)
    PROVE  /\ import'[i] = Idle /\ Others(i) /\ SameHeading
           /\ task' \in Task /\ task'.imported = task.imported
           /\ task' = task \/ (task'.importState = "failed" /\ Current(i))
<1>1. import'[i] = Idle /\ Others(i) BY ReturnMoves DEF Fail
<1>2. CASE Current(i)
  <2>1. task' = [task EXCEPT !.importState = "failed"] BY <1>2 DEF Fail
  <2> QED BY <1>1, <1>2, <2>1 DEF TypeOK, Task, SameHeading, Heading, ImportState
<1>3. CASE ~Current(i)
  <2>1. task' = task BY <1>3 DEF Fail
  <2> QED BY <1>1, <2>1 DEF TypeOK, SameHeading
<1> QED BY <1>2, <1>3

\* The two ways in which the loop goes on.
Finishes(i, coroutine, t) ==
    /\ import'[i] = Idle /\ task' = [t EXCEPT !.importState = "imported"]
    /\ \A m \in Wanted(coroutine.of) : <<coroutine.of.attempt, m>> \in coroutine.done
LooksUp(i, coroutine, t) ==
    /\ task' = t
    /\ import'[i] \in Import
    /\ import'[i].pc = "lookup" /\ import'[i].of = coroutine.of
    /\ import'[i].done = coroutine.done
    /\ import'[i].content = 0 /\ import'[i].folder = 0

LEMMA LookupType ==
    ASSUME NEW coroutine \in Import, NEW m \in Modes, NEW x,
           x = [coroutine EXCEPT !.pc = "lookup", !.mode = m, !.content = 0, !.folder = 0]
    PROVE  /\ x \in Import /\ x.pc = "lookup" /\ x.of = coroutine.of
           /\ x.done = coroutine.done /\ x.content = 0 /\ x.folder = 0
<1>1. 0 \in 0..MaxAttempt /\ 0 \in 0..MaxFolders BY Bounds
<1> QED BY <1>1 DEF Import

LEMMA WantedType == \A record : record.files \subseteq Modes => Wanted(record) \subseteq Modes
BY DEF Wanted

LEMMA ContinueMoves ==
    ASSUME TypeOK, NEW i \in Imports, NEW coroutine \in Import, NEW t \in Task,
           Continue(i, coroutine, t)
    PROVE  /\ Others(i)
           /\ Finishes(i, coroutine, t) \/ LooksUp(i, coroutine, t)
<1> DEFINE rest == {m \in Wanted(coroutine.of) :
                      <<coroutine.of.attempt, m>> \notin coroutine.done}
<1>1. CASE rest = {} /\ Return(i) /\ task' = [t EXCEPT !.importState = "imported"]
  <2>1. import'[i] = Idle /\ Others(i) BY <1>1, ReturnMoves
  <2>2. \A m \in Wanted(coroutine.of) : <<coroutine.of.attempt, m>> \in coroutine.done
    BY <1>1
  <2> QED BY <1>1, <2>1, <2>2 DEF Finishes
<1>2. ASSUME NEW m \in rest, task' = t,
             import' = [import EXCEPT ![i] =
                 [coroutine EXCEPT !.pc = "lookup", !.mode = m, !.content = 0, !.folder = 0]]
      PROVE  Others(i) /\ LooksUp(i, coroutine, t)
  <2>1. m \in Modes BY <1>2, WantedType DEF Import, Record
  <2>2. import'[i] = [coroutine EXCEPT !.pc = "lookup", !.mode = m, !.content = 0, !.folder = 0]
    BY <1>2 DEF TypeOK
  <2> DEFINE x == import'[i]
  <2>4. /\ x \in Import /\ x.pc = "lookup" /\ x.of = coroutine.of
        /\ x.done = coroutine.done /\ x.content = 0 /\ x.folder = 0
    <3> HIDE DEF x, rest
    <3>1. x = [coroutine EXCEPT !.pc = "lookup", !.mode = m, !.content = 0, !.folder = 0]
      BY <2>2 DEF x
    <3> QED BY <2>1, <3>1, LookupType
  <2>5. task' = t BY <1>2
  <2>6. Others(i) BY <1>2, <2>2, <2>4 DEF TypeOK, Others
  <2> QED BY <2>4, <2>5, <2>6 DEF LooksUp
<1> QED BY <1>1, <1>2 DEF Continue

\* What an output that is in brings.
Pushed(i) == import[i].done \cup {Key(i)}

LEMMA PushMoves ==
    ASSUME TypeOK, NEW i \in Imports, Push(i)
    PROVE  /\ Others(i) /\ SameHeading /\ task' \in Task /\ import'[i] \in Import
           /\ task'.imported = Pushed(i)
           /\ \/ /\ import'[i] = Idle /\ task'.importState = "imported"
                 /\ \A m \in Wanted(import[i].of) : <<import[i].of.attempt, m>> \in Pushed(i)
              \/ /\ task'.importState = task.importState
                 /\ import'[i].pc = "lookup" /\ import'[i].of = import[i].of
                 /\ import'[i].done = Pushed(i)
                 /\ import'[i].content = 0 /\ import'[i].folder = 0
<1> DEFINE c == [import[i] EXCEPT !.done = Pushed(i)]
           t == [task EXCEPT !.imported = Pushed(i)]
<1>1. Pushed(i) \subseteq Keys BY ImportType DEF Pushed
<1>2. c \in Import /\ c.of = import[i].of /\ c.done = Pushed(i)
  BY <1>1, ImportType DEF Import
<1>3. /\ t \in Task /\ t.imported = Pushed(i) /\ t.importState = task.importState
      /\ Heading(t) = Heading(task)
  BY <1>1 DEF TypeOK, Task, Heading
<1>4. Continue(i, c, t) BY DEF Push, Pushed
<1>5. Others(i) /\ (Finishes(i, c, t) \/ LooksUp(i, c, t))
  <2> HIDE DEF c, t
  <2> QED BY <1>2, <1>3, <1>4, ContinueMoves
<1>6. CASE Finishes(i, c, t)
  <2>1. task' = [t EXCEPT !.importState = "imported"] /\ import'[i] = Idle BY <1>6 DEF Finishes
  <2>2. /\ task' \in Task /\ task'.imported = t.imported /\ Heading(task') = Heading(t)
        /\ task'.importState = "imported"
    <3> HIDE DEF t
    <3> QED BY <1>3, <2>1 DEF Task, Heading, ImportState
  <2>3. \A m \in Wanted(import[i].of) : <<import[i].of.attempt, m>> \in Pushed(i)
    <3> HIDE DEF c
    <3> QED BY <1>6, <1>2 DEF Finishes
  <2> QED BY <1>3, <1>5, <2>1, <2>2, <2>3, IdleType DEF SameHeading
<1>7. CASE LooksUp(i, c, t)
  <2> HIDE DEF c, t
  <2> QED BY <1>2, <1>3, <1>5, <1>7 DEF LooksUp, SameHeading
<1> QED BY <1>5, <1>6, <1>7

\* The beginning of an import.
StartsAs(i) ==
    [Idle EXCEPT !.of = Heading(task), !.done = task.imported]

LEMMA StartMoves ==
    ASSUME TypeOK, NEW i \in Imports, NEW from, Start(i, from)
    PROVE  /\ Others(i) /\ SameHeading /\ task' \in Task /\ import'[i] \in Import
           /\ task'.imported = task.imported
           /\ \/ import'[i] = import[i] /\ task'.importState = "failed"
              \/ /\ import'[i] = Idle /\ task'.importState = "imported"
                 /\ \A m \in Wanted(task) : <<task.attempt, m>> \in task.imported
              \/ /\ task'.importState = "importing"
                 /\ import'[i].pc = "lookup" /\ import'[i].of = Heading(task)
                 /\ import'[i].done = task.imported
                 /\ import'[i].content = 0 /\ import'[i].folder = 0
<1> DEFINE t == [task EXCEPT !.importState = "importing"]
<1>1. /\ t \in Task /\ t.imported = task.imported /\ t.importState = "importing"
      /\ Heading(t) = Heading(task)
  BY DEF TypeOK, Task, Heading, ImportState
<1>2. Heading(task) \in Record /\ task.imported \subseteq Keys
  BY DEF TypeOK, Task, Heading, Record
<1>3. StartsAs(i) \in Import /\ StartsAs(i).of = Heading(task)
      /\ StartsAs(i).done = task.imported
  BY <1>2, IdleType DEF StartsAs, Import, Idle
<1>4. CASE task' = [task EXCEPT !.importState = "failed"] /\ UNCHANGED import
  <2>1. /\ task' \in Task /\ task'.imported = task.imported /\ SameHeading
        /\ task'.importState = "failed"
    BY <1>4 DEF TypeOK, Task, SameHeading, Heading, ImportState
  <2> QED BY <1>4, <2>1, ImportType DEF Others, TypeOK
<1>5. CASE Continue(i, StartsAs(i), t)
  <2> HIDE DEF t
  <2>1. Others(i) /\ (Finishes(i, StartsAs(i), t) \/ LooksUp(i, StartsAs(i), t))
    BY <1>1, <1>3, <1>5, ContinueMoves
  <2>2. CASE Finishes(i, StartsAs(i), t)
    <3>1. task' = [t EXCEPT !.importState = "imported"] /\ import'[i] = Idle
      BY <2>2 DEF Finishes
    <3>2. /\ task' \in Task /\ task'.imported = t.imported /\ Heading(task') = Heading(t)
          /\ task'.importState = "imported"
      BY <1>1, <3>1 DEF Task, Heading, ImportState
    <3>3. Wanted(Heading(task)) = Wanted(task) /\ Heading(task).attempt = task.attempt
      BY DEF Wanted, Heading
    <3>4. \A m \in Wanted(task) : <<task.attempt, m>> \in task.imported
      BY <1>3, <2>2, <3>3 DEF Finishes
    <3> QED BY <1>1, <2>1, <3>1, <3>2, <3>4, IdleType DEF SameHeading
  <2>3. CASE LooksUp(i, StartsAs(i), t)
    BY <1>1, <1>3, <2>1, <2>3 DEF LooksUp, SameHeading
  <2> QED BY <2>1, <2>2, <2>3
<1> QED BY <1>4, <1>5 DEF Start, StartsAs, Heading

\* A step that changes one field of one import.
LEMMA FieldMoves ==
    ASSUME TypeOK, NEW i \in Imports, NEW x \in Import,
           import' = [import EXCEPT ![i] = x]
    PROVE  Others(i) /\ import'[i] = x
BY DEF TypeOK, Others

-----------------------------------------------------------------------------
(* Types. *)

LEMMA HeardType ==
    ASSUME TypeOK, NEW record \in Record
    PROVE  /\ Heard(record) \in Task
           /\ Heading(Heard(record)) = record
           /\ Heard(record).imported =
                 IF record.attempt > task.attempt THEN {} ELSE task.imported
           /\ record.attempt > task.attempt => Heard(record).importState \in {"pending", "none"}
           /\ Heard(record).importState \in {"imported", "importing", "failed", "pending", "none"}
           /\ Heard(record).importState = "imported" =>
                 task.importState = "imported" /\ ~(record.attempt > task.attempt)
<1> DEFINE seen == [task EXCEPT !.attempt = record.attempt, !.status = record.status,
                                !.files = record.files]
           t == IF record.attempt > task.attempt
                THEN [seen EXCEPT !.importState = "pending", !.imported = {}] ELSE seen
<1>1. /\ seen \in Task /\ Heading(seen) = record /\ seen.imported = task.imported
      /\ seen.importState = task.importState
  BY DEF TypeOK, Task, Record, Heading
<1>2. /\ t \in Task /\ Heading(t) = record
      /\ t.imported = IF record.attempt > task.attempt THEN {} ELSE task.imported
      /\ t.importState = IF record.attempt > task.attempt THEN "pending" ELSE task.importState
  <2> HIDE DEF seen
  <2>1. CASE record.attempt > task.attempt
    <3>1. t = [seen EXCEPT !.importState = "pending", !.imported = {}] BY <2>1
    <3> QED BY <1>1, <2>1, <3>1 DEF Task, Heading, ImportState
  <2>2. CASE ~(record.attempt > task.attempt) BY <1>1, <2>2
  <2> QED BY <2>1, <2>2
<1>3. Heard(record) = Normalized(t) BY DEF Heard
<1> HIDE DEF t
<1>4. CASE t.status = "failed" /\ t.importState # "imported"
  <2>1. Normalized(t) = [t EXCEPT !.importState = "none"] BY <1>4 DEF Normalized
  <2> QED BY <1>2, <1>3, <2>1 DEF Task, Heading, ImportState
<1>5. CASE ~(t.status = "failed" /\ t.importState # "imported")
  <2>1. Normalized(t) = t BY <1>5 DEF Normalized
  <2> QED BY <1>2, <1>3, <2>1 DEF Task, ImportState
<1> QED BY <1>4, <1>5

LEMMA LoadedType ==
    ASSUME TypeOK
    PROVE  /\ Loaded \in Task /\ Heading(Loaded) = Heading(stored)
           /\ Loaded.imported = stored.imported
           /\ Loaded.importState = "imported" => stored.importState = "imported"
<1> DEFINE t == IF stored.importState = "importing"
                THEN [stored EXCEPT !.importState = "pending"] ELSE stored
<1>1. /\ t \in Task /\ Heading(t) = Heading(stored) /\ t.imported = stored.imported
      /\ t.importState = "imported" => stored.importState = "imported"
  <2>1. CASE stored.importState = "importing"
    <3>1. t = [stored EXCEPT !.importState = "pending"] BY <2>1
    <3> QED BY <3>1 DEF TypeOK, Task, Heading, ImportState
  <2>2. CASE stored.importState # "importing" BY <2>2 DEF TypeOK
  <2> QED BY <2>1, <2>2
<1>2. Loaded = Normalized(t) BY DEF Loaded
<1> HIDE DEF t
<1>3. CASE t.status = "failed" /\ t.importState # "imported"
  <2>1. Normalized(t) = [t EXCEPT !.importState = "none"] BY <1>3 DEF Normalized
  <2> QED BY <1>1, <1>2, <2>1 DEF Task, Heading, ImportState
<1>4. CASE ~(t.status = "failed" /\ t.importState # "imported")
  <2>1. Normalized(t) = t BY <1>4 DEF Normalized
  <2> QED BY <1>1, <1>2, <2>1
<1> QED BY <1>3, <1>4

\* What each step of an import does to its coroutine.
LEMMA LookupMoves ==
    ASSUME TypeOK, NEW i \in Imports, Lookup(i)
    PROVE  \/ Fail(i)
           \/ Return(i) /\ UNCHANGED task
           \/ Push(i) /\ Current(i) /\ Receipt(Key(i)) # {}
           \/ /\ import'[i] = [import[i] EXCEPT !.pc = "fetch"]
              /\ import'[i] \in Import /\ Others(i) /\ UNCHANGED task
<1>1. ASSUME import' = [import EXCEPT ![i].pc = "fetch"], UNCHANGED task
      PROVE  /\ import'[i] = [import[i] EXCEPT !.pc = "fetch"]
             /\ import'[i] \in Import /\ Others(i) /\ UNCHANGED task
  <2>1. [import[i] EXCEPT !.pc = "fetch"] \in Import BY ImportType DEF Import
  <2>2. import' = [import EXCEPT ![i] = [import[i] EXCEPT !.pc = "fetch"]]
    BY <1>1 DEF TypeOK
  <2> QED BY <1>1, <2>1, <2>2, FieldMoves
<1> QED BY <1>1 DEF Lookup

LEMMA FetchMoves ==
    ASSUME TypeOK, NEW i \in Imports, Fetch(i)
    PROVE  \/ Fail(i)
           \/ Return(i) /\ UNCHANGED task
           \/ /\ import'[i] = [import[i] EXCEPT !.pc = "queued", !.content = Server.attempt]
              /\ import[i].mode \in Server.files
              /\ import'[i] \in Import /\ Others(i) /\ UNCHANGED task
<1>1. ASSUME import' = [import EXCEPT ![i].pc = "queued", ![i].content = Server.attempt],
             UNCHANGED task
      PROVE  /\ import'[i] = [import[i] EXCEPT !.pc = "queued", !.content = Server.attempt]
             /\ import'[i] \in Import /\ Others(i) /\ UNCHANGED task
  <2>0. Server.attempt \in 0..MaxAttempt BY LogType, Bounds DEF Record, Attempts
  <2>1. [import[i] EXCEPT !.pc = "queued", !.content = Server.attempt] \in Import
    BY <2>0, ImportType DEF Import
  <2>2. import' = [import EXCEPT ![i] =
                      [import[i] EXCEPT !.pc = "queued", !.content = Server.attempt]]
    BY <1>1 DEF TypeOK
  <2> QED BY <1>1, <2>1, <2>2, FieldMoves
<1> QED BY <1>1 DEF Fetch

LEMMA BeginMoves ==
    ASSUME TypeOK, NEW i \in Imports, Begin(i)
    PROVE  \/ Return(i) /\ UNCHANGED <<task, tx, made, folders>>
           \/ Fail(i) /\ UNCHANGED <<tx, made, folders>>
           \/ /\ import'[i] = [import[i] EXCEPT !.pc = "committed"]
              /\ Receipt(Key(i)) # {}
              /\ import'[i] \in Import /\ Others(i)
              /\ UNCHANGED <<task, tx, made, folders>>
           \/ /\ import'[i] = [import[i] EXCEPT !.pc = "copied", !.folder = made + 1]
              /\ Receipt(Key(i)) = {} /\ made < MaxFolders
              /\ tx' = i /\ made' = made + 1 /\ folders' = folders \cup {made + 1}
              /\ import'[i] \in Import /\ Others(i) /\ UNCHANGED task
<1>1. ASSUME import' = [import EXCEPT ![i].pc = "committed"]
      PROVE  /\ import'[i] = [import[i] EXCEPT !.pc = "committed"]
             /\ import'[i] \in Import /\ Others(i)
  <2>1. [import[i] EXCEPT !.pc = "committed"] \in Import BY ImportType DEF Import
  <2>2. import' = [import EXCEPT ![i] = [import[i] EXCEPT !.pc = "committed"]]
    BY <1>1 DEF TypeOK
  <2> QED BY <1>1, <2>1, <2>2, FieldMoves
<1>2. ASSUME import' = [import EXCEPT ![i].pc = "copied", ![i].folder = made + 1],
             made < MaxFolders
      PROVE  /\ import'[i] = [import[i] EXCEPT !.pc = "copied", !.folder = made + 1]
             /\ import'[i] \in Import /\ Others(i)
  <2>0. made + 1 \in 0..MaxFolders BY <1>2, Bounds DEF TypeOK
  <2>1. [import[i] EXCEPT !.pc = "copied", !.folder = made + 1] \in Import
    BY <2>0, ImportType DEF Import
  <2>2. import' = [import EXCEPT ![i] =
                      [import[i] EXCEPT !.pc = "copied", !.folder = made + 1]]
    BY <1>2 DEF TypeOK
  <2> QED BY <1>2, <2>1, <2>2, FieldMoves
<1> QED BY <1>1, <1>2 DEF Begin

\* The attachment that an import makes.
Made(i) == [key |-> Key(i), folder |-> import[i].folder, content |-> import[i].content]

LEMMA EndMoves ==
    ASSUME TypeOK, NEW i \in Imports, End(i)
    PROVE  \/ /\ import'[i] = [import[i] EXCEPT !.pc = "committed"]
              /\ import'[i] \in Import /\ Others(i)
              /\ Current(i) /\ attachments' = attachments \cup {Made(i)}
           \/ /\ import'[i] = [import[i] EXCEPT !.pc = "undo"]
              /\ import'[i] \in Import /\ Others(i)
              /\ UNCHANGED attachments
<1>1. ASSUME NEW place \in {"committed", "undo"}, import' = [import EXCEPT ![i].pc = place]
      PROVE  /\ import'[i] = [import[i] EXCEPT !.pc = place]
             /\ import'[i] \in Import /\ Others(i)
  <2>1. [import[i] EXCEPT !.pc = place] \in Import BY ImportType DEF Import
  <2>2. import' = [import EXCEPT ![i] = [import[i] EXCEPT !.pc = place]]
    BY <1>1 DEF TypeOK
  <2> QED BY <1>1, <2>1, <2>2, FieldMoves
<1> QED BY <1>1 DEF End, Made

LEMMA CommittedMoves ==
    ASSUME TypeOK, NEW i \in Imports, Committed(i)
    PROVE  \/ Return(i) /\ UNCHANGED task
           \/ Push(i) /\ Current(i)
           \/ Fail(i)
           \/ /\ import'[i] = [import[i] EXCEPT !.pc = "undo"] /\ import[i].folder # 0
              /\ import'[i] \in Import /\ Others(i) /\ UNCHANGED task
<1>1. ASSUME import' = [import EXCEPT ![i].pc = "undo"]
      PROVE  /\ import'[i] = [import[i] EXCEPT !.pc = "undo"]
             /\ import'[i] \in Import /\ Others(i)
  <2>1. [import[i] EXCEPT !.pc = "undo"] \in Import BY ImportType DEF Import
  <2>2. import' = [import EXCEPT ![i] = [import[i] EXCEPT !.pc = "undo"]]
    BY <1>1 DEF TypeOK
  <2> QED BY <1>1, <2>1, <2>2, FieldMoves
<1> QED BY <1>1 DEF Committed

LEMMA AppendType ==
    ASSUME TypeOK, NEW record \in Record, log' = Append(log, record)
    PROVE  /\ log' \in Seq(Record) /\ log' # <<>>
           /\ DOMAIN log' = 1..(Len(log) + 1)
           /\ \A n \in DOMAIN log : n \in DOMAIN log' /\ log'[n] = log[n]
           /\ log'[Len(log) + 1] = record
BY DEF TypeOK

\* The record that a step of the server adds.
LEMMA ServerMoves ==
    ASSUME TypeOK, Conclude \/ NextAttempt
    PROVE  \E record \in Record :
             /\ log' = Append(log, record)
             /\ UNCHANGED <<task, stored, blocked, import, tx, disk, crashes>>
             /\ \/ /\ Server.status = "working" /\ record.attempt = Server.attempt
                \/ /\ Server.status # "working"
                   /\ record.attempt = Server.attempt + 1
<1>0. Server \in Record BY LogType
<1>1. CASE Conclude
  <2>1. PICK status \in Status \ {"working"}, files \in SUBSET Modes :
          log' = Append(log, [Server EXCEPT !.status = status, !.files = files])
    BY <1>1 DEF Conclude
  <2>2. [Server EXCEPT !.status = status, !.files = files] \in Record
        /\ [Server EXCEPT !.status = status, !.files = files].attempt = Server.attempt
    BY <1>0 DEF Record
  <2> QED BY <1>1, <2>1, <2>2 DEF Conclude
<1>2. CASE NextAttempt
  <2>1. [attempt |-> Server.attempt + 1, status |-> "working", files |-> {}] \in Record
    BY <1>0, <1>2, Bounds DEF NextAttempt, Record, Attempts, Status
  <2> QED BY <1>2, <2>1 DEF NextAttempt
<1> QED BY <1>1, <1>2

LEMMA TypeStep == Inv /\ [Next]_vars => TypeOK'
<1> SUFFICES ASSUME Inv, [Next]_vars PROVE TypeOK' OBVIOUS
<1>0. TypeOK /\ (\A i \in Imports : Content(i) /\ Directory(i)) BY DEF Inv
<1>1. CASE Conclude \/ NextAttempt
  BY <1>0, <1>1, ServerMoves, AppendType DEF TypeOK, disk
<1>2. CASE Hear
  BY <1>0, <1>2, HeardType, LogType DEF Hear, TypeOK, disk
<1>3. ASSUME NEW i \in Imports, AutoStart(i) \/ RetryImport(i) PROVE TypeOK'
  <2>1. PICK from : Start(i, from) BY <1>3 DEF AutoStart, RetryImport
  <2>2. task' \in Task /\ import' \in [Imports -> Import]
    BY <1>0, <2>1, StartMoves DEF Others
  <2> QED BY <1>0, <2>1, <2>2 DEF Start, TypeOK, disk
<1>4. ASSUME NEW i \in Imports, Lookup(i) PROVE TypeOK'
  <2>1. task' \in Task /\ import' \in [Imports -> Import]
    BY <1>0, <1>4, LookupMoves, FailMoves, ReturnMoves, PushMoves DEF Others, TypeOK
  <2> QED BY <1>0, <1>4, <2>1 DEF Lookup, TypeOK, disk
<1>5. ASSUME NEW i \in Imports, Fetch(i) PROVE TypeOK'
  <2>1. task' \in Task /\ import' \in [Imports -> Import]
    BY <1>0, <1>5, FetchMoves, FailMoves, ReturnMoves DEF Others, TypeOK
  <2> QED BY <1>0, <1>5, <2>1 DEF Fetch, TypeOK, disk
<1>6. ASSUME NEW i \in Imports, Begin(i) PROVE TypeOK'
  <2>1. task' \in Task /\ import' \in [Imports -> Import]
    BY <1>0, <1>6, BeginMoves, FailMoves, ReturnMoves DEF Others, TypeOK
  <2>2. /\ tx' \in 0..MaxImports /\ made' \in 0..MaxFolders /\ made' >= made
        /\ folders' \subseteq 1..made'
    <3>1. \/ UNCHANGED <<tx, made, folders>>
          \/ /\ made < MaxFolders /\ tx' = i /\ made' = made + 1
             /\ folders' = folders \cup {made + 1}
      BY <1>0, <1>6, BeginMoves
    <3>2. made \in 0..MaxFolders /\ tx \in 0..MaxImports /\ folders \subseteq 1..made
      BY <1>0 DEF TypeOK
    <3>3. i \in 0..MaxImports BY Bounds DEF Imports
    <3>4. CASE UNCHANGED <<tx, made, folders>> BY <3>2, <3>4, Bounds
    <3>5. CASE /\ made < MaxFolders /\ tx' = i /\ made' = made + 1
               /\ folders' = folders \cup {made + 1}
      <4>1. made' \in 0..MaxFolders /\ made' >= made BY <3>2, <3>5, Bounds
      <4>2. folders' \subseteq 1..made' BY <3>2, <3>5, Bounds
      <4> QED BY <3>3, <3>5, <4>1, <4>2
    <3> QED BY <3>1, <3>4, <3>5
  <2>3. UNCHANGED <<log, stored, blocked, attachments, binned, orphans, crashes>>
    BY <1>6 DEF Begin
  <2>4. binned' \subseteq 1..made' /\ orphans' \subseteq 1..made'
    <3>1. made \in Nat /\ made' \in Nat /\ made' >= made BY <1>0, <2>2 DEF TypeOK
    <3>2. 1..made \subseteq 1..made' BY <3>1
    <3>3. binned \subseteq 1..made /\ orphans \subseteq 1..made BY <1>0 DEF TypeOK
    <3> QED BY <2>3, <3>2, <3>3
  <2> QED BY <1>0, <2>1, <2>2, <2>3, <2>4 DEF TypeOK
<1>7. ASSUME NEW i \in Imports, End(i) PROVE TypeOK'
  <2>1. import' \in [Imports -> Import] BY <1>0, <1>7, EndMoves DEF Others
  <2>2. Made(i) \in Attachment
    <3>1. import[i].folder \in 1..MaxFolders /\ import[i].content \in Attempts
      BY <1>0, <1>7, ImportType, Bounds DEF End, Directory, Content, Attempts
    <3> QED BY <1>0, <3>1, ImportType DEF Made, Attachment
  <2>3. attachments' \subseteq Attachment BY <1>0, <1>7, <2>2, EndMoves DEF TypeOK
  <2> QED BY <1>0, <1>7, <2>1, <2>3, Bounds DEF End, TypeOK
<1>8. ASSUME NEW i \in Imports, Committed(i) PROVE TypeOK'
  <2>1. task' \in Task /\ import' \in [Imports -> Import]
    BY <1>0, <1>8, CommittedMoves, FailMoves, ReturnMoves, PushMoves DEF Others, TypeOK
  <2> QED BY <1>0, <1>8, <2>1 DEF Committed, TypeOK, disk
<1>9. ASSUME NEW i \in Imports, Undo(i) PROVE TypeOK'
  <2>1. task' \in Task /\ import' \in [Imports -> Import]
    BY <1>0, <1>9, FailMoves DEF Undo, Others
  <2>2. import[i].folder \in 1..made
    BY <1>0, <1>9, ImportType DEF Undo, Directory, TypeOK
  <2> QED BY <1>0, <1>9, <2>1, <2>2 DEF Undo, TypeOK
<1>10. CASE Flush BY <1>0, <1>10 DEF Flush, TypeOK, disk
<1>11. CASE SaveFails \/ SaveRecovers
  BY <1>0, <1>11 DEF SaveFails, SaveRecovers, TypeOK, disk
<1>12. ASSUME NEW a \in attachments, Bin(a) PROVE TypeOK'
  <2>1. a.folder \in 1..made BY <1>0 DEF Inv, SavedOnce, TypeOK
  <2> QED BY <1>0, <1>12, <2>1 DEF Bin, TypeOK
<1>13. CASE Crash
  <2>1. orphans' \subseteq 1..made
    <3>1. \A i \in Imports : import[i].pc \in {"copied", "undo"} => import[i].folder \in 1..made
      BY <1>0, ImportType DEF Directory, TypeOK
    <3> QED BY <1>0, <1>13, <3>1 DEF Crash, TypeOK
  <2>2. import' \in [Imports -> Import] BY <1>13, IdleType DEF Crash
  <2>3. task' \in Task /\ stored' \in Task BY <1>0, <1>13, LoadedType DEF Crash
  <2>4. tx' \in 0..MaxImports BY <1>13, Bounds DEF Crash
  <2>5. blocked' \in BOOLEAN BY <1>13 DEF Crash
  <2>6. crashes' \in 0..MaxCrashes
    <3>1. crashes \in 0..MaxCrashes BY <1>0 DEF TypeOK
    <3>2. crashes < MaxCrashes /\ crashes' = crashes + 1 BY <1>13 DEF Crash
    <3> QED BY <3>1, <3>2, Bounds
  <2> QED BY <1>0, <1>13, <2>1, <2>2, <2>3, <2>4, <2>5, <2>6 DEF Crash, TypeOK
<1>14. CASE UNCHANGED vars BY <1>0, <1>14 DEF vars, disk, TypeOK
<1> QED BY <1>1, <1>2, <1>3, <1>4, <1>5, <1>6, <1>7, <1>8, <1>9, <1>10, <1>11, <1>12,
           <1>13, <1>14 DEF Next, Step

-----------------------------------------------------------------------------
(* The records of the server. *)

Grows == \A n \in DOMAIN log : n \in DOMAIN log' /\ log'[n] = log[n]

LEMMA LogStep == Inv /\ [Next]_vars => LogOrdered' /\ Grows
<1> SUFFICES ASSUME Inv, [Next]_vars PROVE LogOrdered' /\ Grows OBVIOUS
<1>0. TypeOK /\ LogOrdered BY DEF Inv
<1>1. CASE Conclude \/ NextAttempt
  <2>1. PICK record \in Record :
          /\ log' = Append(log, record)
          /\ \/ /\ Server.status = "working" /\ record.attempt = Server.attempt
             \/ /\ Server.status # "working"
                /\ record.attempt = Server.attempt + 1
    BY <1>0, <1>1, ServerMoves
  <2>2. /\ DOMAIN log' = 1..(Len(log) + 1) /\ log'[Len(log) + 1] = record
        /\ \A n \in DOMAIN log : n \in DOMAIN log' /\ log'[n] = log[n]
    BY <1>0, <2>1, AppendType
  <2>3. /\ Len(log) \in Nat /\ DOMAIN log = 1..Len(log) /\ Server = log[Len(log)]
        /\ Len(log) \in DOMAIN log
        /\ \A n \in DOMAIN log : log[n].attempt \in Nat
    BY <1>0, LogType DEF Server, Record, Attempts
  <2>4. ASSUME NEW m \in DOMAIN log
        PROVE  /\ log[m].attempt <= record.attempt
               /\ log[m].attempt = record.attempt => log[m].status = "working"
    <3>1. CASE m = Len(log) BY <2>1, <2>3, <3>1
    <3>2. CASE m < Len(log) BY <1>0, <2>1, <2>3, <3>2 DEF LogOrdered
    <3> QED BY <2>3, <3>1, <3>2
  <2>5. ASSUME NEW m \in DOMAIN log', NEW n \in DOMAIN log', m < n
        PROVE  /\ log'[m].attempt <= log'[n].attempt
               /\ log'[m].attempt = log'[n].attempt => log'[m].status = "working"
    <3>1. m \in DOMAIN log BY <2>2, <2>3, <2>5
    <3>2. CASE n \in DOMAIN log BY <1>0, <2>2, <2>5, <3>1, <3>2 DEF LogOrdered
    <3>3. CASE n = Len(log) + 1 BY <2>2, <2>4, <3>1, <3>3
    <3> QED BY <2>2, <2>3, <3>2, <3>3
  <2> QED BY <2>2, <2>5 DEF LogOrdered, Grows
<1>2. CASE log' = log BY <1>0, <1>2 DEF LogOrdered, Grows
<1> QED BY <1>1, <1>2 DEF Next, Step, vars, Hear, AutoStart, RetryImport, Start, Lookup,
           Fetch, Begin, End, Committed, Undo, Flush, SaveFails, SaveRecovers, Bin, Crash

LEMMA ToldStays ==
    ASSUME Grows, NEW record, Told(record)
    PROVE  \E n \in DOMAIN log' : log'[n] = record
BY DEF Grows, Told

LEMMA HadStays ==
    ASSUME Grows, NEW attempt, NEW mode, Had(attempt, mode)
    PROVE  Had(attempt, mode)'
BY DEF Grows, Had

-----------------------------------------------------------------------------
(* What the plugin knows, and what its imports are about. *)

\* What is heard is later: of another attempt, or the end of this one.
LEMMA HearMoves ==
    ASSUME TypeOK, LogOrdered, Hear
    PROVE  \E record \in Record :
             /\ Told(record) /\ task' = Heard(record)
             /\ \/ record.attempt > task.attempt
                \/ record.attempt = task.attempt /\ task.status = "working"
<1>1. PICK n \in DOMAIN log, k \in DOMAIN log :
        Known(k) /\ k < n /\ task' = Heard(log[n])
  BY DEF Hear
<1>2. log[n] \in Record /\ Told(log[n]) BY LogType DEF Told
<1>3. /\ log[k].attempt <= log[n].attempt
      /\ log[k].attempt = log[n].attempt => log[k].status = "working"
  BY <1>1 DEF LogOrdered
<1>4. log[k].attempt \in Nat /\ log[n].attempt \in Nat
  BY LogType DEF Record, Attempts
<1>5. \/ log[n].attempt > task.attempt
      \/ log[n].attempt = task.attempt /\ task.status = "working"
  BY <1>1, <1>3, <1>4 DEF Known
<1> QED BY <1>1, <1>2, <1>5

LEMMA LearntStep == Inv /\ [Next]_vars => Learnt'
<1> SUFFICES ASSUME Inv, [Next]_vars PROVE Learnt' OBVIOUS
<1>0. TypeOK /\ LogOrdered /\ Learnt BY DEF Inv
<1>1. Grows BY LogStep
<1>2. ASSUME NEW t, Heading(t) = Heading(task) \/ Heading(t) = Heading(stored)
      PROVE  Told(Heading(t))'
  BY <1>0, <1>1, <1>2 DEF Learnt, Told, Grows
<1>3. /\ \/ Heading(task') = Heading(task) \/ Heading(task') = Heading(stored)
         \/ \E record \in Record : Told(record) /\ Heading(task') = record
      /\ \/ Heading(stored') = Heading(task) \/ Heading(stored') = Heading(stored)
  <2>1. CASE Conclude \/ NextAttempt BY <2>1 DEF Conclude, NextAttempt
  <2>2. CASE Hear BY <1>0, <2>2, HearMoves, HeardType DEF Hear
  <2>3. ASSUME NEW i \in Imports, AutoStart(i) \/ RetryImport(i)
        PROVE  Heading(task') = Heading(task) /\ UNCHANGED stored
    BY <1>0, <2>3, StartMoves DEF AutoStart, RetryImport, SameHeading, Start
  <2>4. ASSUME NEW i \in Imports, Step(i)
        PROVE  Heading(task') = Heading(task) /\ UNCHANGED stored
    <3>1. UNCHANGED stored
      BY <2>4 DEF Step, Lookup, Fetch, Begin, End, Committed, Undo
    <3>2. UNCHANGED task \/ Fail(i) \/ Push(i)
      BY <2>4 DEF Step, Lookup, Fetch, Begin, End, Committed, Undo
    <3> QED BY <1>0, <3>1, <3>2, FailMoves, PushMoves DEF SameHeading
  <2>5. CASE Flush BY <2>5 DEF Flush
  <2>6. CASE SaveFails \/ SaveRecovers BY <2>6 DEF SaveFails, SaveRecovers
  <2>7. CASE \E a \in attachments : Bin(a) BY <2>7 DEF Bin
  <2>8. CASE Crash BY <1>0, <2>8, LoadedType DEF Crash
  <2>9. CASE UNCHANGED vars BY <2>9 DEF vars
  <2> QED BY <2>1, <2>2, <2>3, <2>4, <2>5, <2>6, <2>7, <2>8, <2>9 DEF Next
<1>4. Told(Heading(task))' BY <1>0, <1>1, <1>2, <1>3, ToldStays DEF Learnt, Told
<1>5. Told(Heading(stored))' BY <1>0, <1>1, <1>2, <1>3, ToldStays DEF Learnt, Told
<1> QED BY <1>4, <1>5 DEF Learnt

\* An import that goes on, or ends and may then give the task another state.
GoesOn(i) ==
    /\ Others(i) /\ SameHeading
    /\ \/ import'[i].pc = "free"
       \/ Alive(i) /\ import'[i].of = import[i].of
    /\ \/ task'.importState = task.importState
       \/ import'[i].pc = "free" /\ Alive(i) /\ import[i].of.attempt = task.attempt

LEMMA StepGoesOn ==
    ASSUME TypeOK, NEW i \in Imports, Step(i)
    PROVE  GoesOn(i) /\ UNCHANGED log
<1>0. import[i] \in Import /\ Idle.pc = "free" BY ImportType DEF Idle
<1>a. Alive(i) /\ UNCHANGED log
  BY DEF Step, Lookup, Fetch, Begin, End, Committed, Undo, Alive
<1>1. CASE Fail(i)
  BY <1>0, <1>a, <1>1, FailMoves DEF GoesOn, Current
<1>2. CASE Return(i) /\ UNCHANGED task
  BY <1>0, <1>a, <1>2, ReturnMoves DEF GoesOn, SameHeading
<1>3. CASE Push(i) /\ Current(i)
  BY <1>0, <1>a, <1>3, PushMoves DEF GoesOn, Current
<1>4. ASSUME Others(i), UNCHANGED task, import'[i].of = import[i].of PROVE GoesOn(i)
  BY <1>a, <1>4 DEF GoesOn, SameHeading
<1>5. CASE Lookup(i)
  <2>1. ASSUME import'[i] = [import[i] EXCEPT !.pc = "fetch"]
        PROVE  import'[i].of = import[i].of
    BY <1>0, <2>1 DEF Import
  <2> QED BY <1>a, <1>1, <1>2, <1>3, <1>4, <1>5, <2>1, LookupMoves
<1>6. CASE Fetch(i)
  <2>1. ASSUME import'[i] = [import[i] EXCEPT !.pc = "queued", !.content = Server.attempt]
        PROVE  import'[i].of = import[i].of
    BY <1>0, <2>1 DEF Import
  <2> QED BY <1>a, <1>1, <1>2, <1>4, <1>6, <2>1, FetchMoves
<1>7. CASE Begin(i)
  <2>1. ASSUME \/ import'[i] = [import[i] EXCEPT !.pc = "committed"]
               \/ import'[i] = [import[i] EXCEPT !.pc = "copied", !.folder = made + 1]
        PROVE  import'[i].of = import[i].of
    BY <1>0, <2>1 DEF Import
  <2> QED BY <1>a, <1>1, <1>2, <1>4, <1>7, <2>1, BeginMoves
<1>8. CASE End(i)
  <2>1. ASSUME \/ import'[i] = [import[i] EXCEPT !.pc = "committed"]
               \/ import'[i] = [import[i] EXCEPT !.pc = "undo"]
        PROVE  import'[i].of = import[i].of
    BY <1>0, <2>1 DEF Import
  <2> QED BY <1>a, <1>4, <1>8, <2>1, EndMoves DEF End
<1>9. CASE Committed(i)
  <2>1. ASSUME import'[i] = [import[i] EXCEPT !.pc = "undo"]
        PROVE  import'[i].of = import[i].of
    BY <1>0, <2>1 DEF Import
  <2> QED BY <1>a, <1>1, <1>2, <1>3, <1>4, <1>9, <2>1, CommittedMoves
<1>10. CASE Undo(i) BY <1>a, <1>1, <1>10 DEF Undo
<1> QED BY <1>5, <1>6, <1>7, <1>8, <1>9, <1>10 DEF Step

LEMMA AboutStep == Inv /\ [Next]_vars => (\A i \in Imports : About(i))' /\ Apart'
<1> SUFFICES ASSUME Inv, [Next]_vars
             PROVE  (\A j \in Imports : About(j)') /\ Apart'
  OBVIOUS
<1>0. TypeOK /\ LogOrdered /\ Learnt /\ Apart /\ \A j \in Imports : About(j) BY DEF Inv
<1>a. Grows BY LogStep
<1>b. \A j \in Imports : Told(import[j].of) =>
         \E n \in DOMAIN log' : log'[n] = import[j].of
  BY <1>a, ToldStays
<1>c. \A j \in Imports : import[j] \in Import BY <1>0, ImportType
<1>d. /\ task.attempt \in Nat /\ \A j \in Imports : import[j].of.attempt \in Nat
  BY <1>0, <1>c DEF TypeOK, Task, Import, Record, Attempts
<1>1. ASSUME UNCHANGED <<task, import>> PROVE (\A j \in Imports : About(j)') /\ Apart'
  BY <1>0, <1>1, <1>b DEF About, Apart, Alive, Told, Downloadable
<1>2. CASE Hear
  <2>1. PICK record \in Record :
          /\ task' = Heard(record)
          /\ \/ record.attempt > task.attempt
             \/ record.attempt = task.attempt /\ task.status = "working"
    BY <1>0, <1>2, HearMoves
  <2>2. Heading(task') = record BY <1>0, <2>1, HeardType
  <2>3. task'.attempt = record.attempt /\ record.attempt \in Nat
    BY <2>2 DEF Heading, Record, Attempts
  <2>4. UNCHANGED import BY <1>2 DEF Hear
  <2>5. ASSUME NEW j \in Imports, Alive(j) PROVE import[j].of.attempt < task'.attempt
    <3>1. /\ import[j].of.attempt <= task.attempt /\ Downloadable(import[j].of)
          /\ import[j].of.attempt = task.attempt => Heading(task) = import[j].of
      BY <1>0, <2>5 DEF About
    <3>2. CASE record.attempt > task.attempt BY <1>d, <2>3, <3>1, <3>2
    <3>3. CASE record.attempt = task.attempt /\ task.status = "working"
      <4>1. import[j].of.status # "working" BY <3>1 DEF Downloadable
      <4>2. import[j].of.attempt # task.attempt BY <3>1, <3>3, <4>1 DEF Heading
      <4> QED BY <1>d, <2>3, <3>1, <3>3, <4>2
    <3> QED BY <2>1, <3>2, <3>3
  <2>6. ASSUME NEW j \in Imports PROVE About(j)'
    <3>1. CASE ~Alive(j) BY <2>4, <3>1 DEF About, Alive
    <3>2. CASE Alive(j)
      <4>1. import[j].of.attempt <= task'.attempt /\ import[j].of.attempt # task'.attempt
        BY <1>d, <2>3, <2>5, <3>2
      <4> QED BY <1>0, <1>b, <2>4, <3>2, <4>1 DEF About, Told, Downloadable
    <3> QED BY <3>1, <3>2
  <2> QED BY <1>0, <2>4, <2>6 DEF Apart, Alive
<1>3. ASSUME NEW i \in Imports, Step(i) PROVE (\A j \in Imports : About(j)') /\ Apart'
  <2>1. GoesOn(i) BY <1>0, <1>3, StepGoesOn
  <2>2. task'.attempt = task.attempt /\ Heading(task') = Heading(task)
    BY <2>1 DEF GoesOn, SameHeading, Heading
  <2>3. ASSUME NEW j \in Imports, Alive(j)'
        PROVE  /\ Alive(j) /\ import'[j].of = import[j].of
               /\ import[j].of.attempt = task.attempt => task'.importState = task.importState
    <3>1. CASE j = i BY <2>1, <2>3, <3>1 DEF GoesOn, Alive
    <3>2. CASE j # i
      <4>1. import'[j] = import[j] /\ Alive(j) BY <2>1, <2>3, <3>2 DEF GoesOn, Others, Alive
      <4>2. Alive(i) /\ import[i].of.attempt = task.attempt => import[j].of.attempt # task.attempt
        BY <1>0, <3>2, <4>1 DEF Apart
      <4> QED BY <2>1, <4>1, <4>2 DEF GoesOn
    <3> QED BY <3>1, <3>2
  <2>4. ASSUME NEW j \in Imports PROVE About(j)'
    BY <1>0, <1>b, <2>2, <2>3 DEF About, Told, Downloadable
  <2>5. Apart' BY <1>0, <2>3 DEF Apart
  <2> QED BY <2>4, <2>5
<1>4. ASSUME NEW i \in Imports, AutoStart(i) \/ RetryImport(i)
      PROVE  (\A j \in Imports : About(j)') /\ Apart'
  <2>1. PICK from \in {"pending", "failed"} : Start(i, from)
    BY <1>4 DEF AutoStart, RetryImport
  <2>2. Downloadable(task) /\ task.importState = from /\ ~Alive(i) /\ UNCHANGED log
    BY <2>1 DEF Start, Alive
  <2>3. /\ Others(i) /\ SameHeading
        /\ \/ import'[i].pc = "free"
           \/ task'.importState = "importing" /\ import'[i].of = Heading(task)
    <3>1. Idle.pc = "free" BY DEF Idle
    <3> QED BY <1>0, <2>1, <2>2, <3>1, StartMoves DEF Alive
  <2>4. task'.attempt = task.attempt /\ Heading(task') = Heading(task)
    BY <2>3 DEF SameHeading, Heading
  <2>5. \A j \in Imports : Alive(j) => import[j].of.attempt # task.attempt
    BY <1>0, <2>1, <2>2 DEF About
  <2>6. ASSUME NEW j \in Imports, j # i
        PROVE  import'[j] = import[j] /\ (Alive(j)' => Alive(j))
    BY <2>3, <2>6 DEF Others, Alive
  <2>7. ASSUME Alive(i)'
        PROVE  /\ import'[i].of = Heading(task) /\ task'.importState = "importing"
               /\ import'[i].of.attempt = task.attempt
    BY <2>3, <2>7 DEF Alive, Heading
  <2>8. ASSUME NEW j \in Imports PROVE About(j)'
    <3>1. CASE j # i
      BY <1>0, <1>b, <2>4, <2>5, <2>6, <3>1 DEF About, Told, Downloadable
    <3>2. CASE j = i
      <4>1. Downloadable(Heading(task)) BY <2>2 DEF Downloadable, Heading
      <4>2. Told(Heading(task)) BY <1>0 DEF Learnt
      <4> QED BY <1>d, <2>2, <2>4, <2>7, <3>2, <4>1, <4>2 DEF About, Told, Downloadable
    <3> QED BY <3>1, <3>2
  <2>9. Apart' BY <1>0, <2>5, <2>6, <2>7 DEF Apart
  <2> QED BY <2>8, <2>9
<1>5. CASE Crash
  <2>1. \A j \in Imports : import'[j].pc = "free" BY <1>5 DEF Crash, Idle
  <2> QED BY <2>1 DEF About, Apart, Alive
<1> QED BY <1>1, <1>2, <1>3, <1>4, <1>5 DEF Next, vars, Conclude, NextAttempt, Flush,
           SaveFails, SaveRecovers, Bin

-----------------------------------------------------------------------------
(* The file an import holds, its directory and its attachment. *)

LEMMA ContentStep == Inv /\ [Next]_vars => (\A i \in Imports : Content(i))'
<1> SUFFICES ASSUME Inv, [Next]_vars PROVE \A j \in Imports : Content(j)'
  OBVIOUS
<1>0. /\ TypeOK /\ LogOrdered /\ Grows
      /\ \A j \in Imports : About(j) /\ Content(j)
  BY LogStep DEF Inv
<1>a. ASSUME NEW i \in Imports, import'[i].pc \in {"queued", "copied"} => import[i].content # 0,
             import'[i].content = import[i].content, import'[i].of = import[i].of,
             import'[i].mode = import[i].mode
      PROVE  Content(i)'
  <2>1. CASE import[i].content = 0 BY <1>a, <2>1 DEF Content
  <2>2. CASE import[i].content # 0
    <3>1. import[i].content >= import[i].of.attempt /\ Had(import[i].content, import[i].mode)
      BY <1>0, <2>2 DEF Content
    <3>2. PICK attempt, mode : attempt = import[i].content /\ mode = import[i].mode OBVIOUS
    <3>3. Had(attempt, mode)' BY <1>0, <3>1, <3>2, HadStays
    <3> QED BY <1>a, <3>1, <3>2, <3>3 DEF Content
  <2> QED BY <2>1, <2>2
<1>1. ASSUME UNCHANGED import PROVE \A j \in Imports : Content(j)'
  BY <1>0, <1>1, <1>a DEF Content
<1>2. ASSUME NEW i \in Imports, Others(i), Content(i)' PROVE \A j \in Imports : Content(j)'
  <2>1. ASSUME NEW j \in Imports \ {i} PROVE Content(j)'
    BY <1>0, <1>2, <1>a DEF Content, Others
  <2> QED BY <1>2, <2>1
<1>3. ASSUME NEW i \in Imports,
             import'[i] = Idle \/ (import'[i].pc = "lookup" /\ import'[i].content = 0)
      PROVE  Content(i)'
  BY <1>3 DEF Content, Idle
<1>4. ASSUME NEW i \in Imports, Step(i), Others(i) => Content(i)'
      PROVE  \A j \in Imports : Content(j)'
  BY <1>0, <1>2, <1>4, StepGoesOn DEF GoesOn
<1>5. ASSUME NEW i \in Imports,
             Fail(i) \/ Return(i) \/ Push(i)
      PROVE  Content(i)'
  BY <1>0, <1>3, <1>5, FailMoves, ReturnMoves, PushMoves
<1>6. ASSUME NEW i \in Imports, AutoStart(i) \/ RetryImport(i)
      PROVE  \A j \in Imports : Content(j)'
  <2>1. PICK from : Start(i, from) BY <1>6 DEF AutoStart, RetryImport
  <2>2. /\ Others(i)
        /\ \/ import'[i] = import[i] \/ import'[i] = Idle
           \/ import'[i].pc = "lookup" /\ import'[i].content = 0
    BY <1>0, <2>1, StartMoves
  <2>3. ASSUME import'[i] = import[i] PROVE Content(i)'
    <3>1. import[i].pc \in {"queued", "copied"} => import[i].content # 0
      BY <1>0 DEF Content
    <3> QED BY <1>a, <2>3, <3>1
  <2>4. Content(i)' BY <1>3, <2>2, <2>3
  <2> QED BY <1>2, <2>2, <2>4
<1>7. ASSUME NEW i \in Imports, Lookup(i) PROVE Content(i)'
  <2>1. ASSUME import'[i] = [import[i] EXCEPT !.pc = "fetch"] PROVE Content(i)'
    BY <1>0, <1>a, <2>1, ImportType DEF Import
  <2> QED BY <1>0, <1>5, <1>7, <2>1, LookupMoves
<1>8. ASSUME NEW i \in Imports, Fetch(i) PROVE Content(i)'
  <2>1. ASSUME import'[i] = [import[i] EXCEPT !.pc = "queued", !.content = Server.attempt],
               import[i].mode \in Server.files
        PROVE  Content(i)'
    <3>1. Alive(i) BY <1>8 DEF Fetch, Alive
    <3>2. Told(import[i].of) BY <1>0, <3>1 DEF About
    <3>3. import[i].of.attempt <= Server.attempt BY <1>0, <3>2, ToldIsPast
    <3>4. Server.attempt # 0 /\ Server.attempt \in Nat /\ import[i].of.attempt \in Nat
      BY <1>0, LogType, ImportType DEF Record, Attempts
    <3>5. PICK attempt, mode : attempt = Server.attempt /\ mode = import[i].mode OBVIOUS
    <3>6. Had(attempt, mode) BY <1>0, <2>1, <3>5, LogType DEF Had, Server
    <3>7. Had(attempt, mode)' BY <1>0, <3>6, HadStays
    <3>8. /\ import'[i].of = import[i].of /\ import'[i].mode = mode
          /\ import'[i].content = attempt
      BY <1>0, <2>1, <3>5, ImportType DEF Import
    <3> QED BY <3>3, <3>4, <3>5, <3>7, <3>8 DEF Content
  <2> QED BY <1>0, <1>5, <1>8, <2>1, FetchMoves
<1>9. ASSUME NEW i \in Imports, Begin(i) PROVE Content(i)'
  <2>1. ASSUME \/ import'[i] = [import[i] EXCEPT !.pc = "committed"]
               \/ import'[i] = [import[i] EXCEPT !.pc = "copied", !.folder = made + 1]
        PROVE  Content(i)'
    <3>1. import[i].content # 0 BY <1>0, <1>9 DEF Begin, Content
    <3>2. /\ import'[i].of = import[i].of /\ import'[i].content = import[i].content
          /\ import'[i].mode = import[i].mode
      BY <1>0, <2>1, ImportType DEF Import
    <3> QED BY <1>a, <3>1, <3>2
  <2> QED BY <1>0, <1>5, <1>9, <2>1, BeginMoves
<1>10. ASSUME NEW i \in Imports, End(i) \/ Committed(i) PROVE Content(i)'
  <2>1. ASSUME \/ import'[i] = [import[i] EXCEPT !.pc = "committed"]
               \/ import'[i] = [import[i] EXCEPT !.pc = "undo"]
        PROVE  Content(i)'
    <3>1. /\ import'[i].of = import[i].of /\ import'[i].content = import[i].content
          /\ import'[i].mode = import[i].mode /\ import'[i].pc \notin {"queued", "copied"}
      BY <1>0, <2>1, ImportType DEF Import
    <3> QED BY <1>a, <3>1
  <2> QED BY <1>0, <1>5, <1>10, <2>1, EndMoves, CommittedMoves
<1>11. ASSUME NEW i \in Imports, Undo(i) PROVE Content(i)'
  BY <1>5, <1>11 DEF Undo
<1>12. CASE Crash BY <1>12 DEF Crash, Idle, Content
<1>13. ASSUME NEW i \in Imports, Step(i) PROVE \A j \in Imports : Content(j)'
  BY <1>4, <1>7, <1>8, <1>9, <1>10, <1>11, <1>13 DEF Step
<1> QED BY <1>1, <1>6, <1>12, <1>13 DEF Next, vars, Conclude, NextAttempt, Hear,
           Flush, SaveFails, SaveRecovers, Bin

\* All that is said of directories: by the imports and by the disk.
Directories ==
    (\A i \in Imports : Directory(i)) /\ OwnDirectory /\ SavedOnce

\* An import without a directory that moves to a place where it needs none.
LEMMA WithoutDirectory ==
    ASSUME TypeOK, Directories, NEW i \in Imports, Others(i),
           UNCHANGED <<tx, attachments, folders, orphans, made>>,
           import[i].pc \notin {"copied", "undo"},
           import'[i].folder = 0, import'[i].pc \notin {"copied", "undo"},
           import'[i].pc = "committed" => Receipt(Key(i))' # {}
    PROVE  Directories'
<1> USE DEF Directories
<1>1. ASSUME NEW j \in Imports, j # i PROVE Directory(j)'
  <2>1. import'[j] = import[j] BY <1>1 DEF Others
  <2> QED BY <2>1 DEF Directory, Receipt, Key
<1>2. Directory(i)' BY DEF Directory, TypeOK
<1>3. OwnDirectory' BY DEF OwnDirectory, Others
<1>4. SavedOnce'
  <2>1. ASSUME NEW f \in folders, NEW j \in Imports,
               import[j].pc \in {"copied", "undo"} /\ import[j].folder = f
        PROVE  import'[j].pc \in {"copied", "undo"} /\ import'[j].folder = f
    BY <2>1 DEF Others
  <2> QED BY <2>1 DEF SavedOnce
<1> QED BY <1>1, <1>2, <1>3, <1>4

LEMMA DirectoriesStep == Inv /\ [Next]_vars => Directories'
<1> SUFFICES ASSUME Inv, [Next]_vars PROVE Directories' OBVIOUS
<1>0. TypeOK /\ Directories /\ Apart BY DEF Inv, Directories
<1>a. \A j \in Imports : Directory(j) BY <1>0 DEF Directories
<1>b. \A j \in Imports : import[j] \in Import BY <1>0, ImportType
<1>c. made \in Nat /\ folders \subseteq 1..made BY <1>0 DEF TypeOK
<1>1. ASSUME UNCHANGED <<import, tx, attachments, folders, orphans, made>>
      PROVE  Directories'
  <2>1. ASSUME NEW j \in Imports PROVE Directory(j)'
    BY <1>a, <1>1 DEF Directory, Receipt, Key
  <2>2. OwnDirectory' BY <1>0, <1>1 DEF Directories, OwnDirectory
  <2>3. SavedOnce' BY <1>0, <1>1 DEF Directories, SavedOnce
  <2> QED BY <2>1, <2>2, <2>3 DEF Directories
<1>2. ASSUME NEW i \in Imports,
             UNCHANGED <<tx, attachments, folders, orphans, made>>,
             import[i].pc \notin {"copied", "undo"},
             \/ Fail(i) \/ Return(i) \/ Push(i)
             \/ Others(i) /\ import'[i] = import[i]
             \/ Others(i) /\ import'[i] = Idle
             \/ Others(i) /\ import'[i].folder = 0 /\ import'[i].pc = "lookup"
             \/ /\ Others(i) /\ import[i].folder = 0
                /\ import'[i] = [import[i] EXCEPT !.pc = "fetch"]
             \/ /\ Others(i) /\ import[i].folder = 0
                /\ import'[i] = [import[i] EXCEPT !.pc = "queued", !.content = Server.attempt]
             \/ /\ Others(i) /\ import[i].folder = 0 /\ Receipt(Key(i)) # {}
                /\ import'[i] = [import[i] EXCEPT !.pc = "committed"]
      PROVE  Directories'
  <2>1. Idle.folder = 0 /\ Idle.pc = "free" BY DEF Idle
  <2>2. CASE Others(i) /\ import'[i] = import[i]
    <3>1. \A j \in Imports : import'[j] = import[j] BY <2>2 DEF Others
    <3>2. UNCHANGED import BY <1>0, <2>2, <3>1 DEF TypeOK, Others
    <3> QED BY <1>1, <1>2, <3>2
  <2>3. CASE Fail(i) \/ Return(i) \/ Push(i) \/ (Others(i) /\ import'[i] = Idle)
             \/ (Others(i) /\ import'[i].folder = 0 /\ import'[i].pc = "lookup")
    <3>1. Others(i) /\ import'[i].folder = 0 /\ import'[i].pc \in {"free", "lookup"}
      BY <1>0, <2>1, <2>3, FailMoves, ReturnMoves, PushMoves
    <3> QED BY <1>0, <1>2, <3>1, WithoutDirectory
  <2>4. CASE /\ Others(i) /\ import[i].folder = 0
             /\ \/ import'[i] = [import[i] EXCEPT !.pc = "fetch"]
                \/ import'[i] = [import[i] EXCEPT !.pc = "queued", !.content = Server.attempt]
    <3>1. import'[i].folder = 0 /\ import'[i].pc \in {"fetch", "queued"}
      BY <1>b, <2>4 DEF Import
    <3> QED BY <1>0, <1>2, <2>4, <3>1, WithoutDirectory
  <2>5. CASE /\ Others(i) /\ import[i].folder = 0 /\ Receipt(Key(i)) # {}
             /\ import'[i] = [import[i] EXCEPT !.pc = "committed"]
    <3>1. /\ import'[i].folder = 0 /\ import'[i].pc = "committed"
          /\ import'[i].of = import[i].of /\ import'[i].mode = import[i].mode
      BY <1>b, <2>5 DEF Import
    <3>2. Receipt(Key(i))' # {} BY <1>2, <2>5, <3>1 DEF Receipt, Key
    <3> QED BY <1>0, <1>2, <2>5, <3>1, <3>2, WithoutDirectory
  <2> QED BY <1>2, <2>2, <2>3, <2>4, <2>5
<1>3. ASSUME NEW i \in Imports, AutoStart(i) \/ RetryImport(i) PROVE Directories'
  <2>1. PICK from : Start(i, from) BY <1>3 DEF AutoStart, RetryImport
  <2>2. import[i].pc = "free" /\ UNCHANGED <<tx, attachments, folders, orphans, made>>
    BY <2>1 DEF Start, disk
  <2> QED BY <1>0, <1>2, <2>1, <2>2, StartMoves
<1>4. ASSUME NEW i \in Imports, Lookup(i) PROVE Directories'
  <2>1. import[i].pc = "lookup" /\ UNCHANGED <<tx, attachments, folders, orphans, made>>
    BY <1>4 DEF Lookup, disk
  <2>2. import[i].folder = 0 BY <1>a, <2>1 DEF Directory
  <2> QED BY <1>0, <1>2, <1>4, <2>1, <2>2, LookupMoves
<1>5. ASSUME NEW i \in Imports, Fetch(i) PROVE Directories'
  <2>1. import[i].pc = "fetch" /\ UNCHANGED <<tx, attachments, folders, orphans, made>>
    BY <1>5 DEF Fetch, disk
  <2>2. import[i].folder = 0 BY <1>a, <2>1 DEF Directory
  <2> QED BY <1>0, <1>2, <1>5, <2>1, <2>2, FetchMoves
<1>6. ASSUME NEW i \in Imports, Others(i),
             import'[i].of = import[i].of, import'[i].mode = import[i].mode
      PROVE  /\ Key(i)' = Key(i)
             /\ \A j \in Imports \ {i} : import'[j] = import[j] /\ Key(j)' = Key(j)
  BY <1>6 DEF Key, Others
<1>7. ASSUME NEW i \in Imports, Begin(i) PROVE Directories'
  <2>1. /\ import[i].pc = "queued" /\ tx = 0 /\ UNCHANGED <<attachments, orphans>>
    BY <1>7 DEF Begin
  <2>2. import[i].folder = 0 BY <1>a, <2>1 DEF Directory
  <2>3. CASE UNCHANGED <<tx, made, folders>>
             /\ (Return(i) \/ Fail(i)
                 \/ (/\ Others(i) /\ Receipt(Key(i)) # {}
                     /\ import'[i] = [import[i] EXCEPT !.pc = "committed"]))
    BY <1>2, <2>1, <2>2, <2>3
  <2>4. CASE /\ import'[i] = [import[i] EXCEPT !.pc = "copied", !.folder = made + 1]
             /\ Receipt(Key(i)) = {} /\ tx' = i /\ made' = made + 1
             /\ folders' = folders \cup {made + 1} /\ Others(i)
    <3>1. /\ import'[i].pc = "copied" /\ import'[i].folder = made + 1
          /\ import'[i].of = import[i].of /\ import'[i].mode = import[i].mode
      BY <1>b, <2>4 DEF Import
    <3>2. Key(i)' = Key(i) /\ \A j \in Imports \ {i} : import'[j] = import[j] /\ Key(j)' = Key(j)
      BY <1>6, <2>4, <3>1
    <3>3. ASSUME NEW key PROVE Receipt(key)' = Receipt(key) BY <2>1 DEF Receipt
    <3>4. /\ \A j \in Imports : import[j].folder <= made /\ import[j].folder \in Nat
          /\ \A a \in attachments : a.folder \in folders
      BY <1>0, <1>a, <1>b DEF Directory, Import, Directories, SavedOnce
    <3>5. ASSUME NEW j \in Imports, j # i PROVE Directory(j)'
      <4>1. import[j].pc # "copied" BY <1>a, <2>1, <1>b, <1>0 DEF Directory, Imports
      <4>2. import[j].folder <= made' BY <1>c, <2>4, <3>4
      <4> QED BY <1>a, <2>1, <3>2, <3>3, <3>5, <4>1, <4>2 DEF Directory
    <3>6. Directory(i)'
      <4>1. \A a \in attachments : a.folder # made + 1 BY <1>c, <3>4
      <4>2. made + 1 # 0 /\ made + 1 <= made' /\ made + 1 \in folders' BY <1>c, <2>4
      <4> QED BY <2>1, <2>4, <3>1, <3>2, <3>3, <4>1, <4>2 DEF Directory
    <3>7. OwnDirectory'
      <4>1. \A j \in Imports : import[j].folder # made + 1 BY <1>c, <3>4
      <4> QED BY <1>0, <3>1, <3>2, <4>1 DEF Directories, OwnDirectory
    <3>8. SavedOnce'
      <4>1. ASSUME NEW f \in folders'
            PROVE  \/ f \in orphans'
                   \/ \E a \in attachments' : a.folder = f
                   \/ \E j \in Imports :
                        import'[j].pc \in {"copied", "undo"} /\ import'[j].folder = f
        <5>1. CASE f = made + 1 BY <3>1, <5>1
        <5>2. CASE f \in folders
          <6>1. CASE \E j \in Imports : import[j].pc \in {"copied", "undo"} /\ import[j].folder = f
            BY <2>1, <3>2, <6>1
          <6> QED BY <1>0, <2>1, <5>2, <6>1 DEF Directories, SavedOnce
        <5> QED BY <2>4, <5>1, <5>2
      <4>2. /\ \A a, b \in attachments' : a.key = b.key \/ a.folder = b.folder => a = b
            /\ \A a \in attachments' : a.folder \in folders'
        BY <1>0, <2>1, <2>4 DEF Directories, SavedOnce
      <4> QED BY <4>1, <4>2 DEF SavedOnce
    <3> QED BY <3>5, <3>6, <3>7, <3>8 DEF Directories
  <2> QED BY <1>0, <1>7, <2>3, <2>4, BeginMoves
<1>8. ASSUME NEW i \in Imports, End(i) PROVE Directories'
  <2>1. /\ import[i].pc = "copied" /\ tx' = 0
        /\ UNCHANGED <<folders, orphans, made>>
    BY <1>8 DEF End
  <2>2. /\ tx = i /\ Receipt(Key(i)) = {} /\ import[i].folder \in folders
        /\ import[i].folder # 0
        /\ \A a \in attachments : a.folder = import[i].folder => a.key = Key(i)
    BY <1>a, <2>1 DEF Directory
  <2>3. \A a \in attachments : a.folder # import[i].folder /\ a.key # Key(i)
    BY <2>2 DEF Receipt
  <2>4. PICK place \in {"committed", "undo"} :
          /\ import'[i] = [import[i] EXCEPT !.pc = place] /\ Others(i)
          /\ \/ place = "committed" /\ attachments' = attachments \cup {Made(i)}
             \/ place = "undo" /\ UNCHANGED attachments
    BY <1>0, <1>8, EndMoves
  <2>5. /\ import'[i].pc = place /\ import'[i].folder = import[i].folder
        /\ import'[i].of = import[i].of /\ import'[i].mode = import[i].mode
    BY <1>b, <2>4 DEF Import
  <2>6. Key(i)' = Key(i) /\ \A j \in Imports \ {i} : import'[j] = import[j] /\ Key(j)' = Key(j)
    BY <1>6, <2>4, <2>5
  <2>7. Made(i).key = Key(i) /\ Made(i).folder = import[i].folder BY DEF Made
  <2>8. ASSUME NEW j \in Imports, j # i, Alive(j) PROVE Key(j) # Key(i)
    <3>1. Alive(i) BY <2>1 DEF Alive
    <3> QED BY <1>0, <2>8, <3>1 DEF Apart, Key
  <2>9. ASSUME NEW j \in Imports, j # i PROVE Directory(j)'
    <3>1. import[j].pc # "copied" BY <1>a, <2>2, <2>9 DEF Directory
    <3>2. import[j].folder # 0 => import[j].folder # import[i].folder
      BY <1>0, <2>9 DEF Directories, OwnDirectory
    <3>3. attachments \subseteq attachments' BY <2>4
    <3>4. Receipt(Key(j)) \subseteq Receipt(Key(j))' BY <2>6, <2>9, <3>3 DEF Receipt
    <3>5. Alive(j) => Receipt(Key(j))' = Receipt(Key(j))
      BY <2>4, <2>6, <2>7, <2>8, <2>9 DEF Receipt
    <3>6. import[j].folder # 0 =>
            \A a \in attachments' : a.folder = import[j].folder => a.key = Key(j)
      BY <1>a, <2>4, <2>7, <3>2 DEF Directory
    <3>7. import[j].folder # 0 => Alive(j) BY <1>a DEF Directory, Alive
    <3> QED BY <1>a, <2>1, <2>6, <2>9, <3>1, <3>3, <3>4, <3>5, <3>6, <3>7 DEF Directory
  <2>10. Directory(i)'
    <3>1. \A a \in attachments' : a.folder = import[i].folder => a.key = Key(i)
      BY <2>3, <2>4, <2>7
    <3>2. import[i].folder <= made BY <1>a DEF Directory
    <3>3. CASE place = "committed"
      <4>1. Made(i) \in attachments' BY <2>4, <3>3
      <4>2. Receipt(Key(i))' # {} BY <2>6, <2>7, <4>1 DEF Receipt
      <4> QED BY <2>1, <2>2, <2>5, <2>6, <2>7, <3>1, <3>2, <3>3, <4>1, <4>2 DEF Directory
    <3>4. CASE place = "undo"
      <4>1. Receipt(Key(i))' = {} BY <2>2, <2>4, <2>6, <3>4 DEF Receipt
      <4> QED BY <2>1, <2>2, <2>5, <2>6, <3>1, <3>2, <3>4, <4>1 DEF Directory
    <3> QED BY <3>3, <3>4
  <2>11. OwnDirectory' BY <1>0, <2>5, <2>6 DEF Directories, OwnDirectory
  <2>12. SavedOnce'
    <3>1. /\ \A a, b \in attachments' : a.key = b.key \/ a.folder = b.folder => a = b
          /\ \A a \in attachments' : a.folder \in folders'
      BY <1>0, <2>1, <2>2, <2>3, <2>4, <2>7 DEF Directories, SavedOnce
    <3>2. ASSUME NEW f \in folders'
          PROVE  \/ f \in orphans'
                 \/ \E a \in attachments' : a.folder = f
                 \/ \E j \in Imports : import'[j].pc \in {"copied", "undo"} /\ import'[j].folder = f
      <4>1. CASE f = import[i].folder BY <2>4, <2>5, <2>7, <4>1
      <4>2. CASE f # import[i].folder
        <5>1. \/ f \in orphans \/ \E a \in attachments : a.folder = f
              \/ \E j \in Imports : import[j].pc \in {"copied", "undo"} /\ import[j].folder = f
          BY <1>0, <2>1, <3>2 DEF Directories, SavedOnce
        <5> QED BY <2>1, <2>4, <2>6, <4>2, <5>1
      <4> QED BY <4>1, <4>2
    <3> QED BY <3>1, <3>2 DEF SavedOnce
  <2> QED BY <2>9, <2>10, <2>11, <2>12 DEF Directories
<1>9. ASSUME NEW i \in Imports, Committed(i) PROVE Directories'
  <2>1. /\ import[i].pc = "committed"
        /\ UNCHANGED <<tx, attachments, folders, orphans, made>>
    BY <1>9 DEF Committed, disk
  <2>2. CASE /\ import'[i] = [import[i] EXCEPT !.pc = "undo"] /\ import[i].folder # 0
             /\ Others(i)
    <3>1. /\ import'[i].pc = "undo" /\ import'[i].folder = import[i].folder
          /\ import'[i].of = import[i].of /\ import'[i].mode = import[i].mode
      BY <1>b, <2>2 DEF Import
    <3>2. Key(i)' = Key(i) /\ \A j \in Imports \ {i} : import'[j] = import[j] /\ Key(j)' = Key(j)
      BY <1>6, <2>2, <3>1
    <3>3. ASSUME NEW key PROVE Receipt(key)' = Receipt(key) BY <2>1 DEF Receipt
    <3>4. ASSUME NEW j \in Imports, j # i PROVE Directory(j)'
      BY <1>a, <2>1, <3>2, <3>3, <3>4 DEF Directory
    <3>5. Directory(i)' BY <1>a, <2>1, <2>2, <3>1, <3>2, <3>3 DEF Directory
    <3>6. OwnDirectory' BY <1>0, <3>1, <3>2 DEF Directories, OwnDirectory
    <3>7. SavedOnce'
      <4>1. ASSUME NEW j \in Imports, import[j].pc \in {"copied", "undo"}
            PROVE  import'[j] = import[j]
        BY <2>1, <3>2, <4>1
      <4> QED BY <1>0, <2>1, <4>1 DEF Directories, SavedOnce
    <3> QED BY <3>4, <3>5, <3>6, <3>7 DEF Directories
  <2> QED BY <1>0, <1>2, <1>9, <2>1, <2>2, CommittedMoves
<1>10. ASSUME NEW i \in Imports, Undo(i) PROVE Directories'
  <2>1. import[i].pc = "undo" /\ UNCHANGED <<tx, attachments, made>>
    BY <1>10 DEF Undo
  <2>2. import'[i] = Idle /\ Others(i) BY <1>0, <1>10, FailMoves DEF Undo
  <2>3. /\ import'[i].pc = "free" /\ import'[i].folder = 0
        /\ \A j \in Imports \ {i} : import'[j] = import[j]
    BY <2>2 DEF Idle, Others
  <2>4. /\ import[i].folder # 0
        /\ \A a \in attachments : a.folder = import[i].folder => a.key = Key(i)
        /\ Receipt(Key(i)) # {} => \E a \in attachments : a.folder = import[i].folder
    BY <1>a, <2>1 DEF Directory
  <2>5. Receipt(Key(i)) = {} => \A a \in attachments : a.folder # import[i].folder
    BY <2>4 DEF Receipt
  <2>6. /\ folders \ {import[i].folder} \subseteq folders' /\ folders' \subseteq folders
        /\ orphans \subseteq orphans'
        /\ \/ Receipt(Key(i)) # {} /\ folders' = folders
           \/ Receipt(Key(i)) = {} /\ import[i].folder \in orphans'
           \/ Receipt(Key(i)) = {} /\ import[i].folder \notin folders'
    BY <1>10 DEF Undo
  <2>7. ASSUME NEW j \in Imports, j # i PROVE Directory(j)'
    <3>1. Key(j)' = Key(j) /\ Receipt(Key(j))' = Receipt(Key(j))
      BY <2>1, <2>3, <2>7 DEF Key, Receipt
    <3>2. import[j].folder # 0 => import[j].folder # import[i].folder
      BY <1>0, <2>7 DEF Directories, OwnDirectory
    <3>3. import[j].pc = "copied" => import[j].folder \in folders'
      BY <1>a, <2>6, <3>2 DEF Directory
    <3> QED BY <1>a, <2>1, <2>3, <2>7, <3>1, <3>3 DEF Directory
  <2>8. Directory(i)' BY <1>c, <2>1, <2>3 DEF Directory
  <2>9. OwnDirectory' BY <1>0, <2>3 DEF Directories, OwnDirectory
  <2>10. SavedOnce'
    <3>1. \A a, b \in attachments' : a.key = b.key \/ a.folder = b.folder => a = b
      BY <1>0, <2>1 DEF Directories, SavedOnce
    <3>2. \A a \in attachments' : a.folder \in folders'
      BY <1>0, <2>1, <2>5, <2>6 DEF Directories, SavedOnce
    <3>3. ASSUME NEW f \in folders'
          PROVE  \/ f \in orphans'
                 \/ \E a \in attachments' : a.folder = f
                 \/ \E j \in Imports : import'[j].pc \in {"copied", "undo"} /\ import'[j].folder = f
      <4>1. CASE f = import[i].folder BY <2>1, <2>4, <2>6, <4>1
      <4>2. CASE f # import[i].folder
        <5>1. \/ f \in orphans \/ \E a \in attachments : a.folder = f
              \/ \E j \in Imports : import[j].pc \in {"copied", "undo"} /\ import[j].folder = f
          BY <1>0, <2>6, <3>3 DEF Directories, SavedOnce
        <5> QED BY <2>1, <2>3, <2>6, <4>2, <5>1
      <4> QED BY <4>1, <4>2
    <3> QED BY <3>1, <3>2, <3>3 DEF SavedOnce
  <2> QED BY <2>7, <2>8, <2>9, <2>10 DEF Directories
<1>11. CASE Crash
  <2>1. /\ \A j \in Imports : import'[j].pc = "free" /\ import'[j].folder = 0
        /\ UNCHANGED <<attachments, folders, made>>
    BY <1>11 DEF Crash, Idle
  <2>2. ASSUME NEW j \in Imports PROVE Directory(j)' BY <1>c, <2>1 DEF Directory
  <2>3. OwnDirectory' BY <2>1 DEF OwnDirectory
  <2>4. /\ orphans \subseteq orphans'
        /\ \A j \in Imports : import[j].pc \in {"copied", "undo"} =>
              \/ import[j].folder \in orphans'
              \/ \E a \in attachments : a.folder = import[j].folder
    BY <1>11 DEF Crash
  <2>5. SavedOnce' BY <1>0, <2>1, <2>4 DEF Directories, SavedOnce
  <2> QED BY <2>2, <2>3, <2>5 DEF Directories
<1> QED BY <1>1, <1>3, <1>4, <1>5, <1>7, <1>8, <1>9, <1>10, <1>11 DEF Next, Step, vars, disk,
           Conclude, NextAttempt, Hear, Flush, SaveFails, SaveRecovers, Bin

-----------------------------------------------------------------------------
(* Receipts and results. *)

LEMMA AttachmentsStay ==
    ASSUME TypeOK, [Next]_vars
    PROVE  attachments \subseteq attachments'
<1>1. ASSUME NEW i \in Imports, End(i) PROVE attachments \subseteq attachments'
  BY <1>1, EndMoves
<1> QED BY <1>1 DEF Next, Step, vars, disk, Conclude, NextAttempt, Hear, AutoStart, RetryImport,
           Start, Lookup, Fetch, Begin, Committed, Undo, Flush, SaveFails, SaveRecovers, Bin, Crash

LEMMA ResultsStep == Inv /\ [Next]_vars => Results'
<1> SUFFICES ASSUME Inv, [Next]_vars, NEW a \in attachments' PROVE Genuine(a)'
  BY DEF Results
<1>0. TypeOK /\ Results /\ Grows BY LogStep DEF Inv
<1>1. ASSUME Genuine(a) PROVE Genuine(a)'
  <2>1. PICK attempt, mode : attempt = a.content /\ mode = a.key[2] OBVIOUS
  <2>2. Had(attempt, mode)' BY <1>0, <1>1, <2>1, HadStays DEF Genuine
  <2> QED BY <1>1, <2>1, <2>2 DEF Genuine
<1>2. CASE a \in attachments BY <1>0, <1>1, <1>2 DEF Results
<1>3. ASSUME NEW i \in Imports, End(i), a \notin attachments PROVE Genuine(a)'
  <2>1. a = Made(i) BY <1>0, <1>3, EndMoves
  <2>2. /\ a.content = import[i].content /\ a.key[1] = import[i].of.attempt
        /\ a.key[2] = import[i].mode
    BY <2>1 DEF Made, Key
  <2>3. import[i].pc = "copied" /\ Content(i) BY <1>3 DEF Inv, End
  <2> QED BY <1>1, <2>2, <2>3 DEF Content, Genuine
<1> QED BY <1>2, <1>3 DEF Next, Step, vars, disk, Conclude, NextAttempt, Hear, AutoStart,
           RetryImport, Start, Lookup, Fetch, Begin, Committed, Undo, Flush, SaveFails,
           SaveRecovers, Bin, Crash

LEMMA ReceiptsStep == Inv /\ [Next]_vars => Receipts'
<1> SUFFICES ASSUME Inv, [Next]_vars PROVE Receipts' OBVIOUS
<1>0. /\ TypeOK /\ LogOrdered /\ Receipts
      /\ \A i \in Imports : About(i) /\ Directory(i)
  BY DEF Inv
<1>a. attachments \subseteq attachments' BY <1>0, AttachmentsStay
<1>b. ASSUME NEW key, Receipt(key) # {} PROVE Receipt(key)' # {}
  BY <1>a, <1>b DEF Receipt
<1>c. ASSUME NEW keys, Saved(keys) PROVE Saved(keys)'
  BY <1>b, <1>c DEF Saved
<1>d. ASSUME NEW t, WhollySaved(t) PROVE WhollySaved(t)'
  BY <1>b, <1>d DEF WhollySaved, Downloadable, Wanted
\* The parts of the statement, from what the step does to task, stored and import.
<1>e. ASSUME NEW i \in Imports, Step(i) \/ AutoStart(i) \/ RetryImport(i),
             Others(i), Saved(import'[i].done), Saved(task'.imported), WhollySaved(task')
      PROVE  Receipts'
  <2>1. UNCHANGED stored
    BY <1>e DEF Step, Lookup, Fetch, Begin, End, Committed, Undo, AutoStart, RetryImport, Start
  <2>2. \A j \in Imports : Saved(import'[j].done) BY <1>0, <1>e DEF Receipts, Others
  <2>3. Saved(task.imported)' BY <1>c, <1>e DEF Saved
  <2>4. Saved(stored.imported)' BY <1>0, <1>c, <2>1 DEF Receipts, Saved
  <2>5. (\A j \in Imports : Saved(import[j].done))' BY <1>c, <2>2 DEF Saved
  <2>6. WhollySaved(task)' BY <1>d, <1>e DEF WhollySaved
  <2>7. WhollySaved(stored)' BY <1>0, <1>d, <2>1 DEF Receipts, WhollySaved
  <2> QED BY <2>3, <2>4, <2>5, <2>6, <2>7 DEF Receipts
<1>1. ASSUME NEW i \in Imports, Step(i) PROVE Receipts'
  <2>0. Saved(import[i].done) /\ Saved(task.imported) /\ WhollySaved(task)
    BY <1>0 DEF Receipts
  <2>1. Idle.done = {} BY DEF Idle
  <2>2. CASE Fail(i)
    <3>1. /\ Others(i) /\ import'[i] = Idle /\ task'.imported = task.imported
          /\ task' = task \/ task'.importState = "failed"
      BY <1>0, <2>2, FailMoves
    <3>2. WhollySaved(task') BY <2>0, <3>1 DEF WhollySaved
    <3>3. Saved(import'[i].done) BY <2>1, <3>1 DEF Saved
    <3> QED BY <1>1, <1>e, <2>0, <3>1, <3>2, <3>3
  <2>3. CASE Return(i) /\ UNCHANGED task
    <3>1. Others(i) /\ import'[i] = Idle BY <1>0, <2>3, ReturnMoves
    <3>2. Saved(import'[i].done) BY <2>1, <3>1 DEF Saved
    <3> QED BY <1>1, <1>e, <2>0, <2>3, <3>1, <3>2
  <2>4. CASE Push(i) /\ Current(i) /\ Receipt(Key(i)) # {} /\ Alive(i)
    <3>1. Saved(Pushed(i)) BY <2>0, <2>4 DEF Saved, Pushed
    <3>2. /\ Others(i) /\ SameHeading /\ task'.imported = Pushed(i)
          /\ \/ /\ import'[i] = Idle /\ task'.importState = "imported"
                /\ \A m \in Wanted(import[i].of) : <<import[i].of.attempt, m>> \in Pushed(i)
             \/ task'.importState = task.importState /\ import'[i].done = Pushed(i)
      BY <1>0, <2>4, PushMoves
    <3>3. /\ task.importState = "importing" /\ Heading(task') = import[i].of
          /\ Downloadable(import[i].of)
      BY <1>0, <2>4, <3>2 DEF Current, About, SameHeading
    <3>4. WhollySaved(task')
      <4>1. CASE task'.importState = "imported"
                 /\ \A m \in Wanted(import[i].of) : <<import[i].of.attempt, m>> \in Pushed(i)
        <5>1. /\ Downloadable(task') /\ Wanted(task') = Wanted(import[i].of)
              /\ task'.attempt = import[i].of.attempt
          BY <3>3 DEF Heading, Downloadable, Wanted
        <5> QED BY <3>1, <4>1, <5>1 DEF WhollySaved, Saved
      <4>2. CASE task'.importState = task.importState BY <3>3, <4>2 DEF WhollySaved
      <4> QED BY <3>2, <4>1, <4>2
    <3>5. Saved(import'[i].done) BY <2>1, <3>1, <3>2 DEF Saved
    <3> QED BY <1>1, <1>e, <3>1, <3>2, <3>4, <3>5
  <2>5. CASE Others(i) /\ import'[i].done = import[i].done /\ UNCHANGED task
    BY <1>1, <1>e, <2>0, <2>5
  <2>6. import[i] \in Import BY <1>0, ImportType
  <2>7. CASE Lookup(i)
    <3>1. ASSUME import'[i] = [import[i] EXCEPT !.pc = "fetch"]
          PROVE  import'[i].done = import[i].done
      BY <2>6, <3>1 DEF Import
    <3>2. Alive(i) BY <2>7 DEF Lookup, Alive
    <3> QED BY <1>0, <2>2, <2>3, <2>4, <2>5, <2>7, <3>1, <3>2, LookupMoves
  <2>8. CASE Fetch(i)
    <3>1. ASSUME import'[i] = [import[i] EXCEPT !.pc = "queued", !.content = Server.attempt]
          PROVE  import'[i].done = import[i].done
      BY <2>6, <3>1 DEF Import
    <3> QED BY <1>0, <2>2, <2>3, <2>5, <2>8, <3>1, FetchMoves
  <2>9. CASE Begin(i)
    <3>1. ASSUME \/ import'[i] = [import[i] EXCEPT !.pc = "committed"]
                 \/ import'[i] = [import[i] EXCEPT !.pc = "copied", !.folder = made + 1]
          PROVE  import'[i].done = import[i].done
      BY <2>6, <3>1 DEF Import
    <3> QED BY <1>0, <2>2, <2>3, <2>5, <2>9, <3>1, BeginMoves
  <2>10. CASE End(i)
    <3>1. ASSUME \/ import'[i] = [import[i] EXCEPT !.pc = "committed"]
                 \/ import'[i] = [import[i] EXCEPT !.pc = "undo"]
          PROVE  import'[i].done = import[i].done
      BY <2>6, <3>1 DEF Import
    <3> QED BY <1>0, <2>5, <2>10, <3>1, EndMoves DEF End
  <2>11. CASE Committed(i)
    <3>1. ASSUME import'[i] = [import[i] EXCEPT !.pc = "undo"]
          PROVE  import'[i].done = import[i].done
      BY <2>6, <3>1 DEF Import
    <3>2. Receipt(Key(i)) # {} /\ Alive(i) BY <1>0, <2>11 DEF Committed, Directory, Alive
    <3> QED BY <1>0, <2>2, <2>3, <2>4, <2>5, <2>11, <3>1, <3>2, CommittedMoves
  <2>12. CASE Undo(i) BY <2>2, <2>12 DEF Undo
  <2> QED BY <1>1, <2>7, <2>8, <2>9, <2>10, <2>11, <2>12 DEF Step
<1>2. ASSUME NEW i \in Imports, AutoStart(i) \/ RetryImport(i) PROVE Receipts'
  <2>0. Saved(import[i].done) /\ Saved(task.imported) BY <1>0 DEF Receipts
  <2>1. PICK from : Start(i, from) BY <1>2 DEF AutoStart, RetryImport
  <2>2. Downloadable(task) BY <2>1 DEF Start
  <2>3. /\ Others(i) /\ SameHeading /\ task'.imported = task.imported
        /\ \/ import'[i] = import[i] /\ task'.importState = "failed"
           \/ /\ import'[i] = Idle /\ task'.importState = "imported"
              /\ \A m \in Wanted(task) : <<task.attempt, m>> \in task.imported
           \/ task'.importState = "importing" /\ import'[i].done = task.imported
    BY <1>0, <2>1, StartMoves
  <2>4. Saved(import'[i].done)
    <3>1. Idle.done = {} BY DEF Idle
    <3> QED BY <2>0, <2>3, <3>1 DEF Saved
  <2>5. WhollySaved(task')
    <3>1. /\ Downloadable(task') /\ Wanted(task') = Wanted(task)
          /\ task'.attempt = task.attempt
      BY <2>2, <2>3 DEF SameHeading, Heading, Downloadable, Wanted
    <3> QED BY <2>0, <2>3, <3>1 DEF WhollySaved, Saved
  <2> QED BY <1>2, <1>e, <2>0, <2>3, <2>4, <2>5
<1>3. CASE Hear
  <2>1. PICK record \in Record :
          /\ task' = Heard(record)
          /\ \/ record.attempt > task.attempt
             \/ record.attempt = task.attempt /\ task.status = "working"
    BY <1>0, <1>3, HearMoves
  <2>2. /\ Heading(Heard(record)) = record
        /\ Heard(record).imported \subseteq task.imported
        /\ Heard(record).importState = "imported" =>
              task.importState = "imported" /\ ~(record.attempt > task.attempt)
    BY <1>0, HeardType
  <2>3. Saved(task'.imported) BY <1>0, <2>1, <2>2 DEF Receipts, Saved
  <2>4. task'.importState # "imported"
    <3>1. task.importState = "imported" => task.status # "working"
      BY <1>0 DEF Receipts, WhollySaved, Downloadable
    <3> QED BY <2>1, <2>2, <3>1
  <2>5. Receipts'
    <3>1. UNCHANGED <<stored, import>> BY <1>3 DEF Hear
    <3>2. Saved(task.imported)' BY <1>c, <2>3 DEF Saved
    <3>3. WhollySaved(task)' BY <2>4 DEF WhollySaved
    <3>4. Saved(stored.imported)' BY <1>0, <1>c, <3>1 DEF Receipts, Saved
    <3>5. WhollySaved(stored)' BY <1>0, <1>d, <3>1 DEF Receipts, WhollySaved
    <3>6. (\A j \in Imports : Saved(import[j].done))' BY <1>0, <1>c, <3>1 DEF Receipts, Saved
    <3> QED BY <3>2, <3>3, <3>4, <3>5, <3>6 DEF Receipts
  <2> QED BY <2>5
<1>4. CASE Crash
  <2>1. task' = Loaded /\ stored' = Loaded /\ \A j \in Imports : import'[j].done = {}
    BY <1>4 DEF Crash, Idle
  <2>2. /\ Heading(Loaded) = Heading(stored) /\ Loaded.imported = stored.imported
        /\ Loaded.importState = "imported" => stored.importState = "imported"
    BY <1>0, LoadedType
  <2>3. WhollySaved(Loaded)
    <3>1. /\ Downloadable(Loaded) <=> Downloadable(stored)
          /\ Wanted(Loaded) = Wanted(stored) /\ Loaded.attempt = stored.attempt
      BY <2>2 DEF Heading, Downloadable, Wanted
    <3> QED BY <1>0, <2>2, <3>1 DEF Receipts, WhollySaved
  <2>4. Saved(Loaded.imported) BY <1>0, <2>2 DEF Receipts
  <2>5. UNCHANGED attachments BY <1>4 DEF Crash
  <2> HIDE DEF Loaded
  <2>6. Saved(task.imported)' /\ Saved(stored.imported)'
    BY <2>1, <2>4, <2>5 DEF Saved, Receipt
  <2>7. WhollySaved(task)' /\ WhollySaved(stored)'
    BY <2>1, <2>3, <2>5 DEF WhollySaved, Receipt, Downloadable, Wanted
  <2>8. (\A j \in Imports : Saved(import[j].done))' BY <2>1 DEF Saved
  <2> QED BY <2>6, <2>7, <2>8 DEF Receipts
<1>5. ASSUME UNCHANGED <<task, import, attachments>>, stored' = stored \/ stored' = task
      PROVE  Receipts'
  <2>1. Saved(task.imported)' BY <1>0, <1>5 DEF Receipts, Saved, Receipt
  <2>2. Saved(stored.imported)' BY <1>0, <1>5 DEF Receipts, Saved, Receipt
  <2>3. (\A j \in Imports : Saved(import[j].done))' BY <1>0, <1>5 DEF Receipts, Saved, Receipt
  <2>4. WhollySaved(task)' BY <1>0, <1>c, <1>d, <1>5 DEF Receipts, WhollySaved
  <2>5. WhollySaved(stored)' BY <1>0, <1>c, <1>d, <1>5 DEF Receipts, WhollySaved
  <2> QED BY <2>1, <2>2, <2>3, <2>4, <2>5 DEF Receipts
<1> QED BY <1>1, <1>2, <1>3, <1>4, <1>5 DEF Next, vars, disk, Conclude, NextAttempt, Flush,
           SaveFails, SaveRecovers, Bin

-----------------------------------------------------------------------------
(* The theorems. *)

LEMMA InitInv == Init => Inv
<1> SUFFICES ASSUME Init PROVE Inv OBVIOUS
<1> DEFINE first == [attempt |-> 1, status |-> "working", files |-> {}]
<1>1. first \in Record BY Bounds DEF Record, Status
<1>2. /\ log = <<first>> /\ task.importState = "pending" /\ task.imported = {}
      /\ Heading(task) = first /\ stored = task /\ task \in Task
  BY <1>1 DEF Init, Heading, Task, Record, ImportState
<1>3. /\ \A i \in Imports : import[i] = Idle
      /\ attachments = {} /\ folders = {} /\ made = 0
  BY DEF Init
<1>4. TypeOK
  <2>1. log \in Seq(Record) /\ log # <<>> BY <1>1, <1>2
  <2>2. import \in [Imports -> Import] BY IdleType DEF Init
  <2>3. tx \in 0..MaxImports /\ made \in 0..MaxFolders /\ crashes \in 0..MaxCrashes
    BY Bounds DEF Init
  <2>4. attachments \subseteq Attachment /\ binned \subseteq 1..made
        /\ folders \subseteq 1..made /\ orphans \subseteq 1..made
    BY DEF Init
  <2>5. blocked \in BOOLEAN BY DEF Init
  <2> QED BY <1>2, <2>1, <2>2, <2>3, <2>4, <2>5 DEF TypeOK
<1>5. LogOrdered BY <1>2 DEF LogOrdered
<1>6. Learnt BY <1>2 DEF Learnt, Told
<1>7. \A i \in Imports : About(i) /\ Content(i) /\ Directory(i)
  BY <1>3 DEF About, Alive, Content, Directory, Idle
<1>8. Apart /\ OwnDirectory BY <1>3 DEF Apart, OwnDirectory, Alive, Idle
<1>9. Receipts BY <1>2, <1>3 DEF Receipts, Saved, WhollySaved, Idle
<1>10. Results /\ SavedOnce BY <1>3 DEF Results, SavedOnce
<1> QED BY <1>4, <1>5, <1>6, <1>7, <1>8, <1>9, <1>10 DEF Inv

\* Types, and the inductive invariant: Spec => []Inv.
THEOREM Invariance == Spec => []Inv
<1>1. Inv /\ [Next]_vars => Inv'
  BY TypeStep, LogStep, LearntStep, AboutStep, ContentStep, DirectoriesStep, ReceiptsStep,
     ResultsStep DEF Inv, Directories
<1> QED BY InitInv, <1>1, PTL DEF Spec

\* An output is attached once and its file is never removed, a directory that
\* nobody attaches is accounted for (importTaskOutput and its catch clause).
THEOREM OutputsAreSavedOnce == Spec => []SavedOnce
<1>1. Inv => SavedOnce BY DEF Inv
<1> QED BY Invariance, <1>1, PTL

\* What the plugin calls imported is in the library, and its file is what the
\* server had for this output in that attempt or a later one, never in an earlier
\* one (importTaskOutputs, isCurrent, hasImportedTaskOutput, task_result).
THEOREM ImportedOutputsAreSaved == Spec => []ImportedIsSaved
<1>1. ASSUME Inv PROVE ImportedIsSaved
  <2>0. Receipts /\ Results BY <1>1 DEF Inv
  <2>1. \A key \in task.imported : Receipt(key) # {} BY <2>0 DEF Receipts, Saved
  <2>2. ASSUME task.importState = "imported", NEW m \in Wanted(task)
        PROVE  \E a \in Receipt(<<task.attempt, m>>) : Genuine(a)
    <3>1. PICK a \in Receipt(<<task.attempt, m>>) : TRUE
      BY <2>0, <2>2 DEF Receipts, WhollySaved
    <3>2. Genuine(a) BY <2>0, <3>1 DEF Receipt, Results
    <3> QED BY <3>1, <3>2
  <2> QED BY <2>1, <2>2 DEF ImportedIsSaved
<1> QED BY Invariance, <1>1, PTL
=============================================================================
