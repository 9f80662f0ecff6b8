---------------------------- MODULE OutputImport ----------------------------
(***************************************************************************)
(* How the plugin imports the results of one task as attachments:          *)
(* zoteroTaskImporter.ts, taskOutputStore.ts and the parts of              *)
(* pdf2zhTaskManager.ts that start an import or invalidate one.            *)
(*                                                                         *)
(* An import is a coroutine: what stands between two of its awaits is one  *)
(* action, and between its actions the task may start another attempt,     *)
(* another import may run, the bindings may fail to be saved, and Zotero   *)
(* may die.  The plugin learns of the server's records in order (TaskSync) *)
(* but possibly late; the result is asked of the server as it is then.     *)
(***************************************************************************)
EXTENDS Naturals, Sequences

CONSTANTS
    ModeCount,      \* output modes of the task, numbered in the order of outputModes
    MaxAttempt,     \* bound: attempts of the task
    MaxImports,     \* bound: imports alive at the same time
    MaxFolders,     \* bound: attachment directories ever created
    MaxCrashes,     \* bound: deaths of Zotero
    SavesFail       \* whether saving the bindings may fail

ASSUME BoundsAssumption ==
    /\ {ModeCount, MaxAttempt, MaxImports, MaxFolders, MaxCrashes} \subseteq Nat
    /\ ModeCount > 0 /\ MaxAttempt > 0
    /\ SavesFail \in BOOLEAN

VARIABLES
    log,            \* the records the server's task went through
    task,           \* the plugin's record of the task
    stored,         \* the record as the bindings in the profile have it
    blocked,        \* bindingNotice: the bindings could not be saved
    import,         \* the coroutines of importTaskOutputs
    tx,             \* the import inside the database transaction, or 0
    attachments,    \* committed, each with its receipt
    binned,         \* folders of attachments the user has deleted
    folders,        \* attachment directories on the disk
    orphans,        \* those that a crash or a failed removal left behind
    made,           \* directories created so far
    crashes

disk == <<attachments, binned, folders, orphans, made>>
vars == <<log, task, stored, blocked, import, tx, disk, crashes>>

Modes == 1..ModeCount
Attempts == 1..MaxAttempt
Imports == 1..MaxImports
Keys == Attempts \X Modes
Status == {"working", "incomplete", "completed", "failed"}
ImportState == {"none", "pending", "importing", "imported", "failed"}
Record == [attempt : Attempts, status : Status, files : SUBSET Modes]
Task == [attempt : Attempts, status : Status, files : SUBSET Modes,
         importState : ImportState, imported : SUBSET Keys]
Import == [pc : {"free", "lookup", "fetch", "queued", "copied",
                 "committed", "undo"},
           of : Record, done : SUBSET Keys, mode : Modes,
           content : 0..MaxAttempt, folder : 0..MaxFolders]
Attachment == [key : Keys, folder : 1..MaxFolders, content : Attempts]

-----------------------------------------------------------------------------
(* The guards of the importer. *)

Downloadable(record) ==
    \/ record.status = "completed"
    \/ record.status = "incomplete" /\ record.files # {}

\* What an import of this record has to bring in.
Wanted(record) ==
    IF record.status = "incomplete" THEN record.files ELSE Modes

\* Mutant: isCurrent without the comparison of the attempts.
CurrentIgnoringAttempt(i) ==
    ~blocked /\ Downloadable(task) /\ task.importState = "importing"

\* isCurrent of the import i: the answer it acts on is still about this attempt.
Current(i) ==
    /\ ~blocked
    /\ task.attempt = import[i].of.attempt
    /\ Downloadable(task)
    /\ task.importState = "importing"

Key(i) == <<import[i].of.attempt, import[i].mode>>
Receipt(key) == {a \in attachments : a.key = key}

Normalized(t) ==
    IF t.status = "failed" /\ t.importState # "imported"
    THEN [t EXCEPT !.importState = "none"] ELSE t

Idle == [pc |-> "free", of |-> [attempt |-> 1, status |-> "working", files |-> {}],
         done |-> {}, mode |-> 1, content |-> 0, folder |-> 0]

Init ==
    /\ log = <<[attempt |-> 1, status |-> "working", files |-> {}]>>
    /\ task = [attempt |-> 1, status |-> "working", files |-> {},
               importState |-> "pending", imported |-> {}]
    /\ stored = task
    /\ blocked = FALSE
    /\ import = [i \in Imports |-> Idle]
    /\ tx = 0
    /\ attachments = {} /\ binned = {} /\ folders = {} /\ orphans = {}
    /\ made = 0 /\ crashes = 0

-----------------------------------------------------------------------------
(* The server and what the plugin hears of it. *)

Server == log[Len(log)]

\* An attempt ends with all outputs, with some, or with none.
Conclude ==
    /\ Server.status = "working"
    /\ \E status \in Status \ {"working"}, files \in SUBSET Modes :
         /\ status = "completed" => files = Modes
         /\ status = "failed" => files = {}
         /\ log' = Append(log, [Server EXCEPT !.status = status, !.files = files])
    /\ UNCHANGED <<task, stored, blocked, import, tx, disk, crashes>>

\* A repair (of a completed task too) or a retry, asked for by this plugin or by
\* another client; "failed" stands for cancelled as well.
NextAttempt ==
    /\ Server.status # "working"
    /\ Server.attempt < MaxAttempt
    /\ log' = Append(log, [attempt |-> Server.attempt + 1, status |-> "working",
                           files |-> {}])
    /\ UNCHANGED <<task, stored, blocked, import, tx, disk, crashes>>

\* upsertTask: a new attempt makes what was imported before irrelevant.
Heard(record) ==
    LET seen == [task EXCEPT !.attempt = record.attempt, !.status = record.status,
                             !.files = record.files]
    IN  Normalized(IF record.attempt > task.attempt
                   THEN [seen EXCEPT !.importState = "pending", !.imported = {}]
                   ELSE seen)

\* The plugin's record, as one of the records of the server.
Known(n) == task.attempt = log[n].attempt /\ task.status = log[n].status

Hear ==
    /\ \E n \in DOMAIN log : \E k \in DOMAIN log :
         /\ Known(k) /\ k < n
         /\ task' = Heard(log[n])
    /\ UNCHANGED <<log, stored, blocked, import, tx, disk, crashes>>

-----------------------------------------------------------------------------
(* The coroutine importTaskOutputs. *)

\* It returns; whatever it knew is gone.
Return(i) == import' = [import EXCEPT ![i] = Idle]

\* The catch clause: only a current import may call its task failed.
Fail(i) ==
    /\ Return(i)
    /\ task' = IF Current(i) THEN [task EXCEPT !.importState = "failed"] ELSE task

\* The loop over the output modes, from an import that has just been found
\* current: up to the next await, or to the end of the import.
Continue(i, coroutine, t) ==
    LET rest == {m \in Wanted(coroutine.of) :
                     <<coroutine.of.attempt, m>> \notin coroutine.done}
    IN  \/ /\ rest = {}
           /\ Return(i)
           /\ task' = [t EXCEPT !.importState = "imported"]
        \/ \E m \in rest :
             /\ \A n \in rest : m <= n
             /\ import' = [import EXCEPT ![i] =
                   [coroutine EXCEPT !.pc = "lookup", !.mode = m,
                                     !.content = 0, !.folder = 0]]
             /\ task' = t

\* The output is in: push its key and go on.
Push(i) ==
    LET done == import[i].done \cup {Key(i)}
    IN  Continue(i, [import[i] EXCEPT !.done = done],
                 [task EXCEPT !.imported = done])

\* importCompletedLocalTasks, or the retry of a failed import by the user,
\* calls it; the item the task belongs to may be gone.
Start(i, from) ==
    /\ import[i].pc = "free"
    /\ \A j \in 1..(i - 1) : import[j].pc # "free"
    /\ ~blocked
    /\ Downloadable(task)
    /\ task.importState = from
    /\ \/ /\ task' = [task EXCEPT !.importState = "failed"]
          /\ UNCHANGED import
       \/ Continue(i, [Idle EXCEPT
                          !.of = [attempt |-> task.attempt, status |-> task.status,
                                  files |-> task.files],
                          !.done = task.imported],
                   [task EXCEPT !.importState = "importing"])
    /\ UNCHANGED <<log, stored, blocked, tx, disk, crashes>>

AutoStart(i) == Start(i, "pending")
RetryImport(i) == Start(i, "failed")

\* hasImportedTaskOutput: a receipt whose attachment is gone is an error.
Lookup(i) ==
    LET found == Receipt(Key(i)) IN
    /\ import[i].pc = "lookup"
    /\ \/ \E a \in found : a.folder \in binned /\ Fail(i)
       \/ /\ \A a \in found : a.folder \notin binned
          /\ \/ ~Current(i) /\ Return(i) /\ UNCHANGED task
             \/ Current(i) /\ found # {} /\ Push(i)
             \/ /\ Current(i) /\ found = {}
                /\ import' = [import EXCEPT ![i].pc = "fetch"]
                /\ UNCHANGED task
    /\ UNCHANGED <<log, stored, blocked, tx, disk, crashes>>

\* task_result answers with the file of the attempt that it has by then, or
\* refuses; the bytes go through a temporary file to addAttachment.  A refusal,
\* a lost answer or a failed write end the import.
Fetch(i) ==
    /\ import[i].pc = "fetch"
    /\ \/ Fail(i)
       \/ ~Current(i) /\ Return(i) /\ UNCHANGED task
       \/ /\ Current(i)
          /\ import[i].mode \in Server.files
          /\ import' = [import EXCEPT ![i].pc = "queued", ![i].content = Server.attempt]
          /\ UNCHANGED task
    /\ UNCHANGED <<log, stored, blocked, tx, disk, crashes>>

\* The transaction of importTaskOutput up to the copy of the file.
Begin(i) ==
    LET found == Receipt(Key(i)) IN
    /\ import[i].pc = "queued"
    /\ tx = 0
    /\ \/ ~Current(i) /\ Return(i) /\ UNCHANGED <<task, tx, made, folders>>
       \/ /\ Current(i)
          /\ \/ /\ \A a \in found : a.folder \in binned
                /\ Fail(i)
                /\ UNCHANGED <<tx, made, folders>>
             \/ /\ found # {} /\ \A a \in found : a.folder \notin binned
                /\ import' = [import EXCEPT ![i].pc = "committed"]
                /\ UNCHANGED <<task, tx, made, folders>>
             \/ /\ found = {} /\ made < MaxFolders
                /\ made' = made + 1
                /\ folders' = folders \cup {made + 1}
                /\ tx' = i
                /\ import' = [import EXCEPT ![i].pc = "copied", ![i].folder = made + 1]
                /\ UNCHANGED task
    /\ UNCHANGED <<log, stored, blocked, attachments, binned, orphans, crashes>>

\* ... and its end: attachment and receipt together, or neither, when the task
\* has changed meanwhile or any step failed.
End(i) ==
    /\ import[i].pc = "copied"
    /\ tx' = 0
    /\ \/ /\ Current(i)
          /\ attachments' = attachments \cup
                {[key |-> Key(i), folder |-> import[i].folder,
                  content |-> import[i].content]}
          /\ import' = [import EXCEPT ![i].pc = "committed"]
       \/ /\ import' = [import EXCEPT ![i].pc = "undo"]
          /\ UNCHANGED attachments
    /\ UNCHANGED <<log, task, stored, blocked, binned, folders, orphans, made, crashes>>

\* After the commit the import goes on, or a callback of the commit fails.
Committed(i) ==
    /\ import[i].pc = "committed"
    /\ \/ ~Current(i) /\ Return(i) /\ UNCHANGED task
       \/ Current(i) /\ Push(i)
       \/ /\ import[i].folder # 0
          /\ import' = [import EXCEPT ![i].pc = "undo"]
          /\ UNCHANGED task
       \/ import[i].folder = 0 /\ Fail(i)
    /\ UNCHANGED <<log, stored, blocked, tx, disk, crashes>>

\* Mutant: the clean-up does not ask for the receipt.
UndoAlways(i) ==
    /\ import[i].pc = "undo"
    /\ folders' = folders \ {import[i].folder}
    /\ Fail(i)
    /\ UNCHANGED <<log, stored, blocked, tx, attachments, binned, orphans, made, crashes>>

\* The catch clause of importTaskOutput: never remove what was committed.
Undo(i) ==
    /\ import[i].pc = "undo"
    /\ \/ /\ Receipt(Key(i)) # {}
          /\ UNCHANGED <<folders, orphans>>
       \/ /\ Receipt(Key(i)) = {}
          /\ folders' = folders \ {import[i].folder}
          /\ UNCHANGED orphans
       \/ /\ Receipt(Key(i)) = {}
          /\ orphans' = orphans \cup {import[i].folder}
          /\ UNCHANGED folders
    /\ Fail(i)
    /\ UNCHANGED <<log, stored, blocked, tx, attachments, binned, made, crashes>>

-----------------------------------------------------------------------------
(* The profile, the user and crashes. *)

\* The bindings reach the profile some time after they were set.
Flush ==
    /\ ~blocked
    /\ crashes < MaxCrashes
    /\ stored' = task
    /\ UNCHANGED <<log, task, blocked, import, tx, disk, crashes>>

SaveFails ==
    /\ SavesFail
    /\ ~blocked
    /\ blocked' = TRUE
    /\ UNCHANGED <<log, task, stored, import, tx, disk, crashes>>

SaveRecovers ==
    /\ blocked
    /\ blocked' = FALSE
    /\ UNCHANGED <<log, task, stored, import, tx, disk, crashes>>

\* The user deletes an attachment.
Bin(a) ==
    /\ binned' = binned \cup {a.folder}
    /\ UNCHANGED <<log, task, stored, blocked, import, tx, attachments, folders,
                   orphans, made, crashes>>

\* Mutant: a load takes the bindings as they are.
LoadedImporting == Normalized(stored)

\* What a load makes of the bindings: no import is under way.
Loaded == Normalized(IF stored.importState = "importing"
                     THEN [stored EXCEPT !.importState = "pending"] ELSE stored)

\* Zotero dies, the open transaction with it, and starts again from the
\* bindings: loadLocalTasks.
Crash ==
    /\ crashes < MaxCrashes
    /\ crashes' = crashes + 1
    /\ orphans' = orphans \cup
         ({import[i].folder : i \in {j \in Imports : import[j].pc \in {"copied", "undo"}}}
            \ {a.folder : a \in attachments})
    /\ import' = [i \in Imports |-> Idle]
    /\ tx' = 0
    /\ blocked' = FALSE
    /\ task' = Loaded
    /\ stored' = task'
    /\ UNCHANGED <<log, attachments, binned, folders, made>>

-----------------------------------------------------------------------------

Step(i) ==
    Lookup(i) \/ Fetch(i) \/ Begin(i) \/ End(i) \/ Committed(i) \/ Undo(i)

Next ==
    \/ Conclude \/ NextAttempt \/ Hear
    \/ \E i \in Imports : AutoStart(i) \/ RetryImport(i) \/ Step(i)
    \/ Flush \/ SaveFails \/ SaveRecovers
    \/ \E a \in attachments : Bin(a)
    \/ Crash

Spec == Init /\ [][Next]_vars

\* Every await of an import comes to an end (the fetch has deadlines, the
\* database serves its transactions in turn), the plugin polls every five
\* seconds, and bindings that could not be saved are saved again at the next
\* change of any task.
LiveSpec ==
    /\ Spec
    /\ \A i \in Imports : WF_vars(Step(i))
    /\ WF_vars(\E i \in Imports : AutoStart(i))
    /\ WF_vars(SaveRecovers)

-----------------------------------------------------------------------------
(* Properties. *)

TypeOK ==
    /\ log \in Seq(Record) /\ log # <<>>
    /\ task \in Task /\ stored \in Task
    /\ blocked \in BOOLEAN
    /\ import \in [Imports -> Import]
    /\ tx \in 0..MaxImports
    /\ attachments \subseteq Attachment
    /\ binned \subseteq 1..made /\ folders \subseteq 1..made /\ orphans \subseteq 1..made
    /\ made \in 0..MaxFolders /\ crashes \in 0..MaxCrashes

\* The file of an attachment is the one of its attempt or, when the task was
\* repaired while it was being imported, the one of a later attempt that had this
\* output too: task_result is asked for a task and a mode, not for an attempt.
Had(attempt, mode) ==
    \E n \in DOMAIN log : log[n].attempt = attempt /\ mode \in log[n].files
Genuine(a) == a.content >= a.key[1] /\ Had(a.content, a.key[2])

\* What the plugin calls imported is in the library: every output that it
\* counts as imported has an attachment with a receipt, an import that it calls
\* finished has brought in everything there was to bring in, and each file is one
\* that the server had for this output, never of an attempt before the one it is
\* filed under (so the result of that attempt if there was no later one).
ImportedIsSaved ==
    /\ \A key \in task.imported : Receipt(key) # {}
    /\ task.importState = "imported" =>
         \A m \in Wanted(task) : \E a \in Receipt(<<task.attempt, m>>) : Genuine(a)

\* One output of one attempt is never attached twice, and the disk agrees with
\* the library: no clean-up removes the file of a committed attachment (not
\* after a failing callback of the commit, not with two imports under way, not
\* after a crash that lost the plugin's record of the import), and a directory
\* without an attachment is of an import under way, unless a crash or a removal
\* that failed left it.
SavedOnce ==
    /\ \A a, b \in attachments : a.key = b.key \/ a.folder = b.folder => a = b
    /\ \A a \in attachments : a.folder \in folders
    /\ \A f \in folders :
         \/ f \in orphans
         \/ \E a \in attachments : a.folder = f
         \/ \E i \in Imports : import[i].pc \in {"copied", "undo"} /\ import[i].folder = f

StaysImporting == <>[](task.importState = "importing")

\* A task never stays at "importing", whatever attempts, crashes and other
\* imports come in between, as long as its bindings can be saved.
ImportEnds == []~blocked => ~StaysImporting

\* Bindings that could not be saved pause the imports, and they recover once
\* the bindings can be saved again.
PausedImportsRecover == <>[]~blocked => ~StaysImporting
=============================================================================
