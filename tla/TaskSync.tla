------------------------------ MODULE TaskSync ------------------------------
(***************************************************************************)
(* How the Zotero plugin keeps its picture of the server's tasks           *)
(* (plugin/src/modules/pdf2zhTaskManager.ts) against the revisions, events *)
(* and lists that the task manager offers (server/task_manager.py).        *)
(*                                                                         *)
(* Three channels carry the state of a task, and nothing orders them: the  *)
(* event stream, the answer to a list request, the answer to an operation. *)
(* The server may restart, which starts a new instance with its own        *)
(* revisions; the stream may break or overflow; requests and answers may   *)
(* be lost; the plugin may be reloaded; and other clients change the       *)
(* server's tasks too.                                                     *)
(***************************************************************************)
EXTENDS Integers, Sequences, FiniteSets, Functions

CONSTANTS
    MaxTasks,       \* bound on the number of tasks
    MaxInstances,   \* bound on the number of server starts
    MaxRevision,    \* bound on the revisions of one server instance
    MaxFaults,      \* bound on lost requests, broken streams, plugin reloads
    QueueSize,      \* events a subscription holds (128 in the code)
    Operations,     \* the kinds of operations that the user asks for
    PageSize,       \* tasks on a page of the history (30 in the code)
    LateStream      \* what a stream still holds may be read after its server
                    \* is gone and the next one has answered

ASSUME BoundsAssumption ==
    /\ MaxTasks \in Nat \ {0} /\ MaxInstances \in Nat \ {0} /\ MaxRevision \in Nat
    /\ MaxFaults \in Nat /\ QueueSize \in Nat \ {0} /\ PageSize \in Nat \ {0}
    /\ LateStream \in BOOLEAN
    /\ Operations \subseteq {"submit", "retry", "delete", "clear"}

Tasks == 1..MaxTasks    \* in the order of their creation

VARIABLES
    instance,       \* _server_instance_id
    revision,       \* _revision
    created,        \* number of tasks ever created
    tasks,          \* the server's records
    connected,      \* the subscription is in place
    stream,         \* what the plugin has still to read from its stream
    client,         \* what the plugin knows: see Init
    page,           \* tasks on the page of history that is shown
    list,           \* the list request under way
    again,          \* refreshAgain
    op,             \* the user's operation under way
    submission,     \* the task that a submission in doubt stands for
    faults,
    settled,        \* since the stream opened a list was applied, and no task
                    \* was touched while the last one was under way
    buried          \* tasks the plugin forgot since the server deleted them

serverVars == <<instance, revision, created, tasks>>
streamVars == <<connected, stream>>
requestVars == <<list, again, op, submission>>
vars == <<serverVars, streamVars, client, page, requestVars, faults, settled, buried>>

None == 0
Idle == [state |-> "idle"]
Requests == {"list", "op"}

(* The entry of a key in a map is set, new or not. *)
With(f, x, y) == [z \in DOMAIN f \cup {x} |-> IF z = x THEN y ELSE f[z]]

-----------------------------------------------------------------------------
(* The server: revisions and events. *)

(* A task is queued or runs (active), waits after a restart to be resumed   *)
(* (paused), has failed, or has a result (done; complete or not).          *)
Active(record) == record.status = "active"
Live(record) == record.status \in {"active", "paused"}
Snapshot(record) == [inst |-> instance, rev |-> record.rev, attempt |-> record.attempt,
                     status |-> record.status]

(* The records are kept in the order of their creation. *)
InOrder(some) ==
    {s \in [1..Cardinality(some) -> some] :
        \A m, n \in DOMAIN s : m < n => s[m] < s[n]}

TaskEvent(t, record, rev) ==
    [type |-> "task", task |-> t,
     snap |-> [inst |-> instance, rev |-> rev, attempt |-> record.attempt,
               status |-> record.status]]
DeletedEvent(t, rev) == [type |-> "deleted", task |-> t, inst |-> instance, rev |-> rev]
Resync == [type |-> "resync", inst |-> instance]

(* Mutant of Publish: a subscription that is full just misses the event.   *)
PublishDropsSilently(events) ==
    /\ stream' = IF connected /\ Len(stream) + Len(events) <= QueueSize
                 THEN stream \o events ELSE stream
    /\ UNCHANGED connected

(* A subscription that overflows gets a call to resynchronise instead of   *)
(* the events it holds, and ends.                                          *)
Publish(events) ==
    IF ~connected \/ events = <<>>
    THEN UNCHANGED streamVars
    ELSE IF Len(stream) + Len(events) <= QueueSize
    THEN stream' = stream \o events /\ UNCHANGED connected
    ELSE /\ connected' = FALSE
         /\ \E k \in 0..Len(stream) :
                /\ stream # <<>> /\ Head(stream).type = "open" => k # 0
                /\ stream' = Append(SubSeq(stream, 1, k), Resync)

(* _task_changed_locked *)
Changed(t, record) ==
    /\ revision < MaxRevision /\ revision' = revision + 1
    /\ tasks' = With(tasks, t, [record EXCEPT !.rev = revision + 1])
    /\ Publish(<<TaskEvent(t, record, revision + 1)>>)

(* _deleted_locked *)
Deleted(t) ==
    /\ revision < MaxRevision /\ revision' = revision + 1
    /\ tasks' = Restrict(tasks, DOMAIN tasks \ {t})
    /\ Publish(<<DeletedEvent(t, revision + 1)>>)

NewTask == [rev |-> 0, attempt |-> 1, status |-> "active"]
NextAttempt(record) == [record EXCEPT !.attempt = @ + 1, !.status = "active"]
Resumed(record) == [record EXCEPT !.status = "active"]

(* The worker, and clients other than this plugin. *)
ServerStep ==
    /\ \/ \E t \in DOMAIN tasks, status \in {"active", "failed", "done"} :
              /\ Active(tasks[t])
              /\ Changed(t, [tasks[t] EXCEPT !.status = status])
              /\ UNCHANGED created
       \/ \E t \in DOMAIN tasks :
              /\ ~Active(tasks[t])
              /\ \/ Changed(t, NextAttempt(tasks[t])) \/ Deleted(t)
                 \/ tasks[t].status = "paused" /\ Changed(t, Resumed(tasks[t]))
              /\ UNCHANGED created
       \/ /\ created < MaxTasks /\ created' = created + 1
          /\ Changed(created + 1, NewTask)
    /\ UNCHANGED <<instance, client, page, requestVars, faults, settled, buried>>

(* _load_persistent_tasks pauses what was active and counts the revisions  *)
(* anew.                                                                   *)
Restart ==
    /\ instance < MaxInstances /\ instance' = instance + 1
    /\ revision' = Cardinality(DOMAIN tasks)
    /\ tasks' = [t \in DOMAIN tasks |->
                    [tasks[t] EXCEPT !.rev = Cardinality({u \in DOMAIN tasks : u <= t}),
                                     !.status = IF Active(tasks[t]) THEN "paused" ELSE @]]
    /\ connected' = FALSE
    /\ stream' = IF LateStream THEN stream ELSE <<>>
    /\ UNCHANGED <<created, client, page, requestVars, faults, settled, buried>>

-----------------------------------------------------------------------------
(* What the plugin knows, and how it changes: functions of the record      *)
(* client.                                                                 *)

(* updateLocalTask, removeLocalTask: the list or the operation under way   *)
(* will see that the task was touched.                                     *)
Put(c, t, entry) ==
    [c EXCEPT !.mirror = With(@, t, entry), !.touched = @ \cup Requests \X {t}]
Drop(c, t) ==
    [c EXCEPT !.mirror = Restrict(@, DOMAIN @ \ {t}), !.touched = @ \cup Requests \X {t}]

(* The streams that carry another generation now void the requests made    *)
(* under the old one.                                                      *)
NextGeneration(c) == [c EXCEPT !.outdated = Requests]
Asking(c, request) ==
    [c EXCEPT !.outdated = @ \ {request}, !.touched = @ \ ({request} \X Tasks)]

(* acceptInstance, of an instance that is not retired *)
Accepted(c, inst) ==
    IF inst = c.known THEN c
    ELSE [NextGeneration(c) EXCEPT !.known = inst, !.watermark = -1, !.deleted = <<>>,
                                   !.retired = @ \cup ({c.known} \ {None})]

(* The generation moved on while the request was under way. *)
VoidNever(c, request) == FALSE      \* mutant: the generation is not compared
Void(c, request) == request \in c.outdated

CanApplyAlways(c, inst) == TRUE     \* mutant: nor the instance

(* canApplyResponse *)
CanApply(c, inst) == ~Void(c, "op") \/ inst = c.known

Normalized(entry) ==
    IF entry.import # "imported" /\ entry.status = "failed"
    THEN [entry EXCEPT !.import = "none"] ELSE entry

Bind(entry) ==
    Normalized([entry EXCEPT !.bound = TRUE, !.import = IF @ = "none" THEN "pending" ELSE @])

BuryingNever(c, t, snap) == FALSE   \* mutant: deletions are not remembered

(* A snapshot from before the deletion of its task *)
Burying(c, t, snap) == t \in DOMAIN c.deleted /\ snap.rev <= c.deleted[t]

(* Mutant of Stale: lists are taken as they come. *)
StaleExceptLists(c, t, snap, fromList) ==
    /\ ~fromList
    /\ \/ snap.rev <= c.watermark
       \/ /\ t \in DOMAIN c.mirror /\ c.mirror[t].inst = snap.inst
          /\ snap.rev <= c.mirror[t].rev \/ snap.attempt < c.mirror[t].attempt

Stale(c, t, snap, fromList) ==
    \/ ~fromList /\ snap.rev <= c.watermark
    \/ /\ t \in DOMAIN c.mirror /\ c.mirror[t].inst = snap.inst
       /\ snap.rev <= c.mirror[t].rev \/ snap.attempt < c.mirror[t].attempt

Merged(c, t, snap, bind) ==
    LET exists == t \in DOMAIN c.mirror
        old == IF exists THEN c.mirror[t]
               ELSE [inst |-> snap.inst, rev |-> 0, attempt |-> snap.attempt,
                     status |-> snap.status, bound |-> FALSE, import |-> "none"]
        entry == [old EXCEPT !.inst = snap.inst, !.rev = snap.rev,
                             !.attempt = snap.attempt, !.status = snap.status]
        mine == IF bind THEN [entry EXCEPT !.bound = TRUE,
                                 !.import = IF @ = "none" THEN "pending" ELSE @]
                ELSE entry
    IN Normalized(IF snap.attempt > old.attempt
                  THEN [mine EXCEPT !.import = IF mine.bound THEN "pending" ELSE "none"]
                  ELSE mine)

(* upsertTask *)
Upserted(c0, t, snap, fromList, bind) ==
    IF snap.inst \in c0.retired THEN c0
    ELSE LET c == Accepted(c0, snap.inst)
         IN IF Burying(c, t, snap) THEN c
            ELSE IF ~Stale(c, t, snap, fromList) THEN Put(c, t, Merged(c, t, snap, bind))
            ELSE IF bind /\ t \in DOMAIN c.mirror /\ ~c.mirror[t].bound
            THEN Put(c, t, Bind(c.mirror[t]))
            ELSE c

(* handleServerTaskEvent, of a deletion: whether it is news, and its effect *)
DeletionIsNews(c0, t, inst, rev) ==
    /\ inst \notin c0.retired
    /\ LET c == Accepted(c0, inst)
       IN /\ rev > c.watermark
          /\ t \in DOMAIN c.deleted => rev > c.deleted[t]
          /\ t \in DOMAIN c.mirror /\ c.mirror[t].inst = inst => rev >= c.mirror[t].rev

Forgotten(c0, t, inst, rev) ==
    LET c == IF inst \in c0.retired THEN c0 ELSE Accepted(c0, inst)
    IN IF DeletionIsNews(c0, t, inst, rev)
       THEN Drop([c EXCEPT !.deleted = With(@, t, rev)], t)
       ELSE c

-----------------------------------------------------------------------------
(* refreshTasks and the list. *)

(* Mutant of Tracked: what is live is expected to be on the page anyway. *)
TrackedOnPage(c, shown) == DOMAIN c.mirror \cap shown

(* Tasks the list request names, to hear of them wherever they are. *)
Tracked(c, shown) ==
    {t \in DOMAIN c.mirror :
        LET entry == c.mirror[t]
        IN \/ Live(entry) \/ t \in shown
           \/ /\ entry.bound /\ entry.import = "pending"
              /\ c.known = None \/ entry.inst # c.known \/ entry.status = "done"}

Ask(c) ==
    /\ list' = [state |-> "asked", tracked |-> Tracked(c, page')]
    /\ client' = Asking(c, "list") /\ again' = FALSE

(* One refresh at a time; another may be wanted meanwhile. *)
Refresh(c) ==
    IF list = Idle THEN Ask(c) ELSE again' = TRUE /\ client' = c /\ UNCHANGED list

(* What a request that is over leaves behind. *)
Over(c, request) ==
    [c EXCEPT !.outdated = @ \cup {request}, !.touched = @ \cup {request} \X Tasks]

EndRefresh(c, wanted) ==
    IF wanted THEN Ask(c)
    ELSE list' = Idle /\ client' = Over(c, "list") /\ UNCHANGED again

Poll ==
    /\ list = Idle
    /\ UNCHANGED page /\ Ask(client)
    /\ UNCHANGED <<serverVars, streamVars, op, submission, faults, settled, buried>>

(* list_tasks_page: all active tasks, the newest of the others, and what   *)
(* the plugin tracks.                                                      *)
ListServed ==
    LET history == {t \in DOMAIN tasks : ~Live(tasks[t])}
        newest == {t \in history : Cardinality({u \in history : u > t}) < PageSize}
        visible == newest \cup (DOMAIN tasks \ history)
    IN /\ list.state = "asked"
       /\ list' = [state |-> "answered", inst |-> instance, rev |-> revision,
                   snaps |-> [t \in visible \cup (list.tracked \cap DOMAIN tasks) |->
                                 Snapshot(tasks[t])],
                   visible |-> visible, missing |-> list.tracked \ DOMAIN tasks]
       /\ UNCHANGED <<serverVars, streamVars, client, page, again, op, submission, faults,
                      settled, buried>>

(* The snapshots of a list, each upserted by itself; a task that was        *)
(* forgotten meanwhile stays so. Their instance is accepted already.       *)
WithSnapshots(c, snaps) ==
    LET taken == {t \in DOMAIN snaps :
                     /\ t \in DOMAIN c.mirror \/ <<"list", t>> \notin c.touched
                     /\ ~Burying(c, t, snaps[t]) /\ ~Stale(c, t, snaps[t], TRUE)}
    IN [c EXCEPT !.mirror = [t \in DOMAIN @ \cup taken |->
                                IF t \in taken THEN Merged(c, t, snaps[t], FALSE) ELSE @[t]],
                 !.touched = @ \cup Requests \X taken]

(* Tasks the list says are missing, unless the plugin knows better. *)
Missing(c, response) ==
    {t \in DOMAIN c.mirror \cap response.missing :
        IF c.mirror[t].inst = response.inst
        THEN c.mirror[t].rev <= response.rev
        ELSE <<"list", t>> \notin c.touched}

(* Mutant of Kept: bindings are cut with their page. *)
KeptOnPage(c, visible) ==
    {t \in DOMAIN c.mirror : t \in visible \/ Live(c.mirror[t])}

(* Tasks that stay when the page is turned into the mirror. *)
Kept(c, visible) ==
    {t \in DOMAIN c.mirror :
        c.mirror[t].bound \/ t \in visible \/ Live(c.mirror[t])}

Reconciled(c0, response) ==
    LET c1 == WithSnapshots(c0, response.snaps)
        gone == Missing(c1, response)
        c2 == [c1 EXCEPT !.mirror = Restrict(@, DOMAIN @ \ gone),
                         !.touched = @ \cup Requests \X gone,
                         !.watermark = response.rev,
                         !.deleted = Restrict(@, {t \in DOMAIN @ : @[t] > response.rev})]
    IN [c2 EXCEPT !.mirror = Restrict(@, Kept(c2, response.visible))]

(* refreshTasksInternal, from the answer on *)
ListApplied ==
    /\ list.state = "answered"
    /\ IF Void(client, "list")
       THEN UNCHANGED <<page, settled, buried>> /\ EndRefresh(client, TRUE)
       ELSE IF list.inst \in client.retired
       THEN UNCHANGED <<page, settled, buried>> /\ EndRefresh(client, again)
       ELSE LET c == Accepted(client, list.inst)
            IN IF list.rev < c.watermark
               THEN UNCHANGED <<page, settled, buried>> /\ EndRefresh(c, again)
               ELSE /\ page' = list.visible
                    /\ settled' = ({"list"} \X Tasks \cap client.touched = {})
                    /\ buried' = buried \cup Missing(WithSnapshots(c, list.snaps), list)
                    /\ EndRefresh(Reconciled(c, list), again)
    /\ UNCHANGED <<serverVars, streamVars, op, submission, faults>>

-----------------------------------------------------------------------------
(* The event stream. *)

(* The subscription starts with the live tasks. *)
Connect ==
    /\ ~connected /\ stream = <<>> /\ connected' = TRUE
    /\ \E live \in InOrder({t \in DOMAIN tasks : Live(tasks[t])}) :
           stream' = <<[type |-> "open"]>> \o
                     [n \in DOMAIN live |-> TaskEvent(live[n], tasks[live[n]],
                                                     tasks[live[n]].rev)]
    /\ UNCHANGED <<serverVars, client, page, requestVars, faults, settled, buried>>

Receive ==
    /\ stream # <<>> /\ stream' = Tail(stream) /\ UNCHANGED page
    /\ LET event == Head(stream)
       IN \/ /\ event.type = "open"
             /\ Refresh(NextGeneration(client))
             /\ settled' = FALSE /\ UNCHANGED buried
          \/ /\ event.type = "task"
             /\ client' = Upserted(client, event.task, event.snap, FALSE, FALSE)
             /\ UNCHANGED <<list, again, settled, buried>>
          \/ /\ event.type = "deleted"
             /\ client' = Forgotten(client, event.task, event.inst, event.rev)
             /\ buried' = IF DeletionIsNews(client, event.task, event.inst, event.rev)
                          THEN buried \cup {event.task} ELSE buried
             /\ UNCHANGED <<list, again, settled>>
          \/ /\ event.type = "resync" /\ event.inst \notin client.retired
             /\ Refresh(Accepted(client, event.inst))
             /\ UNCHANGED <<settled, buried>>
          \/ /\ event.type = "resync" /\ event.inst \in client.retired
             /\ UNCHANGED <<client, list, again, settled, buried>>
    /\ UNCHANGED <<serverVars, connected, op, submission, faults>>

Disconnect ==
    /\ faults < MaxFaults /\ faults' = faults + 1
    /\ connected \/ stream # <<>>
    /\ connected' = FALSE /\ stream' = <<>> /\ settled' = FALSE
    /\ UNCHANGED <<serverVars, client, page, requestVars, buried>>

-----------------------------------------------------------------------------
(* The user's operations, one at a time. *)

Submit ==
    /\ "submit" \in Operations
    /\ op = Idle /\ op' = [state |-> "asked", kind |-> "submit"]
    /\ client' = Asking(client, "op")
    /\ UNCHANGED <<serverVars, streamVars, page, list, again, submission, faults, settled,
                   buried>>

(* retryTask, repairTask and resumeTask, by the state the plugin believes   *)
(* the task to be in; deleteTask                                           *)
Operate(kind, t) ==
    /\ kind \in Operations
    /\ op = Idle /\ t \in DOMAIN client.mirror /\ ~Active(client.mirror[t])
    /\ op' = [state |-> "asked", kind |-> kind, task |-> t,
              of |-> client.mirror[t].status]
    /\ client' = Asking(client, "op")
    /\ UNCHANGED <<serverVars, streamVars, page, list, again, submission, faults, settled,
                   buried>>

ClearFailed ==
    LET failed == {t \in DOMAIN client.mirror : client.mirror[t].status = "failed"}
    IN /\ "clear" \in Operations /\ op = Idle /\ failed # {}
       /\ op' = [state |-> "asked", kind |-> "clear", victims |-> failed]
       /\ client' = Asking(client, "op")
       /\ UNCHANGED <<serverVars, streamVars, page, list, again, submission, faults, settled,
                      buried>>

Answer(t, snap) ==
    op' = [state |-> "answered", kind |-> op.kind, task |-> t, snap |-> snap]
Refused == op' = Idle /\ client' = Over(client, "op")

(* A submission that was accepted before is found again (requestId). *)
SubmitServed ==
    /\ op.state = "asked" /\ op.kind = "submit"
    /\ \/ /\ submission = None /\ created < MaxTasks
          /\ created' = created + 1 /\ submission' = created + 1
          /\ Changed(created + 1, NewTask)
          /\ Answer(created + 1, [Snapshot(NewTask) EXCEPT !.rev = revision + 1])
          /\ UNCHANGED client
       \/ /\ submission \in DOMAIN tasks
          /\ Answer(submission, Snapshot(tasks[submission]))
          /\ UNCHANGED <<revision, created, tasks, streamVars, submission, client>>
       \/ /\ submission # None /\ submission \notin DOMAIN tasks
          /\ Refused /\ submission' = None
          /\ UNCHANGED <<revision, created, tasks, streamVars>>
    /\ UNCHANGED <<instance, page, list, again, faults, settled, buried>>

(* resume_task answers again what was resumed; a task that was paused while *)
(* it ran may be repaired, one that was still queued may not.              *)
RetryServed ==
    LET there == op.task \in DOMAIN tasks
        record == tasks[op.task]
        next == IF op.of = "paused" THEN Resumed(record) ELSE NextAttempt(record)
    IN /\ op.state = "asked" /\ op.kind = "retry"
       /\ \/ /\ there
             /\ record.status = op.of \/ (record.status = "paused" /\ op.of = "done")
             /\ Changed(op.task, next)
             /\ Answer(op.task, [Snapshot(next) EXCEPT !.rev = revision + 1])
             /\ UNCHANGED client
          \/ /\ there /\ op.of = "paused" /\ record.status # "paused"
             /\ Answer(op.task, Snapshot(record))
             /\ UNCHANGED <<revision, tasks, streamVars, client>>
          \/ /\ there => op.of # "paused" /\ record.status # op.of
             /\ Refused /\ UNCHANGED <<revision, tasks, streamVars>>
       /\ UNCHANGED <<instance, created, page, list, again, submission, faults, settled,
                      buried>>

DeleteServed ==
    /\ op.state = "asked" /\ op.kind = "delete"
    /\ IF op.task \in DOMAIN tasks /\ ~Active(tasks[op.task])
       THEN /\ Deleted(op.task)
            /\ op' = [state |-> "answered", kind |-> "delete", task |-> op.task,
                      inst |-> instance, rev |-> revision + 1]
            /\ UNCHANGED client
       ELSE Refused /\ UNCHANGED <<revision, tasks, streamVars>>
    /\ UNCHANGED <<instance, created, page, list, again, submission, faults, settled, buried>>

(* clear_failed_tasks: a revision and an event for each *)
ClearServed ==
    LET failed == {t \in DOMAIN tasks : tasks[t].status = "failed"}
    IN /\ op.state = "asked" /\ op.kind = "clear"
       /\ revision + Cardinality(failed) <= MaxRevision
       /\ revision' = revision + Cardinality(failed)
       /\ tasks' = Restrict(tasks, DOMAIN tasks \ failed)
       /\ \E victims \in InOrder(failed) :
              Publish([n \in DOMAIN victims |-> DeletedEvent(victims[n], revision + n)])
       /\ op' = [op EXCEPT !.state = "answered"]
       /\ UNCHANGED <<instance, created, client, page, list, again, submission, faults,
                      settled, buried>>

(* The creation response: its task is bound to the attachment, even when   *)
(* its state is outdated; then the submission is no longer in doubt.       *)
SubmitApplied ==
    LET t == op.task
        c == IF CanApply(client, op.snap.inst) THEN Upserted(client, t, op.snap, FALSE, TRUE)
             ELSE IF t \in DOMAIN client.mirror /\ ~client.mirror[t].bound
             THEN Put(client, t, Bind(client.mirror[t]))
             ELSE client
    IN /\ op.state = "answered" /\ op.kind = "submit"
       /\ client' = Over(c, "op") /\ op' = Idle
       /\ submission' = IF t \in DOMAIN c.mirror /\ c.mirror[t].bound THEN None
                        ELSE submission
       /\ UNCHANGED <<serverVars, streamVars, page, list, again, faults, settled, buried>>

RetryApplied ==
    /\ op.state = "answered" /\ op.kind = "retry" /\ op' = Idle
    /\ client' = Over(IF CanApply(client, op.snap.inst)
                      THEN Upserted(client, op.task, op.snap, FALSE, FALSE)
                      ELSE client, "op")
    /\ UNCHANGED <<serverVars, streamVars, page, list, again, submission, faults, settled,
                   buried>>

DeleteApplied ==
    /\ op.state = "answered" /\ op.kind = "delete" /\ op' = Idle
    /\ IF CanApply(client, op.inst)
       THEN /\ client' = Over(Forgotten(client, op.task, op.inst, op.rev), "op")
            /\ buried' = IF DeletionIsNews(client, op.task, op.inst, op.rev)
                         THEN buried \cup {op.task} ELSE buried
       ELSE client' = Over(client, "op") /\ UNCHANGED buried
    /\ UNCHANGED <<serverVars, streamVars, page, list, again, submission, faults, settled>>

(* Of the tasks that had failed, those that the plugin has not heard of    *)
(* since are forgotten.                                                    *)
ClearApplied ==
    LET forgotten == IF Void(client, "op") THEN {}
                     ELSE {t \in op.victims : <<"op", t>> \notin client.touched}
    IN /\ op.state = "answered" /\ op.kind = "clear" /\ op' = Idle
       /\ UNCHANGED page
       /\ Refresh(Over([client EXCEPT !.mirror = Restrict(@, DOMAIN @ \ forgotten),
                                      !.touched = @ \cup Requests \X forgotten], "op"))
       /\ UNCHANGED <<serverVars, streamVars, submission, faults, settled, buried>>

-----------------------------------------------------------------------------
(* Requests that fail, and the plugin itself. *)

LoseList ==
    /\ faults < MaxFaults /\ faults' = faults + 1
    /\ list # Idle /\ UNCHANGED page /\ EndRefresh(client, again)
    /\ UNCHANGED <<serverVars, streamVars, op, submission, settled, buried>>

LoseOp ==
    /\ faults < MaxFaults /\ faults' = faults + 1
    /\ op # Idle /\ Refused
    /\ UNCHANGED <<serverVars, streamVars, page, list, again, submission, settled, buried>>

(* importTaskOutputs, when it succeeds *)
Import(t) ==
    /\ t \in DOMAIN client.mirror
    /\ client.mirror[t].bound /\ client.mirror[t].status = "done"
    /\ client.mirror[t].import = "pending"
    /\ client' = Put(client, t, [client.mirror[t] EXCEPT !.import = "imported"])
    /\ UNCHANGED <<serverVars, streamVars, page, requestVars, faults, settled, buried>>

(* The plugin is reloaded: only bound tasks are kept (loadLocalTasks). *)
Forget(mirror) ==
    [known |-> None, watermark |-> -1, deleted |-> <<>>, retired |-> {}, mirror |-> mirror,
     outdated |-> Requests, touched |-> Requests \X Tasks]

Reload ==
    /\ faults < MaxFaults /\ faults' = faults + 1
    /\ page' = {} /\ settled' = FALSE /\ connected' = FALSE /\ stream' = <<>>
    /\ op' = Idle
    /\ LET bound == {t \in DOMAIN client.mirror : client.mirror[t].bound}
       IN Ask(Forget(Restrict(client.mirror, bound)))
    /\ UNCHANGED <<serverVars, submission, buried>>

-----------------------------------------------------------------------------
Init ==
    /\ instance = 1 /\ revision = 0 /\ created = 0 /\ tasks = <<>>
    /\ connected = FALSE /\ stream = <<>>
    /\ client = Asking(Forget(<<>>), "list")
    /\ page = {} /\ list = [state |-> "asked", tracked |-> {}] /\ again = FALSE
    /\ op = Idle /\ submission = None
    /\ faults = 0 /\ settled = FALSE /\ buried = {}

OpStep == \/ SubmitServed \/ RetryServed \/ DeleteServed \/ ClearServed
          \/ SubmitApplied \/ RetryApplied \/ DeleteApplied \/ ClearApplied

ListStep == Poll \/ ListServed \/ ListApplied
StreamStep == Connect \/ Receive

Next ==
    \/ ServerStep \/ Restart
    \/ ListStep \/ StreamStep \/ Disconnect
    \/ Submit \/ ClearFailed \/ OpStep
    \/ \E t \in Tasks : (\E kind \in {"retry", "delete"} : Operate(kind, t)) \/ Import(t)
    \/ LoseList \/ LoseOp \/ Reload

Spec == Init /\ [][Next]_vars

(* The poll and the reconnection run on timers, the server answers, what   *)
(* has arrived is handled.                                                 *)
Fairness == WF_vars(ListStep) /\ WF_vars(StreamStep)

FairSpec == Spec /\ Fairness

-----------------------------------------------------------------------------
(* Properties. *)

Revisions == 0..MaxRevision
Instances == 1..MaxInstances
Statuses == {"active", "paused", "failed", "done"}

(* Every variable keeps its type; the plugin never listens to an instance  *)
(* that it has retired, and a failed task awaits no import.                *)
TypeOK ==
    /\ instance \in Instances /\ revision \in Revisions /\ created \in 0..MaxTasks
    /\ DOMAIN tasks \subseteq 1..created
    /\ \A t \in DOMAIN tasks :
           tasks[t] \in [rev : 1..revision, attempt : Nat \ {0}, status : Statuses]
    /\ connected \in BOOLEAN /\ again \in BOOLEAN /\ settled \in BOOLEAN
    /\ client.known \in (Instances \cup {None}) \ client.retired
    /\ client.watermark \in Revisions \cup {-1}
    /\ DOMAIN client.deleted \subseteq Tasks
    /\ \A t \in DOMAIN client.mirror :
           /\ client.mirror[t] \in
                  [inst : 1..instance, rev : Revisions, attempt : Nat \ {0},
                   status : Statuses, bound : BOOLEAN,
                   import : {"none", "pending", "imported"}]
           /\ client.mirror[t].status = "failed" => client.mirror[t].import # "pending"
    /\ client.outdated \subseteq Requests /\ client.touched \subseteq Requests \X Tasks
    /\ page \subseteq Tasks /\ buried \subseteq Tasks /\ submission \in Tasks \cup {None}
    /\ list.state \in {"idle", "asked", "answered"}
    /\ op.state \in {"idle", "asked", "answered"}
    /\ faults \in 0..MaxFaults

Agrees(t) ==
    /\ t \in DOMAIN client.mirror /\ client.mirror[t].inst = instance
    /\ client.mirror[t].rev = tasks[t].rev /\ client.mirror[t].attempt = tasks[t].attempt
    /\ client.mirror[t].status = tasks[t].status

(* The tasks whose state the user sees or waits for. *)
Shown(t) == \/ t \in page \/ Live(client.mirror[t])
            \/ client.mirror[t].status = "done" /\ client.mirror[t].import = "pending"

InStep ==
    /\ \A t \in DOMAIN tasks : Live(tasks[t]) => Agrees(t)
    /\ \A t \in DOMAIN client.mirror : Shown(t) => t \in DOMAIN tasks /\ Agrees(t)

(* When the stream is open, everything sent has been handled, no request   *)
(* is under way, and no task was touched during the last list, the plugin  *)
(* shows the server's state, in whatever order the three channels brought  *)
(* it (upsertTask, handleServerTaskEvent, refreshTasksInternal).           *)
Converged ==
    connected /\ stream = <<>> /\ list = Idle /\ op = Idle /\ settled => InStep

(* A task that the plugin has forgotten because the server deleted it does *)
(* not come back with a late event, list or answer (state.deleted, the     *)
(* watermark and taskChanges).                                             *)
NoResurrection == buried \cap DOMAIN client.mirror = {}

(* The plugin never retires the instance that is running: it would ignore  *)
(* all that the server says from then on (acceptInstance).                 *)
LiveNotRetired == instance \notin client.retired

(* What the plugin says of a task never goes back to an earlier revision   *)
(* of the same server instance, nor to an earlier instance (upsertTask).   *)
NoRollback ==
    [][\A t \in DOMAIN client.mirror \cap DOMAIN client.mirror' :
          \/ client.mirror'[t].inst > client.mirror[t].inst
          \/ /\ client.mirror'[t].inst = client.mirror[t].inst
             /\ client.mirror'[t].rev >= client.mirror[t].rev]_vars

Unbound == {t \in DOMAIN client.mirror :
                client.mirror[t].bound /\ t \notin DOMAIN client.mirror'}

(* The plugin drops the binding of a task to its attachment only when the  *)
(* server no longer has the task: a result that comes later would never be *)
(* imported (refreshTasksInternal, "Keep local attachment bindings").      *)
BindingsKept == [][Unbound \cap DOMAIN tasks = {}]_vars

(* The same of every step but the end of clearFailedTasks.                 *)
BindingsSurvive ==
    [][\/ op.state = "answered" /\ op.kind = "clear" /\ op' = Idle
       \/ Unbound \cap DOMAIN tasks = {}]_vars

(* Once the server is left alone and requests arrive, the plugin comes to  *)
(* show the server's state and keeps showing it, whatever was lost before  *)
(* (scheduleFallbackRefresh, refreshTasks).                                *)
EventuallyInStep == <>[]InStep
=============================================================================
