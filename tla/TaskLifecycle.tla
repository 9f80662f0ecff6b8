---------------------------- MODULE TaskLifecycle ----------------------------
(***************************************************************************)
(* What the task manager promises its clients, with no queue, no file and  *)
(* no threads: a task is executed at most once for every request that was  *)
(* acknowledged, one task at a time, and never again after a cancellation  *)
(* was acknowledged; results that are offered belong to the generation the *)
(* client last asked for; what was deleted never comes back.  A crash may  *)
(* lose an execution and results that were not saved, and no promise.      *)
(***************************************************************************)
EXTENDS Naturals

CONSTANTS Tasks, NoTask

VARIABLES
    promise,     \* what was last acknowledged for each task
    generation,  \* how often the task was asked for: create, retry, repair
    executing,   \* the task being translated, or NoTask
    offered      \* the tasks whose results can be downloaded

vars == <<promise, generation, executing, offered>>

Acknowledged == {t \in Tasks : promise[t] \in {"run", "started", "cancel"}}

Init ==
    /\ promise = [t \in Tasks |-> "none"]
    /\ generation = [t \in Tasks |-> 0]
    /\ executing = NoTask
    /\ offered = {}

Accept(t) ==
    /\ promise[t] = "none"
    /\ promise' = [promise EXCEPT ![t] = "run"]
    /\ generation' = [generation EXCEPT ![t] = 1]
    /\ UNCHANGED <<executing, offered>>

(* Retry and repair: a new generation; the old results are withdrawn. *)
AskAgain(t) ==
    /\ t \in Acknowledged /\ t # executing
    /\ promise' = [promise EXCEPT ![t] = "run"]
    /\ generation' = [generation EXCEPT ![t] = @ + 1]
    /\ offered' = offered \ {t}
    /\ UNCHANGED executing

(* Resume of what a restart interrupted, in the same generation. *)
Continue(t) ==
    /\ promise[t] = "started" /\ t # executing /\ t \notin offered
    /\ promise' = [promise EXCEPT ![t] = "run"]
    /\ UNCHANGED <<generation, executing, offered>>

CancelRequested(t) ==
    /\ t \in Acknowledged /\ t \notin offered
    /\ promise' = [promise EXCEPT ![t] = "cancel"]
    /\ UNCHANGED <<generation, executing, offered>>

Delete(ts) ==
    /\ ts \subseteq Acknowledged \ {executing}
    /\ promise' = [t \in Tasks |-> IF t \in ts THEN "deleted" ELSE promise[t]]
    /\ generation' = [t \in Tasks |-> IF t \in ts THEN 0 ELSE generation[t]]
    /\ offered' = offered \ ts
    /\ UNCHANGED executing

Start(t) ==
    /\ executing = NoTask /\ promise[t] = "run" /\ t \notin offered
    /\ executing' = t
    /\ promise' = [promise EXCEPT ![t] = "started"]
    /\ UNCHANGED <<generation, offered>>

Finish ==
    /\ executing # NoTask
    /\ executing' = NoTask
    /\ \/ offered' = offered
       \/ promise[executing] = "started" /\ offered' = offered \cup {executing}
    /\ UNCHANGED <<promise, generation>>

Crash ==
    /\ executing' = NoTask
    /\ offered' \subseteq offered
    /\ UNCHANGED <<promise, generation>>

Next ==
    \/ \E t \in Tasks : \/ Accept(t) \/ AskAgain(t) \/ Continue(t)
                        \/ CancelRequested(t) \/ Start(t)
    \/ \E ts \in SUBSET Tasks : Delete(ts)
    \/ Finish \/ Crash

Spec == Init /\ [][Next]_vars
=============================================================================
