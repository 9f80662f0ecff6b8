------------------------- MODULE SelectionTranslator -------------------------
(***************************************************************************)
(* server/text_translation.py: the translation of selected text.           *)
(* Requests for the same text share one turn of the model, except those    *)
(* that can be cancelled one by one; a refresh starts a new generation; an *)
(* answer is saved only if no newer generation was started meanwhile and   *)
(* the cache was not cleared.  A request runs in a thread of its own, a    *)
(* generation (a job) in one of the two threads of the executor, and what  *)
(* holds the lock of the service is one action.                            *)
(***************************************************************************)
EXTENDS Naturals, FiniteSets

CONSTANTS
    Requests,       \* requests, with distinct requestIds
    Keys,           \* what identifies a translation (_key)
    NoKey,          \* the key of a request that is not being looked at
    Dictionary,     \* the keys of mode "dictionary"
    MaxEpoch        \* bound: how often the cache is cleared

ASSUME KeysAssumption == Dictionary \subseteq Keys /\ NoKey \notin Keys
ASSUME EpochAssumption == MaxEpoch \in Nat

Workers == 2        \* max_workers, and the limit of pending

VARIABLES
    request,        \* one record per request
    jobs,           \* what the executor is doing
    pending,        \* the keys of self.pending: <<key, generation>>
    refreshing,     \* self.refreshing
    generation,     \* self.generations
    saved,          \* the generation whose answer the caches hold, or 0 ...
    savedEpoch,     \* ... and the cache_epoch when it was asked for
    epoch           \* cache_epoch

tables == <<pending, refreshing, generation>>
caches == <<saved, savedEpoch>>
vars == <<request, jobs, tables, caches, epoch>>

\* "refused" is any error but a cancellation: busy, time-out, provider error.
Answer == {"none", "text", "cancelled", "refused"}
Request == [state : {"new", "asked", "waiting", "done"},
            key : Keys \cup {NoKey}, generation : Nat,
            refresh : BOOLEAN,
            own : BOOLEAN,            \* it has a requestId
            cancelled : BOOLEAN,      \* its event, or early_cancelled
            answer : Answer]
\* A job whose future is done is in the state that is its outcome.
Outcome == Answer \ {"none"}
Job == [key : Keys, generation : Nat, epoch : Nat, owner : Requests,
        state : {"running", "answered"} \cup Outcome]

Blank == [state |-> "new", key |-> NoKey, generation |-> 0, refresh |-> FALSE,
          own |-> FALSE, cancelled |-> FALSE, answer |-> "none"]

Init ==
    /\ request = [r \in Requests |-> Blank]
    /\ jobs = {} /\ pending = {} /\ refreshing = {}
    /\ generation = [k \in Keys |-> 0]
    /\ saved = [k \in Keys |-> 0] /\ savedEpoch = [k \in Keys |-> 0]
    /\ epoch = 0

-----------------------------------------------------------------------------
(* The thread of a request. *)

\* The request r once it has its answer: its event lives on in the job it began.
Answered(r, answer, cancelled) ==
    [Blank EXCEPT !.state = "done", !.own = request[r].own,
                  !.cancelled = cancelled, !.answer = answer]

\* translate: a cancellation may have overtaken the request.
Ask(r, k, refresh, own) ==
    /\ request[r].state = "new"
    /\ request[r].cancelled => own
    /\ request' = [request EXCEPT ![r] =
         IF request[r].cancelled
         THEN [Blank EXCEPT !.state = "done", !.own = TRUE, !.answer = "cancelled"]
         ELSE [Blank EXCEPT !.state = "asked", !.key = k, !.refresh = refresh, !.own = own]]
    /\ UNCHANGED <<jobs, tables, caches, epoch>>

\* The turn under way that this request may share, if there is one.
Shared(r) ==
    LET turn == <<request[r].key, generation[request[r].key]>>
    IN  /\ ~request[r].own
        /\ turn \in pending
        /\ request[r].refresh => turn \in refreshing

\* The locked part of _translate: the request is answered from a cache ...
FromCache(r) ==
    LET k == request[r].key IN
    /\ request[r].state = "asked"
    /\ \/ /\ request[r].cancelled
          /\ request' = [request EXCEPT ![r] = Answered(r, "cancelled", TRUE)]
       \/ /\ ~request[r].cancelled /\ ~request[r].refresh /\ saved[k] # 0
          /\ request' = [request EXCEPT ![r] = Answered(r, "text", FALSE)]
    /\ UNCHANGED <<jobs, tables, caches, epoch>>

Generates(r) ==
    /\ request[r].state = "asked" /\ ~request[r].cancelled
    /\ request[r].refresh \/ saved[request[r].key] = 0

Waiting(r, g) ==
    [request EXCEPT ![r].state = "waiting", ![r].generation = g]

\* ... or joins a turn that others have begun, and that may be over by now ...
Join(r) ==
    /\ Generates(r) /\ Shared(r)
    /\ \E j \in jobs :
         /\ j.key = request[r].key /\ j.generation = generation[j.key]
         /\ request' = IF j.state \in Outcome
                       THEN [request EXCEPT ![r] = Answered(r, j.state, FALSE)]
                       ELSE Waiting(r, j.generation)
    /\ UNCHANGED <<jobs, tables, caches, epoch>>

\* ... or begins one, if there are not too many under way.
Begin(r) ==
    LET k == request[r].key
        turn == <<k, generation[k] + 1>>
    IN
    /\ Generates(r) /\ ~Shared(r)
    /\ \/ /\ Cardinality(pending) >= Workers
          /\ request' = [request EXCEPT ![r] = Answered(r, "refused", FALSE)]
          /\ UNCHANGED <<jobs, tables>>
       \/ /\ Cardinality(pending) < Workers
          /\ generation' = [generation EXCEPT ![k] = @ + 1]
          /\ jobs' = jobs \cup {[key |-> k, generation |-> turn[2], epoch |-> epoch,
                                 owner |-> r, state |-> "running"]}
          /\ pending' = pending \cup {turn}
          /\ refreshing' = IF request[r].refresh THEN refreshing \cup {turn}
                           ELSE refreshing
          /\ request' = Waiting(r, turn[2])
    /\ UNCHANGED <<caches, epoch>>

\* Mutant: a request that gives up takes its future out of the table.
TimeOutForgets(r) ==
    /\ request[r].state = "waiting"
    /\ request' = [request EXCEPT ![r] = Answered(r, "refused", request[r].own)]
    /\ pending' = pending \ {<<request[r].key, request[r].generation>>}
    /\ UNCHANGED <<jobs, refreshing, generation, caches, epoch>>

\* No result in 45 seconds: the job goes on, cancelled if it can be.
TimeOut(r) ==
    /\ request[r].state = "waiting"
    /\ request' = [request EXCEPT ![r] = Answered(r, "refused", request[r].own)]
    /\ UNCHANGED <<jobs, tables, caches, epoch>>

-----------------------------------------------------------------------------
(* The thread of a job: _generate_saved and _finish. *)

OwnerCancelled(j) == request[j.owner].own /\ request[j.owner].cancelled

Become(j, state) == jobs' = (jobs \ {j}) \cup {[j EXCEPT !.state = state]}

\* The future is done: whoever waits for it gets its outcome.
Ends(j, outcome) ==
    /\ Become(j, outcome)
    /\ request' = [r \in Requests |->
         IF /\ request[r].state = "waiting"
            /\ request[r].key = j.key /\ request[r].generation = j.generation
         THEN Answered(r, outcome, request[r].cancelled) ELSE request[r]]

\* The model answers or not, or the job finds itself cancelled.
Generate(j) ==
    /\ j.state = "running"
    /\ \/ OwnerCancelled(j) /\ Ends(j, "cancelled")
       \/ Ends(j, "refused")
       \/ ~OwnerCancelled(j) /\ Become(j, "answered") /\ UNCHANGED request
    /\ UNCHANGED <<tables, caches, epoch>>

\* Mutants: only one of the two conditions is looked at.
UpToDateEpoch(j) == j.key \in Dictionary \/ j.epoch = epoch
UpToDateGeneration(j) == generation[j.key] = j.generation

\* An answer is saved unless it is out of date.
UpToDate(j) ==
    /\ generation[j.key] = j.generation
    /\ j.key \in Dictionary \/ j.epoch = epoch

Save(j) ==
    /\ j.state = "answered"
    /\ \/ /\ OwnerCancelled(j)
          /\ Ends(j, "cancelled")
          /\ UNCHANGED caches
       \/ /\ ~OwnerCancelled(j)
          /\ Ends(j, "text")
          /\ IF UpToDate(j)
             THEN /\ saved' = [saved EXCEPT ![j.key] = j.generation]
                  /\ savedEpoch' = [savedEpoch EXCEPT ![j.key] = j.epoch]
             ELSE UNCHANGED caches
    /\ UNCHANGED <<tables, epoch>>

\* The callback of the future runs after those who waited for it may have left.
Finish(j) ==
    /\ j.state \in Outcome
    /\ jobs' = jobs \ {j}
    /\ pending' = pending \ {<<j.key, j.generation>>}
    /\ refreshing' = refreshing \ {<<j.key, j.generation>>}
    /\ UNCHANGED <<request, generation, caches, epoch>>

-----------------------------------------------------------------------------
(* Other requests to the service. *)

\* cancel: also before the request it is about, and in vain after it.
Cancel(r) ==
    /\ ~request[r].cancelled
    /\ request[r].state = "new" \/ (request[r].own /\ request[r].state # "done")
    /\ request' = [request EXCEPT ![r].cancelled = TRUE]
    /\ UNCHANGED <<jobs, tables, caches, epoch>>

\* clear_cache keeps the dictionary.
ClearCache ==
    /\ epoch < MaxEpoch
    /\ epoch' = epoch + 1
    /\ saved' = [k \in Keys |-> IF k \in Dictionary THEN saved[k] ELSE 0]
    /\ UNCHANGED <<request, jobs, tables, savedEpoch>>

Next ==
    \/ \E r \in Requests, k \in Keys, refresh, own \in BOOLEAN : Ask(r, k, refresh, own)
    \/ \E r \in Requests : FromCache(r) \/ Join(r) \/ Begin(r) \/ TimeOut(r) \/ Cancel(r)
    \/ \E j \in jobs : Generate(j) \/ Save(j) \/ Finish(j)
    \/ ClearCache

Spec == Init /\ [][Next]_vars

-----------------------------------------------------------------------------
(* Properties. *)

TypeOK ==
    /\ request \in [Requests -> Request]
    /\ jobs \subseteq Job
    /\ pending \subseteq Keys \X Nat /\ refreshing \subseteq Keys \X Nat
    /\ generation \in [Keys -> Nat]
    /\ saved \in [Keys -> Nat] /\ savedEpoch \in [Keys -> Nat]
    /\ epoch \in 0..MaxEpoch

\* What the caches hold for a text was asked for after they were last cleared,
\* however late its answer came; only dictionary entries outlive a clearing.
ClearedStaysCleared ==
    \A k \in Keys \ Dictionary : saved[k] # 0 => savedEpoch[k] = epoch

\* The answer of a turn that was begun earlier never replaces the answer of a
\* later one, in whatever order they come.
NeverOlder ==
    [][\A k \in Keys : saved'[k] # 0 => saved'[k] >= saved[k]]_vars

\* The table that busy() and the limit look at holds the turns under way, all of
\* them and nothing else, and none waits for a thread of the executor.
WorkIsSeen ==
    /\ pending = {<<j.key, j.generation>> : j \in jobs}
    /\ Cardinality(jobs) <= Workers

\* A request that waits, waits for a turn that is still going to end.
NoWaitInVain ==
    \A r \in Requests : request[r].state = "waiting" =>
        \E j \in jobs : /\ j.key = request[r].key
                         /\ j.generation = request[r].generation
                         /\ j.state \notin Outcome

\* Whatever timed out, was overtaken or was cancelled, the service is never called
\* idle while a turn runs, no turn that is over blocks others, and nobody waits
\* for a turn that he was forgotten by or that was over when he joined
\* (_translate, _finish, busy).
TurnsAreTracked == WorkIsSeen /\ NoWaitInVain
=============================================================================
