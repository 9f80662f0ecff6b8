---------------------- MODULE SelectionTranslatorProofs ----------------------
(***************************************************************************)
(* Proofs about SelectionTranslator, for any requests and texts and any    *)
(* number of clearings.                                                    *)
(***************************************************************************)
EXTENDS SelectionTranslator, FiniteSetTheorems, TLAPS

-----------------------------------------------------------------------------
(* The inductive invariant. *)

Turn(j) == <<j.key, j.generation>>

\* A request is about a text from when it is looked at until it is answered.
Keyed == \A r \in Requests :
            request[r].state \in {"asked", "waiting"} => request[r].key \in Keys

\* The table holds the turns under way, one job each, none from the future; and
\* what is saved is the answer of a turn that was begun.
Turns ==
    /\ IsFiniteSet(pending) /\ Cardinality(pending) <= Workers
    /\ pending = {Turn(j) : j \in jobs}
    /\ \A i, j \in jobs : Turn(i) = Turn(j) => i = j
    /\ \A j \in jobs : j.generation <= generation[j.key]
    /\ \A k \in Keys : saved[k] <= generation[k]

Inv == TypeOK /\ Keyed /\ Turns /\ ClearedStaysCleared /\ NoWaitInVain

\* The disjunct of Begin in which a turn is begun.
Began(r) ==
    LET k == request[r].key
        turn == <<k, generation[k] + 1>>
    IN  /\ Cardinality(pending) < Workers
        /\ generation' = [generation EXCEPT ![k] = generation[k] + 1]
        /\ jobs' = jobs \cup {[key |-> k, generation |-> generation[k] + 1, epoch |-> epoch,
                               owner |-> r, state |-> "running"]}
        /\ pending' = pending \cup {turn}
        /\ refreshing' \in {refreshing, refreshing \cup {turn}}
        /\ request' = Waiting(r, generation[k] + 1)
        /\ UNCHANGED <<caches, epoch>>

Refused(r) ==
    /\ request' = [request EXCEPT ![r] = Answered(r, "refused", FALSE)]
    /\ UNCHANGED <<jobs, tables, caches, epoch>>

LEMMA BeginCases ==
    ASSUME NEW r \in Requests, Begin(r)
    PROVE  Began(r) \/ Refused(r)
BY DEF Begin, Began, Refused

-----------------------------------------------------------------------------
(* Types. *)

LEMMA BlankType == Blank \in Request
BY DEF Blank, Request, Answer

LEMMA AnsweredType ==
    ASSUME TypeOK, NEW r \in Requests, NEW answer \in Answer, NEW cancelled \in BOOLEAN
    PROVE  Answered(r, answer, cancelled) \in Request
<1>1. request[r].own \in BOOLEAN BY DEF TypeOK, Request
<1> QED BY <1>1, BlankType DEF Answered, Request

\* One request changes, and becomes a request.
LEMMA OneRequest ==
    ASSUME TypeOK, NEW r \in Requests, NEW new \in Request,
           request' = [request EXCEPT ![r] = new]
    PROVE  request' \in [Requests -> Request]
BY DEF TypeOK

LEMMA WaitingType ==
    ASSUME TypeOK, NEW r \in Requests, NEW g \in Nat, request' = Waiting(r, g)
    PROVE  request' \in [Requests -> Request]
<1> DEFINE new == [request[r] EXCEPT !.state = "waiting", !.generation = g]
<1>1. request[r] \in Request BY DEF TypeOK
<1>2. new \in Request BY <1>1 DEF Request
<1>3. request' = [request EXCEPT ![r] = new] BY <1>1 DEF Waiting, TypeOK, Request
<1> HIDE DEF new
<1> QED BY <1>2, <1>3, OneRequest

LEMMA BecomeType ==
    ASSUME TypeOK, NEW j \in jobs, NEW state \in {"answered"} \cup Outcome,
           Become(j, state)
    PROVE  jobs' \subseteq Job
<1>1. j \in Job BY DEF TypeOK
<1>2. [j EXCEPT !.state = state] \in Job BY <1>1 DEF Job
<1> QED BY <1>2 DEF Become, TypeOK

LEMMA EndsType ==
    ASSUME TypeOK, NEW j \in jobs, NEW outcome \in Outcome, Ends(j, outcome)
    PROVE  request' \in [Requests -> Request] /\ jobs' \subseteq Job
<1>1. jobs' \subseteq Job BY BecomeType DEF Ends
<1>2. ASSUME NEW r \in Requests
      PROVE  Answered(r, outcome, request[r].cancelled) \in Request
  <2>1. request[r].cancelled \in BOOLEAN BY DEF TypeOK, Request
  <2> QED BY <2>1, AnsweredType DEF Outcome
<1>3. \A r \in Requests : request[r] \in Request BY DEF TypeOK
<1> QED BY <1>1, <1>2, <1>3 DEF Ends

LEMMA TypeStep == TypeOK /\ Keyed /\ [Next]_vars => TypeOK'
<1> SUFFICES ASSUME TypeOK, Keyed, [Next]_vars PROVE TypeOK' OBVIOUS
<1> USE DEF TypeOK
<1>0. \A r \in Requests :
        /\ request[r] \in Request /\ request[r].own \in BOOLEAN
        /\ request[r].cancelled \in BOOLEAN
  BY DEF Request
<1>1. CASE UNCHANGED vars BY <1>1 DEF vars, tables, caches
<1>2. ASSUME NEW r \in Requests, NEW k \in Keys, NEW refresh \in BOOLEAN,
             NEW own \in BOOLEAN, Ask(r, k, refresh, own)
      PROVE  TypeOK'
  <2> DEFINE overtaken == [Blank EXCEPT !.state = "done", !.own = TRUE,
                                        !.answer = "cancelled"]
             asked == [Blank EXCEPT !.state = "asked", !.key = k,
                                    !.refresh = refresh, !.own = own]
  <2>1. overtaken \in Request BY BlankType DEF Request, Answer
  <2>2. asked \in Request BY BlankType DEF Request
  <2>3. \E new \in {overtaken, asked} : request' = [request EXCEPT ![r] = new]
    BY <1>2 DEF Ask
  <2>4. request' \in [Requests -> Request] BY <2>1, <2>2, <2>3
  <2> QED BY <1>2, <2>4 DEF Ask, tables, caches
<1>3. ASSUME NEW r \in Requests, FromCache(r) PROVE TypeOK'
  <2>1. Answered(r, "cancelled", TRUE) \in Request
        /\ Answered(r, "text", FALSE) \in Request
    BY AnsweredType DEF Answer
  <2> QED BY <1>3, <2>1 DEF FromCache, tables, caches
<1>4. ASSUME NEW r \in Requests, Join(r) PROVE TypeOK'
  <2>1. PICK j \in jobs :
               request' = IF j.state \in Outcome
                          THEN [request EXCEPT ![r] = Answered(r, j.state, FALSE)]
                          ELSE Waiting(r, j.generation)
    BY <1>4 DEF Join
  <2>2. j.generation \in Nat BY DEF Job
  <2>3. CASE j.state \in Outcome
    <3>1. Answered(r, j.state, FALSE) \in Request
      BY <2>3, AnsweredType DEF Outcome
    <3> QED BY <1>4, <2>1, <2>3, <3>1 DEF Join, tables, caches
  <2>4. CASE j.state \notin Outcome
    <3>1. request' \in [Requests -> Request] BY <2>1, <2>2, <2>4, WaitingType
    <3> QED BY <1>4, <3>1 DEF Join, tables, caches
  <2> QED BY <2>3, <2>4
<1>5. ASSUME NEW r \in Requests, Begin(r) PROVE TypeOK'
  <2>1. CASE Refused(r)
    <3>1. Answered(r, "refused", FALSE) \in Request BY AnsweredType DEF Answer
    <3> QED BY <2>1, <3>1 DEF Refused, tables, caches
  <2>2. CASE Began(r)
    <3> DEFINE k == request[r].key
               job == [key |-> k, generation |-> generation[k] + 1, epoch |-> epoch,
                       owner |-> r, state |-> "running"]
    <3>1. k \in Keys BY <1>5 DEF Begin, Generates, Keyed
    <3>2. generation[k] + 1 \in Nat BY <3>1
    <3>3. job \in Job BY <3>1, <3>2, EpochAssumption DEF Job
    <3>4. request' \in [Requests -> Request] BY <2>2, <3>2, WaitingType DEF Began
    <3>5. jobs' \subseteq Job BY <2>2, <3>3 DEF Began
    <3>6. generation' \in [Keys -> Nat] BY <2>2, <3>2 DEF Began
    <3>7. pending' \subseteq Keys \X Nat /\ refreshing' \subseteq Keys \X Nat
      BY <2>2, <3>1, <3>2 DEF Began
    <3> QED BY <2>2, <3>4, <3>5, <3>6, <3>7 DEF Began, caches
  <2> QED BY <1>5, <2>1, <2>2, BeginCases
<1>6. ASSUME NEW r \in Requests, TimeOut(r) PROVE TypeOK'
  <2>1. Answered(r, "refused", request[r].own) \in Request
    BY <1>0, AnsweredType DEF Answer
  <2> QED BY <1>6, <2>1 DEF TimeOut, tables, caches
<1>7. ASSUME NEW r \in Requests, Cancel(r) PROVE TypeOK'
  <2>1. [request[r] EXCEPT !.cancelled = TRUE] \in Request BY <1>0 DEF Request
  <2> QED BY <1>7, <2>1 DEF Cancel, tables, caches
<1>8. ASSUME NEW j \in jobs, Generate(j) PROVE TypeOK'
  <2>1. request' \in [Requests -> Request] /\ jobs' \subseteq Job
    <3>1. CASE Ends(j, "cancelled") \/ Ends(j, "refused")
      BY <3>1, EndsType DEF Outcome, Answer
    <3>2. CASE Become(j, "answered") /\ UNCHANGED request BY <3>2, BecomeType
    <3> QED BY <1>8, <3>1, <3>2 DEF Generate
  <2> QED BY <1>8, <2>1 DEF Generate, tables, caches
<1>9. ASSUME NEW j \in jobs, Save(j) PROVE TypeOK'
  <2>1. request' \in [Requests -> Request] /\ jobs' \subseteq Job
    BY <1>9, EndsType DEF Save, Outcome, Answer
  <2>2. j.key \in Keys /\ j.generation \in Nat /\ j.epoch \in Nat BY DEF Job
  <2>3. saved' \in [Keys -> Nat] /\ savedEpoch' \in [Keys -> Nat]
    BY <1>9, <2>2 DEF Save, caches
  <2> QED BY <1>9, <2>1, <2>3 DEF Save, tables
<1>10. ASSUME NEW j \in jobs, Finish(j) PROVE TypeOK'
  BY <1>10 DEF Finish, caches
<1>11. CASE ClearCache
  BY <1>11, EpochAssumption DEF ClearCache, tables
<1> QED BY <1>1, <1>2, <1>3, <1>4, <1>5, <1>6, <1>7, <1>8, <1>9, <1>10, <1>11 DEF Next

-----------------------------------------------------------------------------
(* What a step does to a request. *)

LEMMA AnsweredIsDone ==
    ASSUME NEW r, NEW answer, NEW cancelled
    PROVE  Answered(r, answer, cancelled).state = "done"
BY DEF Answered, Blank

\* It stays what it is (a cancellation aside), is answered, asks, or waits.
Stays(r) ==
    /\ request'[r].state = request[r].state /\ request'[r].key = request[r].key
    /\ request'[r].generation = request[r].generation
Asks(r) == request'[r].state = "asked" /\ request'[r].key \in Keys
Waits(r) ==
    /\ request[r].state = "asked" /\ request'[r].state = "waiting"
    /\ request'[r].key = request[r].key
Moves(r) == Stays(r) \/ request'[r].state = "done" \/ Asks(r) \/ Waits(r)

LEMMA OneMoves ==
    ASSUME TypeOK, NEW r \in Requests, NEW new, request' = [request EXCEPT ![r] = new]
    PROVE  request'[r] = new /\ \A q \in Requests \ {r} : request'[q] = request[q]
BY DEF TypeOK

LEMMA WaitingMoves ==
    ASSUME TypeOK, NEW r \in Requests, NEW g \in Nat, request' = Waiting(r, g)
    PROVE  /\ request'[r].state = "waiting" /\ request'[r].key = request[r].key
           /\ request'[r].generation = g
           /\ \A q \in Requests \ {r} : request'[q] = request[q]
<1> DEFINE new == [request[r] EXCEPT !.state = "waiting", !.generation = g]
<1>1. request[r] \in Request BY DEF TypeOK
<1>2. new.state = "waiting" /\ new.key = request[r].key /\ new.generation = g
  BY <1>1 DEF Request
<1>3. request' = [request EXCEPT ![r] = new] BY <1>1 DEF Waiting, TypeOK, Request
<1> HIDE DEF new
<1> QED BY <1>2, <1>3, OneMoves

\* The end of a job answers who waits for it, and nobody else.
LEMMA EndsMoves ==
    ASSUME TypeOK, NEW j \in jobs, NEW outcome, Ends(j, outcome)
    PROVE  \A r \in Requests :
              \/ request'[r].state = "done"
              \/ /\ request'[r] = request[r]
                 /\ ~(/\ request[r].state = "waiting" /\ request[r].key = j.key
                      /\ request[r].generation = j.generation)
BY AnsweredIsDone DEF Ends

\* A request that is answered moves, and no other.
LEMMA AnsweredMoves ==
    ASSUME TypeOK, NEW r \in Requests, NEW answer, NEW cancelled,
           request' = [request EXCEPT ![r] = Answered(r, answer, cancelled)]
    PROVE  /\ request'[r].state = "done"
           /\ \A q \in Requests \ {r} : request'[q] = request[q]
<1> DEFINE new == Answered(r, answer, cancelled)
<1>1. new.state = "done" BY AnsweredIsDone
<1>2. request' = [request EXCEPT ![r] = new] OBVIOUS
<1> HIDE DEF new
<1> QED BY <1>1, <1>2, OneMoves

LEMMA KeyedMoves ==
    ASSUME Keyed, \A r \in Requests : Moves(r)
    PROVE  Keyed'
BY DEF Keyed, Moves, Stays, Asks, Waits

LEMMA MovesStep == TypeOK /\ Keyed /\ [Next]_vars => \A r \in Requests : Moves(r)
<1> SUFFICES ASSUME TypeOK, Keyed, [Next]_vars PROVE \A r \in Requests : Moves(r) OBVIOUS
<1> USE DEF Moves, Stays, Asks, Waits
<1>1. CASE UNCHANGED request BY <1>1
<1>2. ASSUME NEW r \in Requests, NEW k \in Keys, NEW refresh \in BOOLEAN,
             NEW own \in BOOLEAN, Ask(r, k, refresh, own)
      PROVE  \A q \in Requests : Moves(q)
  <2>1. [Blank EXCEPT !.state = "done", !.own = TRUE, !.answer = "cancelled"].state
        = "done"
    BY DEF Blank
  <2> DEFINE asked == [Blank EXCEPT !.state = "asked", !.key = k, !.refresh = refresh,
                                    !.own = own]
  <2>2. asked.state = "asked" /\ asked.key = k BY DEF Blank
  <2> QED BY <1>2, <2>1, <2>2, OneMoves DEF Ask
<1>3. ASSUME NEW r \in Requests, FromCache(r) PROVE \A q \in Requests : Moves(q)
  <2>1. CASE request' = [request EXCEPT ![r] = Answered(r, "cancelled", TRUE)]
    BY <2>1, AnsweredMoves
  <2>2. CASE request' = [request EXCEPT ![r] = Answered(r, "text", FALSE)]
    BY <2>2, AnsweredMoves
  <2> QED BY <1>3, <2>1, <2>2 DEF FromCache
<1>4. ASSUME NEW r \in Requests, Join(r) PROVE \A q \in Requests : Moves(q)
  <2>1. PICK j \in jobs :
               request' = IF j.state \in Outcome
                          THEN [request EXCEPT ![r] = Answered(r, j.state, FALSE)]
                          ELSE Waiting(r, j.generation)
    BY <1>4 DEF Join
  <2>2. j.generation \in Nat /\ request[r].state = "asked"
    BY <1>4 DEF TypeOK, Job, Join, Generates
  <2>3. CASE request' = [request EXCEPT ![r] = Answered(r, j.state, FALSE)]
    BY <2>3, AnsweredMoves
  <2>4. CASE request' = Waiting(r, j.generation)
    BY <2>2, <2>4, WaitingMoves
  <2> QED BY <2>1, <2>3, <2>4
<1>5. ASSUME NEW r \in Requests, Begin(r) PROVE \A q \in Requests : Moves(q)
  <2>1. request[r].state = "asked" BY <1>5 DEF Begin, Generates
  <2>2. CASE Refused(r)
    <3>1. request' = [request EXCEPT ![r] = Answered(r, "refused", FALSE)]
      BY <2>2 DEF Refused
    <3> QED BY <3>1, AnsweredMoves
  <2>3. CASE Began(r)
    <3>1. generation[request[r].key] + 1 \in Nat
      BY <1>5, <2>1 DEF Keyed, TypeOK
    <3>2. request' = Waiting(r, generation[request[r].key] + 1) BY <2>3 DEF Began
    <3> QED BY <2>1, <3>1, <3>2, WaitingMoves
  <2> QED BY <1>5, <2>2, <2>3, BeginCases
<1>6. ASSUME NEW r \in Requests, TimeOut(r) PROVE \A q \in Requests : Moves(q)
  BY <1>6, AnsweredIsDone, OneMoves DEF TimeOut
<1>7. ASSUME NEW r \in Requests, Cancel(r) PROVE \A q \in Requests : Moves(q)
  <2> DEFINE new == [request[r] EXCEPT !.cancelled = TRUE]
  <2>1. request[r] \in Request BY DEF TypeOK
  <2>2. /\ new.state = request[r].state /\ new.key = request[r].key
        /\ new.generation = request[r].generation
    BY <2>1 DEF Request
  <2>3. request' = [request EXCEPT ![r] = new] BY <1>7 DEF Cancel
  <2> HIDE DEF new
  <2> QED BY <2>2, <2>3, OneMoves
<1>8. ASSUME NEW j \in jobs, NEW outcome, Ends(j, outcome)
      PROVE  \A q \in Requests : Moves(q)
  BY <1>8, EndsMoves
<1>9. ASSUME NEW j \in jobs, Generate(j) \/ Save(j) \/ Finish(j)
      PROVE  \A q \in Requests : Moves(q)
  BY <1>1, <1>8, <1>9 DEF Generate, Save, Finish
<1>10. CASE ClearCache \/ UNCHANGED vars BY <1>1, <1>10 DEF ClearCache, vars
<1> QED BY <1>2, <1>3, <1>4, <1>5, <1>6, <1>7, <1>9, <1>10 DEF Next

LEMMA KeyedStep == TypeOK /\ Keyed /\ [Next]_vars => Keyed'
BY MovesStep, KeyedMoves

-----------------------------------------------------------------------------
(* The turns under way. *)

\* A job that moves on is still the same turn.
LEMMA SameTurn ==
    ASSUME TypeOK, NEW j \in jobs, NEW state, Become(j, state)
    PROVE  \E new : /\ jobs' = (jobs \ {j}) \cup {new}
                    /\ new.key = j.key /\ new.generation = j.generation
                    /\ new.epoch = j.epoch /\ new.state = state
<1> DEFINE new == [j EXCEPT !.state = state]
<1>1. j \in Job BY DEF TypeOK
<1>2. /\ new.key = j.key /\ new.generation = j.generation
      /\ new.epoch = j.epoch /\ new.state = state
  BY <1>1 DEF Job
<1>3. jobs' = (jobs \ {j}) \cup {new} BY DEF Become
<1> HIDE DEF new
<1> QED BY <1>2, <1>3

LEMMA BecomeTurns ==
    ASSUME TypeOK, Turns, NEW j \in jobs, NEW state, Become(j, state), UNCHANGED tables,
           \A k \in Keys : saved'[k] <= generation[k]
    PROVE  Turns'
<1> USE DEF Turns
<1>1. PICK new : /\ jobs' = (jobs \ {j}) \cup {new}
                 /\ new.key = j.key /\ new.generation = j.generation
  BY SameTurn
<1>2. pending' = pending /\ generation' = generation BY DEF tables
<1>3. Turn(new) = Turn(j) BY <1>1 DEF Turn
<1>4. pending' = {Turn(i) : i \in jobs'} BY <1>1, <1>2, <1>3
<1>5. \A h, i \in jobs' : Turn(h) = Turn(i) => h = i BY <1>1, <1>3
<1>6. \A i \in jobs' : i.generation <= generation'[i.key] BY <1>1, <1>2
<1> QED BY <1>2, <1>4, <1>5, <1>6 DEF Turn

LEMMA BeganTurns ==
    ASSUME TypeOK, Keyed, Turns, NEW r \in Requests, Begin(r), Began(r)
    PROVE  Turns'
<1> USE DEF Turns
<1> DEFINE k == request[r].key
           g == generation[k] + 1
           job == [key |-> k, generation |-> g, epoch |-> epoch,
                   owner |-> r, state |-> "running"]
<1>1. k \in Keys /\ generation[k] \in Nat /\ g \in Nat
  BY DEF Begin, Generates, Keyed, TypeOK
<1>2. /\ Cardinality(pending) < Workers
      /\ generation' = [generation EXCEPT ![k] = g]
      /\ jobs' = jobs \cup {job} /\ pending' = pending \cup {<<k, g>>}
      /\ saved' = saved
  BY DEF Began, caches
<1>3. \A i \in jobs : i.key \in Keys /\ i.generation \in Nat BY DEF TypeOK, Job
<1>4. \A l \in Keys : generation'[l] \in Nat /\ generation[l] <= generation'[l]
  BY <1>1, <1>2 DEF TypeOK
<1>5. IsFiniteSet(pending') BY <1>2, FS_AddElement
<1>6. Cardinality(pending') <= Workers
  <2>1. Cardinality(pending) \in Nat BY FS_CardinalityType
  <2>2. Cardinality(pending') \in {Cardinality(pending), Cardinality(pending) + 1}
    BY <1>2, FS_AddElement
  <2> QED BY <1>2, <2>1, <2>2 DEF Workers
<1>7. job.key = k /\ job.generation = g OBVIOUS
<1> HIDE DEF job
<1>8. Turn(job) = <<k, g>> BY <1>7 DEF Turn
<1>9. pending' = {Turn(i) : i \in jobs'} BY <1>2, <1>8
<1>10. \A i \in jobs : Turn(i) # Turn(job)
  <2> SUFFICES ASSUME NEW i \in jobs, i.key = k, i.generation = g PROVE FALSE
    BY <1>7 DEF Turn
  <2>1. i.generation <= generation[k] OBVIOUS
  <2> QED BY <1>1, <2>1
<1>11. \A h, i \in jobs' : Turn(h) = Turn(i) => h = i BY <1>2, <1>10
<1>12. \A i \in jobs' : i.generation <= generation'[i.key]
  <2>1. ASSUME NEW i \in jobs PROVE i.generation <= generation'[i.key]
    <3>1. i.generation <= generation[i.key] OBVIOUS
    <3>2. generation[i.key] \in Nat BY <1>3 DEF TypeOK
    <3> QED BY <1>3, <1>4, <3>1, <3>2
  <2>2. generation'[k] = g BY <1>1, <1>2 DEF TypeOK
  <2> QED BY <1>1, <1>2, <1>7, <2>1, <2>2
<1>13. \A l \in Keys : saved'[l] <= generation'[l]
  <2> SUFFICES ASSUME NEW l \in Keys PROVE saved[l] <= generation'[l] BY <1>2
  <2>1. saved[l] \in Nat /\ generation[l] \in Nat BY DEF TypeOK
  <2> QED BY <1>4, <2>1
<1> QED BY <1>5, <1>6, <1>9, <1>11, <1>12, <1>13 DEF Turn

LEMMA FinishTurns ==
    ASSUME TypeOK, Turns, NEW j \in jobs, Finish(j)
    PROVE  Turns'
<1> USE DEF Turns
<1>1. /\ jobs' = jobs \ {j} /\ pending' = pending \ {Turn(j)}
      /\ generation' = generation /\ saved' = saved
  BY DEF Finish, Turn, caches
<1>2. IsFiniteSet(pending') BY <1>1, FS_RemoveElement
<1>3. Cardinality(pending') <= Workers
  <2>1. Cardinality(pending) \in Nat BY FS_CardinalityType
  <2>2. Cardinality(pending') \in {Cardinality(pending), Cardinality(pending) - 1}
    BY <1>1, FS_RemoveElement
  <2> QED BY <2>1, <2>2 DEF Workers
<1>4. pending' = {Turn(i) : i \in jobs'} BY <1>1
<1> QED BY <1>1, <1>2, <1>3, <1>4 DEF Turn

\* What the other actions leave alone.
LEMMA Quiet ==
    ASSUME NEW r \in Requests
    PROVE  /\ \A k \in Keys, refresh, own \in BOOLEAN :
                 Ask(r, k, refresh, own) => UNCHANGED <<jobs, tables, caches, epoch>>
           /\ FromCache(r) => UNCHANGED <<jobs, tables, caches, epoch>>
           /\ Join(r) => UNCHANGED <<jobs, tables, caches, epoch>>
           /\ Refused(r) => UNCHANGED <<jobs, tables, caches, epoch>>
           /\ TimeOut(r) => UNCHANGED <<jobs, tables, caches, epoch>>
           /\ Cancel(r) => UNCHANGED <<jobs, tables, caches, epoch>>
BY DEF Ask, FromCache, Join, Refused, TimeOut, Cancel

LEMMA SavedIsLatest ==
    ASSUME TypeOK, Turns, NEW j \in jobs, Save(j)
    PROVE  \A k \in Keys : \/ saved'[k] = saved[k] /\ savedEpoch'[k] = savedEpoch[k]
                           \/ /\ saved'[k] = generation[k] /\ k = j.key /\ UpToDate(j)
                              /\ savedEpoch'[k] = j.epoch
BY DEF Save, caches, UpToDate, TypeOK

LEMMA TurnsStep == TypeOK /\ Keyed /\ Turns /\ [Next]_vars => Turns'
<1> SUFFICES ASSUME TypeOK, Keyed, Turns, [Next]_vars PROVE Turns' OBVIOUS
<1>1. CASE UNCHANGED <<jobs, tables, caches, epoch>>
  BY <1>1 DEF tables, caches, Turns, Turn
<1>2. ASSUME NEW r \in Requests, Begin(r) PROVE Turns'
  <2>1. CASE Refused(r) BY <1>1, <2>1, Quiet
  <2>2. CASE Began(r) BY <1>2, <2>2, BeganTurns
  <2> QED BY <1>2, <2>1, <2>2, BeginCases
<1>3. \A k \in Keys : saved[k] \in Nat /\ generation[k] \in Nat /\ saved[k] <= generation[k]
  BY DEF TypeOK, Turns
<1>4. ASSUME NEW j \in jobs, Generate(j) PROVE Turns'
  <2>1. saved' = saved /\ UNCHANGED tables BY <1>4 DEF Generate, caches
  <2>2. PICK state : Become(j, state) BY <1>4 DEF Generate, Ends
  <2> QED BY <1>3, <2>1, <2>2, BecomeTurns
<1>5. ASSUME NEW j \in jobs, Save(j) PROVE Turns'
  <2>1. UNCHANGED tables BY <1>5 DEF Save
  <2>2. PICK state : Become(j, state) BY <1>5 DEF Save, Ends
  <2>3. \A k \in Keys : saved'[k] <= generation[k] BY <1>3, <1>5, SavedIsLatest
  <2> QED BY <2>1, <2>2, <2>3, BecomeTurns
<1>6. ASSUME NEW j \in jobs, Finish(j) PROVE Turns' BY <1>6, FinishTurns
<1>7. CASE ClearCache
  <2>1. \A k \in Keys : saved'[k] \in {0, saved[k]} BY <1>7 DEF ClearCache
  <2>2. \A k \in Keys : saved'[k] <= generation[k] BY <1>3, <2>1
  <2> QED BY <1>7, <2>2 DEF ClearCache, tables, Turns, Turn
<1>8. CASE UNCHANGED vars BY <1>1, <1>8 DEF vars
<1> QED BY <1>1, <1>2, <1>4, <1>5, <1>6, <1>7, <1>8, Quiet DEF Next

-----------------------------------------------------------------------------
(* What is saved, and who waits. *)

LEMMA ClearedStep == TypeOK /\ Turns /\ ClearedStaysCleared /\ [Next]_vars
                     => ClearedStaysCleared'
<1> SUFFICES ASSUME TypeOK, Turns, ClearedStaysCleared, [Next]_vars
             PROVE  ClearedStaysCleared'
  OBVIOUS
<1>1. CASE UNCHANGED <<caches, epoch>> BY <1>1 DEF caches, ClearedStaysCleared
<1>2. ASSUME NEW j \in jobs, Save(j) PROVE ClearedStaysCleared'
  BY <1>2, SavedIsLatest DEF Save, UpToDate, ClearedStaysCleared
<1>3. CASE ClearCache BY <1>3 DEF ClearCache, ClearedStaysCleared
<1>4. ASSUME NEW r \in Requests, Begin(r) PROVE ClearedStaysCleared'
  BY <1>1, <1>4 DEF Begin
<1>5. ASSUME NEW j \in jobs, Generate(j) \/ Finish(j) PROVE ClearedStaysCleared'
  BY <1>1, <1>5 DEF Generate, Finish
<1>6. CASE UNCHANGED vars BY <1>1, <1>6 DEF vars
<1> QED BY <1>1, <1>2, <1>3, <1>4, <1>5, <1>6, Quiet DEF Next

\* The turn that a request waits for.
Awaited(r, j) ==
    j.key = request[r].key /\ j.generation = request[r].generation /\ j.state \notin Outcome

\* A job that moves on is awaited by the same requests.
LEMMA BecomeAwaited ==
    ASSUME TypeOK, Turns, NEW j \in jobs, NEW state, Become(j, state),
           NEW r \in Requests, request'[r] = request[r],
           NEW i \in jobs, Awaited(r, i), i = j => state \notin Outcome
    PROVE  \E new \in jobs' : Awaited(r, new)'
<1>1. PICK new : /\ jobs' = (jobs \ {j}) \cup {new}
                 /\ new.key = j.key /\ new.generation = j.generation
                 /\ new.state = state
  BY SameTurn
<1>2. CASE i = j
  <2>1. Awaited(r, new)' BY <1>1, <1>2 DEF Awaited
  <2> QED BY <1>1, <2>1
<1>3. CASE i # j
  <2>1. Awaited(r, i)' BY DEF Awaited
  <2> QED BY <1>1, <1>3, <2>1
<1> QED BY <1>2, <1>3

\* Whoever waited goes on waiting for a turn that is not over.
LEMMA WaitStep == TypeOK /\ Keyed /\ Turns /\ NoWaitInVain /\ [Next]_vars => NoWaitInVain'
<1> SUFFICES ASSUME TypeOK, Keyed, Turns, NoWaitInVain, [Next]_vars,
                    NEW r \in Requests, request'[r].state = "waiting"
             PROVE  \E j \in jobs' : Awaited(r, j)'
  BY DEF NoWaitInVain, Awaited
<1>0. request[r].state = "waiting" => \E j \in jobs : Awaited(r, j)
  BY DEF NoWaitInVain, Awaited
<1>1. ASSUME Stays(r), jobs \subseteq jobs' PROVE \E j \in jobs' : Awaited(r, j)'
  BY <1>0, <1>1 DEF Stays, Awaited
<1>2. Moves(r) BY MovesStep
<1>3. ASSUME Waits(r), ~Join(r), ~Begin(r) PROVE FALSE
  <2>1. request'[r] # request[r] BY <1>3 DEF Waits
  <2>2. ASSUME NEW q \in Requests, Join(q) \/ Begin(q) PROVE q = r
    <3>1. ASSUME NEW j \in jobs, request' = Waiting(q, j.generation) PROVE q = r
      BY <2>1, <3>1, WaitingMoves DEF TypeOK, Job
    <3>2. ASSUME NEW answer, NEW cancelled,
                 request' = [request EXCEPT ![q] = Answered(q, answer, cancelled)]
          PROVE  q = r
      BY <2>1, <3>2, AnsweredMoves
    <3>3. CASE Join(q)
      <4>1. PICK j \in jobs :
                   request' = IF j.state \in Outcome
                              THEN [request EXCEPT ![q] = Answered(q, j.state, FALSE)]
                              ELSE Waiting(q, j.generation)
        BY <3>3 DEF Join
      <4>2. CASE request' = [request EXCEPT ![q] = Answered(q, j.state, FALSE)]
        BY <3>2, <4>2
      <4> QED BY <3>1, <4>1, <4>2
    <3>4. CASE Refused(q)
      <4>1. request' = [request EXCEPT ![q] = Answered(q, "refused", FALSE)]
        BY <3>4 DEF Refused
      <4> QED BY <3>2, <4>1
    <3>5. CASE Begin(q) /\ Began(q)
      <4>1. generation[request[q].key] + 1 \in Nat
        BY <3>5 DEF Begin, Generates, Keyed, TypeOK
      <4>2. request' = Waiting(q, generation[request[q].key] + 1) BY <3>5 DEF Began
      <4> QED BY <2>1, <4>1, <4>2, WaitingMoves
    <3> QED BY <2>2, <3>3, <3>4, <3>5, BeginCases
  <2>3. ASSUME NEW q \in Requests, NEW k \in Keys, NEW refresh \in BOOLEAN,
               NEW own \in BOOLEAN, Ask(q, k, refresh, own)
        PROVE  FALSE
    <3>1. /\ [Blank EXCEPT !.state = "done", !.own = TRUE, !.answer = "cancelled"].state
             # "waiting"
          /\ [Blank EXCEPT !.state = "asked", !.key = k, !.refresh = refresh,
                           !.own = own].state # "waiting"
      BY DEF Blank
    <3> QED BY <1>3, <2>1, <2>3, <3>1, OneMoves DEF Ask, Waits
  <2>4. ASSUME NEW q \in Requests, FromCache(q) PROVE FALSE
    <3>1. CASE request' = [request EXCEPT ![q] = Answered(q, "cancelled", TRUE)]
      BY <1>3, <2>1, <3>1, AnsweredMoves DEF Waits
    <3>2. CASE request' = [request EXCEPT ![q] = Answered(q, "text", FALSE)]
      BY <1>3, <2>1, <3>2, AnsweredMoves DEF Waits
    <3> QED BY <2>4, <3>1, <3>2 DEF FromCache
  <2>5. ASSUME NEW q \in Requests, TimeOut(q) PROVE FALSE
    BY <1>3, <2>1, <2>5, AnsweredMoves DEF TimeOut, Waits
  <2>6. ASSUME NEW q \in Requests, Cancel(q) PROVE FALSE
    <3> DEFINE new == [request[q] EXCEPT !.cancelled = TRUE]
    <3>1. request[q] \in Request BY DEF TypeOK
    <3>2. new.state = request[q].state BY <3>1 DEF Request
    <3>3. request' = [request EXCEPT ![q] = new] BY <2>6 DEF Cancel
    <3> HIDE DEF new
    <3> QED BY <1>3, <2>1, <3>2, <3>3, OneMoves DEF Waits
  <2>7. ASSUME NEW j \in jobs, Generate(j) \/ Save(j) \/ Finish(j) PROVE FALSE
    BY <1>3, <2>1, <2>7, EndsMoves DEF Generate, Save, Finish, Waits
  <2>8. CASE ClearCache \/ UNCHANGED vars BY <2>1, <2>8 DEF ClearCache, vars
  <2> QED BY <1>3, <2>2, <2>3, <2>4, <2>5, <2>6, <2>7, <2>8 DEF Next
<1>4. CASE Join(r)
  <2>1. PICK j \in jobs :
               /\ j.key = request[r].key
               /\ request' = IF j.state \in Outcome
                             THEN [request EXCEPT ![r] = Answered(r, j.state, FALSE)]
                             ELSE Waiting(r, j.generation)
    BY <1>4 DEF Join
  <2>2. CASE j.state \in Outcome
    <3>1. request' = [request EXCEPT ![r] = Answered(r, j.state, FALSE)] BY <2>1, <2>2
    <3>2. request'[r].state = "done" BY <3>1, AnsweredMoves
    <3> QED BY <3>2
  <2>3. CASE j.state \notin Outcome
    <3>1. j.generation \in Nat BY DEF TypeOK, Job
    <3>2. /\ request'[r].key = j.key /\ request'[r].generation = j.generation
          /\ jobs' = jobs
      BY <1>4, <2>1, <2>3, <3>1, WaitingMoves DEF Join
    <3> QED BY <2>3, <3>2 DEF Awaited
  <2> QED BY <2>2, <2>3
<1>5. CASE Begin(r)
  <2>1. CASE Refused(r)
    <3>1. request' = [request EXCEPT ![r] = Answered(r, "refused", FALSE)]
      BY <2>1 DEF Refused
    <3>2. request'[r].state = "done" BY <3>1, AnsweredMoves
    <3> QED BY <3>2
  <2>2. CASE Began(r)
    <3> DEFINE g == generation[request[r].key] + 1
               job == [key |-> request[r].key, generation |-> g, epoch |-> epoch,
                       owner |-> r, state |-> "running"]
    <3>1. g \in Nat BY <1>5 DEF Begin, Generates, Keyed, TypeOK
    <3>2. job \in jobs' /\ request' = Waiting(r, g) BY <2>2 DEF Began
    <3>3. request'[r].key = request[r].key /\ request'[r].generation = g
      BY <3>1, <3>2, WaitingMoves
    <3>4. job.key = request[r].key /\ job.generation = g /\ job.state \notin Outcome
      BY DEF Outcome, Answer
    <3> HIDE DEF job
    <3> QED BY <3>2, <3>3, <3>4 DEF Awaited
  <2> QED BY <1>5, <2>1, <2>2, BeginCases
<1>6. CASE Stays(r)
  <2>1. CASE jobs \subseteq jobs' BY <1>1, <1>6, <2>1
  <2>2. ASSUME NEW j \in jobs, Generate(j) \/ Save(j)
        PROVE  \E i \in jobs' : Awaited(r, i)'
    <3>1. PICK i \in jobs : Awaited(r, i) BY <1>0, <1>6 DEF Stays
    <3>2. CASE Become(j, "answered") /\ UNCHANGED request
      <4>1. "answered" \notin Outcome BY DEF Outcome, Answer
      <4> QED BY <3>1, <3>2, <4>1, BecomeAwaited
    <3>3. ASSUME NEW outcome \in Outcome, Ends(j, outcome)
          PROVE  \E new \in jobs' : Awaited(r, new)'
      <4>1. /\ request'[r] = request[r] /\ request[r].state = "waiting"
            /\ ~(request[r].key = j.key /\ request[r].generation = j.generation)
        BY <1>6, <3>3, EndsMoves DEF Stays
      <4>2. i # j BY <3>1, <4>1 DEF Awaited
      <4>3. Become(j, outcome) BY <3>3 DEF Ends
      <4> QED BY <3>1, <4>1, <4>2, <4>3, BecomeAwaited
    <3> QED BY <2>2, <3>2, <3>3 DEF Generate, Save, Outcome, Answer
  <2>3. ASSUME NEW j \in jobs, Finish(j) PROVE \E i \in jobs' : Awaited(r, i)'
    <3>1. PICK i \in jobs : Awaited(r, i) BY <1>0, <1>6 DEF Stays
    <3>2. i # j BY <2>3, <3>1 DEF Finish, Awaited
    <3>3. jobs' = jobs \ {j} /\ request' = request BY <2>3 DEF Finish
    <3> QED BY <3>1, <3>2, <3>3 DEF Awaited
  <2>4. ASSUME NEW q \in Requests, Begin(q) PROVE jobs \subseteq jobs'
    BY <2>4 DEF Begin
  <2> QED BY <2>1, <2>2, <2>3, <2>4, Quiet DEF Next, ClearCache, vars
<1> QED BY <1>2, <1>3, <1>4, <1>5, <1>6 DEF Moves, Asks

-----------------------------------------------------------------------------
(* The theorems. *)

LEMMA InitInv == Init => Inv
<1> SUFFICES ASSUME Init PROVE Inv OBVIOUS
<1> USE DEF Init
<1>1. TypeOK BY BlankType, EpochAssumption DEF TypeOK
<1>2. Keyed /\ NoWaitInVain BY DEF Keyed, NoWaitInVain, Blank
<1>3. Turns
  <2>1. IsFiniteSet(pending) /\ Cardinality(pending) = 0 BY FS_EmptySet
  <2>2. 0 <= Workers BY DEF Workers
  <2> QED BY <2>1, <2>2 DEF Turns
<1>4. ClearedStaysCleared BY DEF ClearedStaysCleared
<1> QED BY <1>1, <1>2, <1>3, <1>4 DEF Inv

LEMMA InvStep == Inv /\ [Next]_vars => Inv'
BY TypeStep, KeyedStep, TurnsStep, ClearedStep, WaitStep DEF Inv

\* The invariant of SelectionTranslator: text_translation.py keeps its tables,
\* its caches and its waiting requests consistent with one another.
THEOREM Invariance == Spec => []Inv
<1>1. Init => Inv BY InitInv
<1>2. Inv /\ [Next]_vars => Inv' BY InvStep
<1> QED BY <1>1, <1>2, PTL DEF Spec

\* No answer asked for before clear_cache is in the caches after it, except
\* that of a dictionary.
THEOREM ClearingIsFinal == Spec => []ClearedStaysCleared
<1>1. Inv => ClearedStaysCleared BY DEF Inv
<1> QED BY <1>1, Invariance, PTL

\* Whoever waits in _translate waits for a future that is not done.
THEOREM EveryWaitEnds == Spec => []NoWaitInVain
<1>1. Inv => NoWaitInVain BY DEF Inv
<1> QED BY <1>1, Invariance, PTL

\* The turns fill no more than the threads of the executor.
LEMMA FewJobs == Turns => WorkIsSeen
<1> SUFFICES ASSUME Turns PROVE WorkIsSeen OBVIOUS
<1> USE DEF Turns
<1>1. pending = {<<j.key, j.generation>> : j \in jobs} BY DEF Turn
<1> DEFINE f == [j \in jobs |-> Turn(j)]
<1>2. f \in Injection(jobs, pending)
  <2>1. f \in [jobs -> pending] OBVIOUS
  <2>2. \A i, j \in jobs : f[i] = f[j] => i = j OBVIOUS
  <2> QED BY <2>1, <2>2 DEF Injection, IsInjective
<1>3. IsFiniteSet(jobs) /\ Cardinality(jobs) <= Cardinality(pending)
  BY <1>2, FS_Injection
<1>4. Cardinality(jobs) <= Workers
  <2>1. Cardinality(jobs) \in Nat /\ Cardinality(pending) \in Nat
    BY <1>3, FS_CardinalityType
  <2> QED BY <1>3, <2>1 DEF Workers
<1> QED BY <1>1, <1>4 DEF WorkIsSeen

\* pending is what is under way: busy() tells the truth, and _translate refuses
\* a request only while both threads of the executor are taken.
THEOREM TheTableIsTrue == Spec => []WorkIsSeen
<1>1. Inv => WorkIsSeen BY FewJobs DEF Inv
<1> QED BY <1>1, Invariance, PTL

\* The table of turns, the threads and those who wait agree.
THEOREM TurnsStayTracked == Spec => []TurnsAreTracked
<1>1. WorkIsSeen /\ NoWaitInVain => TurnsAreTracked BY DEF TurnsAreTracked
<1> QED BY <1>1, TheTableIsTrue, EveryWaitEnds, PTL

LEMMA NewerStep == Inv /\ [Next]_vars
                   => \A k \in Keys : saved'[k] # 0 => saved'[k] >= saved[k]
<1> SUFFICES ASSUME Inv, [Next]_vars, NEW k \in Keys, saved'[k] # 0
             PROVE  saved'[k] >= saved[k]
  OBVIOUS
<1>1. /\ saved[k] \in Nat /\ generation[k] \in Nat /\ saved[k] <= generation[k]
      /\ TypeOK /\ Turns
  BY DEF Inv, TypeOK, Turns
<1>2. CASE UNCHANGED caches BY <1>1, <1>2 DEF caches
<1>3. ASSUME NEW j \in jobs, Save(j) PROVE saved'[k] >= saved[k]
  <2>1. saved'[k] = saved[k] \/ saved'[k] = generation[k]
    BY <1>1, <1>3, SavedIsLatest
  <2> QED BY <1>1, <2>1
<1>4. CASE ClearCache BY <1>1, <1>4 DEF ClearCache
<1>5. ASSUME NEW r \in Requests, Begin(r) PROVE saved'[k] >= saved[k]
  BY <1>2, <1>5 DEF Begin
<1>6. ASSUME NEW j \in jobs, Generate(j) \/ Finish(j) PROVE saved'[k] >= saved[k]
  BY <1>2, <1>6 DEF Generate, Finish
<1>7. CASE UNCHANGED vars BY <1>2, <1>7 DEF vars
<1> QED BY <1>3, <1>4, <1>5, <1>6, <1>7, <1>2, Quiet DEF Next

\* Answers that come out of order never put an older translation of a text in
\* the place of a newer one.
THEOREM LatestIsKept == Spec => NeverOlder
<1>1. Inv /\ [Next]_vars
      => [\A k \in Keys : saved'[k] # 0 => saved'[k] >= saved[k]]_vars
  BY NewerStep
<1> QED BY <1>1, Invariance, PTL DEF Spec, NeverOlder

=============================================================================
