--------------------------- MODULE TaskSyncProofs ---------------------------
(***************************************************************************)
(* Proofs about TaskSync, for any number of tasks, server starts, faults   *)
(* and events that a subscription holds.                                   *)
(***************************************************************************)
EXTENDS TaskSync, FiniteSetTheorems, TLAPS

-----------------------------------------------------------------------------
(* Types. *)

Imports == {"none", "pending", "imported"}
Attempts == Nat \ {0}
Snap == [inst : Instances, rev : Revisions, attempt : Attempts, status : Statuses]
Entry == [inst : Instances, rev : Revisions, attempt : Attempts, status : Statuses,
          bound : BOOLEAN, import : Imports]
Record == [rev : Revisions, attempt : Attempts, status : Statuses]

Partial(some) == UNION {[T -> some] : T \in SUBSET Tasks}

Client == [known : Instances \cup {None}, watermark : Revisions \cup {-1},
           deleted : Partial(Revisions), retired : SUBSET Instances,
           mirror : Partial(Entry), outdated : SUBSET Requests,
           touched : SUBSET (Requests \X Tasks)]

Event == [type : {"open"}]
    \cup [type : {"task"}, task : Tasks, snap : Snap]
    \cup [type : {"deleted"}, task : Tasks, inst : Instances, rev : Revisions]
    \cup [type : {"resync"}, inst : Instances]

ListState == {Idle}
    \cup [state : {"asked"}, tracked : SUBSET Tasks]
    \cup [state : {"answered"}, inst : Instances, rev : Revisions, snaps : Partial(Snap),
          visible : SUBSET Tasks, missing : SUBSET Tasks]

OpState == {Idle}
    \cup [state : {"asked"}, kind : {"submit"}]
    \cup [state : {"asked"}, kind : {"retry", "delete"}, task : Tasks, of : Statuses]
    \cup [state : {"asked", "answered"}, kind : {"clear"}, victims : SUBSET Tasks]
    \cup [state : {"answered"}, kind : {"submit", "retry"}, task : Tasks, snap : Snap]
    \cup [state : {"answered"}, kind : {"delete"}, task : Tasks, inst : Instances,
          rev : Revisions]

(* A failed task awaits no import. *)
Normal(m) == \A t \in DOMAIN m : m[t].status = "failed" => m[t].import # "pending"

ServerTyped ==
    /\ instance \in Instances /\ revision \in Revisions /\ created \in 0..MaxTasks
    /\ tasks = [t \in DOMAIN tasks |-> tasks[t]] /\ DOMAIN tasks \subseteq 1..created
    /\ \A t \in DOMAIN tasks : tasks[t] \in Record /\ tasks[t].rev \in 1..revision
    /\ Cardinality(DOMAIN tasks) <= revision
    /\ connected \in BOOLEAN /\ stream \in Seq(Event)

PluginTyped ==
    /\ list \in ListState /\ op \in OpState
    /\ again \in BOOLEAN /\ settled \in BOOLEAN
    /\ page \subseteq Tasks /\ buried \subseteq Tasks /\ submission \in Tasks \cup {None}
    /\ faults \in 0..MaxFaults

-----------------------------------------------------------------------------
(* Small facts. *)

LEMMA Constants ==
    /\ MaxTasks \in Nat \ {0} /\ MaxInstances \in Nat \ {0} /\ MaxRevision \in Nat
    /\ MaxFaults \in Nat /\ None = 0 /\ Requests = {"list", "op"}
    /\ Tasks \subseteq Nat \ {0} /\ Instances \subseteq Nat \ {0} /\ Revisions \subseteq Nat
BY BoundsAssumption DEF None, Requests, Tasks, Instances, Revisions

LEMMA PartialFunctions ==
    ASSUME NEW S
    PROVE  /\ \A f \in Partial(S) : /\ f = [t \in DOMAIN f |-> f[t]] /\ DOMAIN f \subseteq Tasks
                                    /\ \A t \in DOMAIN f : f[t] \in S
           /\ \A T \in SUBSET Tasks : [T -> S] \subseteq Partial(S)
BY DEF Partial

LEMMA WithPartial ==
    ASSUME NEW S, NEW f \in Partial(S), NEW x \in Tasks, NEW y \in S
    PROVE  With(f, x, y) \in Partial(S)
<1>1. DOMAIN f \cup {x} \in SUBSET Tasks /\ \A z \in DOMAIN f : f[z] \in S
  BY PartialFunctions
<1>2. With(f, x, y) \in [DOMAIN f \cup {x} -> S]
  BY <1>1 DEF With
<1> QED  BY <1>1, <1>2, PartialFunctions

LEMMA RestrictPartial ==
    ASSUME NEW S, NEW f \in Partial(S), NEW T \in SUBSET DOMAIN f
    PROVE  Restrict(f, T) \in Partial(S)
<1>1. T \in SUBSET Tasks /\ \A z \in T : f[z] \in S
  BY PartialFunctions
<1>2. Restrict(f, T) \in [T -> S]
  BY <1>1 DEF Restrict
<1> QED  BY <1>1, <1>2, PartialFunctions

LEMMA NoMap == ASSUME NEW S PROVE <<>> \in Partial(S) /\ DOMAIN <<>> = {}
<1>1. <<>> \in [{} -> S]
  OBVIOUS
<1> QED  BY <1>1, PartialFunctions

LEMMA ClientFields ==
    ASSUME NEW c \in Client
    PROVE  /\ c.known \in Instances \cup {None} /\ c.watermark \in Revisions \cup {-1}
           /\ c.deleted \in Partial(Revisions) /\ c.retired \subseteq Instances
           /\ c.mirror \in Partial(Entry) /\ c.outdated \subseteq Requests
           /\ c.touched \subseteq Requests \X Tasks
           /\ c = [known |-> c.known, watermark |-> c.watermark, deleted |-> c.deleted,
                   retired |-> c.retired, mirror |-> c.mirror, outdated |-> c.outdated,
                   touched |-> c.touched]
BY DEF Client

-----------------------------------------------------------------------------
(* How the knowledge of the plugin moves on. *)

(* What it retired is older than what it listens to, and once it listens   *)
(* again nothing it keeps is newer.                                        *)
Current(c) ==
    /\ \A i \in c.retired : i < c.known
    /\ c.known # None => \A t \in DOMAIN c.mirror : c.mirror[t].inst <= c.known

(* It knows of no instance after j. *)
UpTo(c, j) == c.known <= j /\ \A t \in DOMAIN c.mirror : c.mirror[t].inst <= j

(* It would not take up a task t again for a snapshot of revision r of     *)
(* instance i.                                                             *)
Buries(c, t, i, r) ==
    \/ i < c.known
    \/ i = c.known /\ (r <= c.watermark \/ (t \in DOMAIN c.deleted /\ r <= c.deleted[t]))

Onward(c, d) ==
    \A t \in DOMAIN c.mirror \cap DOMAIN d.mirror :
        /\ \/ d.mirror[t].inst > c.mirror[t].inst
           \/ d.mirror[t].inst = c.mirror[t].inst /\ d.mirror[t].rev >= c.mirror[t].rev
        /\ c.mirror[t].bound => d.mirror[t].bound

Proper(c) == c \in Client /\ Normal(c.mirror) /\ Current(c)

(* From c to d, when it heard of instance j at most, the requests in Q     *)
(* going on.                                                               *)
Evolved(c, d, j, Q) ==
    /\ Proper(d)
    /\ d.known \in {c.known, j} /\ c.known <= d.known
    /\ \A q \in Q : q \notin d.outdated => q \notin c.outdated /\ d.known = c.known
    /\ \A q \in Q, t \in Tasks : <<q, t>> \in c.touched => <<q, t>> \in d.touched
    /\ \A k \in Instances : UpTo(c, k) /\ d.known <= k => UpTo(d, k)
    /\ \A t \in Tasks, i \in Instances, r \in Revisions :
           Buries(c, t, i, r) => Buries(d, t, i, r)
    /\ Onward(c, d)

LEMMA EntryFields ==
    ASSUME NEW c \in Client
    PROVE  /\ c.known \in Nat /\ c.watermark \in Int
           /\ \A i \in c.retired : i \in Nat
           /\ DOMAIN c.mirror \subseteq Tasks /\ DOMAIN c.deleted \subseteq Tasks
           /\ \A t \in DOMAIN c.mirror :
                  /\ c.mirror[t] \in Entry
                  /\ c.mirror[t].inst \in Nat \ {0} /\ c.mirror[t].rev \in Nat
                  /\ c.mirror[t].inst \in Instances
           /\ \A t \in DOMAIN c.deleted : c.deleted[t] \in Revisions /\ c.deleted[t] \in Nat
<1>1. \A t \in DOMAIN c.mirror : c.mirror[t] \in Entry
  BY ClientFields, PartialFunctions
<1>2. \A t \in DOMAIN c.deleted : c.deleted[t] \in Revisions
  BY ClientFields, PartialFunctions
<1>3. DOMAIN c.mirror \subseteq Tasks /\ DOMAIN c.deleted \subseteq Tasks
  BY ClientFields, PartialFunctions
<1>4. \A e \in Entry : e.inst \in Instances /\ e.rev \in Revisions
  BY DEF Entry
<1> QED  BY <1>1, <1>2, <1>3, <1>4, ClientFields, Constants

LEMMA EvolvedTwice ==
    ASSUME NEW c, NEW d, NEW e, NEW j \in Nat, NEW Q, Proper(c),
           Evolved(c, d, j, Q), Evolved(d, e, j, Q),
           DOMAIN c.mirror \cap DOMAIN e.mirror \subseteq DOMAIN d.mirror
    PROVE  Evolved(c, e, j, Q)
<1>1. c \in Client /\ d \in Client /\ e \in Client
  BY DEF Evolved, Proper
<1>2. Onward(c, e)
  <2> SUFFICES ASSUME NEW t \in DOMAIN c.mirror \cap DOMAIN e.mirror
               PROVE  /\ \/ e.mirror[t].inst > c.mirror[t].inst
                         \/ /\ e.mirror[t].inst = c.mirror[t].inst
                            /\ e.mirror[t].rev >= c.mirror[t].rev
                      /\ c.mirror[t].bound => e.mirror[t].bound
    BY DEF Onward
  <2>1. t \in DOMAIN d.mirror
    OBVIOUS
  <2> QED  BY <1>1, <2>1, EntryFields DEF Evolved, Onward
<1>3. c.known \in Nat /\ d.known \in Nat /\ e.known \in Nat
  BY <1>1, EntryFields
<1>4. \A k \in Instances : UpTo(c, k) /\ e.known <= k => UpTo(e, k)
  <2> SUFFICES ASSUME NEW k \in Instances, UpTo(c, k), e.known <= k
               PROVE  UpTo(e, k)
    OBVIOUS
  <2>1. k \in Nat /\ d.known <= e.known
    BY Constants DEF Evolved
  <2>2. d.known <= k
    BY <1>3, <2>1
  <2> QED  BY <2>2 DEF Evolved
<1>5. c.known <= e.known /\ e.known \in {c.known, j}
  <2>1. /\ d.known \in {c.known, j} /\ c.known <= d.known
        /\ e.known \in {d.known, j} /\ d.known <= e.known
    BY DEF Evolved
  <2> QED  BY <1>3, <2>1
<1>6. \A q \in Q : q \notin e.outdated => q \notin c.outdated /\ e.known = c.known
  BY DEF Evolved
<1>7. \A q \in Q, t \in Tasks : <<q, t>> \in c.touched => <<q, t>> \in e.touched
  BY DEF Evolved
<1>8. \A t \in Tasks, i \in Instances, r \in Revisions :
           Buries(c, t, i, r) => Buries(e, t, i, r)
  BY DEF Evolved
<1> QED  BY <1>2, <1>4, <1>5, <1>6, <1>7, <1>8 DEF Evolved

(* Only what is outdated or touched changes. *)
LEMMA Marking ==
    ASSUME NEW c, Proper(c), NEW d \in Client, NEW j, NEW Q,
           d.known = c.known, d.watermark = c.watermark, d.deleted = c.deleted,
           d.retired = c.retired, d.mirror = c.mirror,
           \A q \in Q : q \in c.outdated => q \in d.outdated,
           \A q \in Q, t \in Tasks : <<q, t>> \in c.touched => <<q, t>> \in d.touched
    PROVE  Evolved(c, d, j, Q)
<1>1. c \in Client
  BY DEF Proper
<1>2. Proper(d)
  BY DEF Proper, Current, Normal
<1>3. Onward(c, d) /\ c.known <= d.known
  BY <1>1, EntryFields DEF Onward
<1> QED  BY <1>2, <1>3 DEF Evolved, UpTo, Buries

LEMMA OverEvolves ==
    ASSUME NEW c, Proper(c), NEW j, NEW q \in Requests
    PROVE  /\ Evolved(c, Over(c, q), j, Requests)
           /\ Over(c, q).mirror = c.mirror /\ Over(c, q).known = c.known
           /\ Over(c, q).retired = c.retired
<1> DEFINE d == Over(c, q)
<1>1. c \in Client
  BY DEF Proper
<1>2. /\ d.known = c.known /\ d.watermark = c.watermark /\ d.deleted = c.deleted
      /\ d.retired = c.retired /\ d.mirror = c.mirror
      /\ d.outdated = c.outdated \cup {q}
      /\ d.touched = c.touched \cup {q} \X Tasks
      /\ d \in Client
  BY <1>1 DEF Over, Client
<1> HIDE DEF d
<1> QED  BY <1>2, Marking DEF d

LEMMA AskingEvolves ==
    ASSUME NEW c, Proper(c), NEW j, NEW q \in Requests
    PROVE  /\ Evolved(c, Asking(c, q), j, Requests \ {q})
           /\ Asking(c, q).mirror = c.mirror /\ Asking(c, q).known = c.known
           /\ Asking(c, q).retired = c.retired
<1> DEFINE d == Asking(c, q)
<1>1. c \in Client
  BY DEF Proper
<1>2. /\ d.known = c.known /\ d.watermark = c.watermark /\ d.deleted = c.deleted
      /\ d.retired = c.retired /\ d.mirror = c.mirror
      /\ d.outdated = c.outdated \ {q}
      /\ d.touched = c.touched \ ({q} \X Tasks)
      /\ d \in Client
  BY <1>1 DEF Asking, Client
<1> HIDE DEF d
<1>3. \A p \in Requests \ {q} : p \in c.outdated => p \in d.outdated
  BY <1>2
<1>4. \A p \in Requests \ {q}, t \in Tasks : <<p, t>> \in c.touched => <<p, t>> \in d.touched
  BY <1>2
<1> QED  BY <1>2, <1>3, <1>4, Marking DEF d

LEMMA GenerationEvolves ==
    ASSUME NEW c, Proper(c), NEW j
    PROVE  /\ Evolved(c, NextGeneration(c), j, Requests)
           /\ NextGeneration(c).mirror = c.mirror /\ NextGeneration(c).known = c.known
           /\ NextGeneration(c).retired = c.retired
<1> DEFINE d == NextGeneration(c)
<1>1. c \in Client
  BY DEF Proper
<1>2. /\ d.known = c.known /\ d.watermark = c.watermark /\ d.deleted = c.deleted
      /\ d.retired = c.retired /\ d.mirror = c.mirror
      /\ d.outdated = Requests /\ d.touched = c.touched
      /\ d \in Client
  BY <1>1 DEF NextGeneration, Client
<1> HIDE DEF d
<1> QED  BY <1>2, Marking DEF d

LEMMA AcceptedEvolves ==
    ASSUME NEW c, Proper(c), NEW j \in Instances, UpTo(c, j)
    PROVE  /\ Evolved(c, Accepted(c, j), j, Requests)
           /\ Accepted(c, j).mirror = c.mirror /\ Accepted(c, j).known = j
           /\ Accepted(c, j).touched = c.touched
           /\ j \notin c.retired /\ j \notin Accepted(c, j).retired
<1>1. c \in Client /\ Current(c) /\ Normal(c.mirror)
  BY DEF Proper
<1>2. j \in Nat \ {0} /\ c.known \in Nat /\ \A i \in c.retired : i \in Nat /\ i < c.known
  BY <1>1, EntryFields, Constants DEF Current
<1>3. c.known <= j /\ j \notin c.retired
  BY <1>2 DEF UpTo
<1>4. CASE c.known = j
  <2>1. Accepted(c, j) = c
    BY <1>4 DEF Accepted
  <2> QED  BY <2>1, <1>1, <1>3, <1>4, Marking
<1>5. CASE c.known # j
  <2> DEFINE d == Accepted(c, j)
  <2>1. /\ d.known = j /\ d.watermark = -1 /\ d.deleted = <<>>
        /\ d.retired = c.retired \cup ({c.known} \ {None})
        /\ d.mirror = c.mirror /\ d.outdated = Requests /\ d.touched = c.touched
        /\ d \in Client
    BY <1>1, <1>5, NoMap DEF Accepted, NextGeneration, Client
  <2> HIDE DEF d
  <2>2. c.known < j /\ \A i \in d.retired : i < j
    BY <2>1, <1>2, <1>3, <1>5
  <2>3. Proper(d)
    BY <2>1, <2>2, <1>1 DEF Proper, Current, UpTo
  <2>4. Onward(c, d)
    BY <1>1, <2>1, EntryFields DEF Onward
  <2>5. \A t \in Tasks, i \in Instances, r \in Revisions :
           Buries(c, t, i, r) => Buries(d, t, i, r)
    BY <1>2, <2>1, <2>2, Constants DEF Buries
  <2>6. \A k \in Instances : UpTo(c, k) /\ d.known <= k => UpTo(d, k)
    BY <2>1 DEF UpTo
  <2>7. Evolved(c, d, j, Requests)
    BY <1>3, <2>1, <2>3, <2>4, <2>5, <2>6 DEF Evolved
  <2> QED  BY <1>2, <1>3, <2>1, <2>2, <2>7 DEF d
<1> QED  BY <1>4, <1>5

LEMMA PutEvolves ==
    ASSUME NEW c, Proper(c), NEW j, NEW t \in Tasks, NEW e \in Entry,
           e.status = "failed" => e.import # "pending",
           \A k \in Instances : UpTo(c, k) => e.inst <= k,
           t \in DOMAIN c.mirror =>
               /\ \/ e.inst > c.mirror[t].inst
                  \/ e.inst = c.mirror[t].inst /\ e.rev >= c.mirror[t].rev
               /\ c.mirror[t].bound => e.bound
    PROVE  /\ Evolved(c, Put(c, t, e), j, Requests)
           /\ DOMAIN Put(c, t, e).mirror = DOMAIN c.mirror \cup {t}
           /\ Put(c, t, e).known = c.known
<1> DEFINE d == Put(c, t, e)
<1>1. c \in Client /\ Current(c) /\ Normal(c.mirror)
  BY DEF Proper
<1>2. With(c.mirror, t, e) \in Partial(Entry) /\ Requests \X {t} \subseteq Requests \X Tasks
  BY <1>1, ClientFields, WithPartial
<1>3. /\ d.known = c.known /\ d.watermark = c.watermark /\ d.deleted = c.deleted
      /\ d.retired = c.retired /\ d.mirror = With(c.mirror, t, e)
      /\ d.outdated = c.outdated /\ d.touched = c.touched \cup Requests \X {t}
      /\ d \in Client
  BY <1>1, <1>2 DEF Put, Client
<1> HIDE DEF d
<1>4. /\ DOMAIN d.mirror = DOMAIN c.mirror \cup {t}
      /\ \A u \in DOMAIN d.mirror : d.mirror[u] = IF u = t THEN e ELSE c.mirror[u]
  BY <1>3 DEF With
<1>5. Normal(d.mirror)
  BY <1>1, <1>4 DEF Normal
<1>6. Onward(c, d)
  BY <1>1, <1>4, EntryFields DEF Onward
<1>7. \A k \in Instances : UpTo(c, k) /\ d.known <= k => UpTo(d, k)
  BY <1>3, <1>4 DEF UpTo
<1>8. Current(d)
  <2>1. d.known # None => UpTo(c, c.known) /\ c.known \in Instances
    BY <1>1, <1>3, EntryFields, ClientFields DEF Current, UpTo
  <2>2. d.known # None => e.inst <= c.known
    BY <2>1
  <2> QED  BY <1>1, <1>3, <1>4, <2>2 DEF Current
<1>9. c.known <= d.known
  BY <1>1, <1>3, EntryFields
<1> QED  BY <1>3, <1>4, <1>5, <1>6, <1>7, <1>8, <1>9 DEF Evolved, Proper, Buries, d

(* Tasks are forgotten. *)
LEMMA Forgetting ==
    ASSUME NEW c, Proper(c), NEW d \in Client, NEW j, NEW T \in SUBSET DOMAIN c.mirror,
           d.known = c.known, d.retired = c.retired, d.mirror = Restrict(c.mirror, T),
           d.outdated = c.outdated, c.touched \subseteq d.touched,
           \A t \in Tasks, i \in Instances, r \in Revisions :
               Buries(c, t, i, r) => Buries(d, t, i, r)
    PROVE  Evolved(c, d, j, Requests)
<1>1. c \in Client /\ Current(c) /\ Normal(c.mirror)
  BY DEF Proper
<1>2. DOMAIN d.mirror = T /\ \A u \in T : d.mirror[u] = c.mirror[u]
  BY DEF Restrict
<1>3. Proper(d)
  BY <1>1, <1>2 DEF Proper, Current, Normal
<1>4. Onward(c, d) /\ c.known <= d.known
  BY <1>1, <1>2, EntryFields DEF Onward
<1>5. \A k \in Instances : UpTo(c, k) /\ d.known <= k => UpTo(d, k)
  BY <1>2 DEF UpTo
<1> QED  BY <1>3, <1>4, <1>5 DEF Evolved

LEMMA MergedFacts ==
    ASSUME NEW c, Proper(c), NEW t \in Tasks, NEW s \in Snap, NEW bind \in BOOLEAN
    PROVE  LET e == Merged(c, t, s, bind)
           IN /\ e \in Entry /\ e.inst = s.inst /\ e.rev = s.rev
              /\ e.status = "failed" => e.import # "pending"
              /\ t \in DOMAIN c.mirror /\ c.mirror[t].bound => e.bound
<1>1. t \in DOMAIN c.mirror => c.mirror[t] \in Entry
  BY EntryFields DEF Proper
<1> DEFINE old == IF t \in DOMAIN c.mirror THEN c.mirror[t]
                  ELSE [inst |-> s.inst, rev |-> 0, attempt |-> s.attempt,
                        status |-> s.status, bound |-> FALSE, import |-> "none"]
           entry == [old EXCEPT !.inst = s.inst, !.rev = s.rev,
                                !.attempt = s.attempt, !.status = s.status]
           mine == IF bind THEN [entry EXCEPT !.bound = TRUE,
                                    !.import = IF @ = "none" THEN "pending" ELSE @]
                   ELSE entry
           last == IF s.attempt > old.attempt
                   THEN [mine EXCEPT !.import = IF mine.bound THEN "pending" ELSE "none"]
                   ELSE mine
<1>2. old \in Entry /\ (t \in DOMAIN c.mirror => old = c.mirror[t])
  BY <1>1, BoundsAssumption DEF Entry, Snap, Imports, Revisions
<1> HIDE DEF old
<1>3. entry \in Entry /\ entry.inst = s.inst /\ entry.rev = s.rev /\ entry.bound = old.bound
  BY <1>2 DEF Entry, Snap
<1> HIDE DEF entry
<1>4. /\ mine \in Entry /\ mine.inst = s.inst /\ mine.rev = s.rev
      /\ entry.bound => mine.bound
  BY <1>3 DEF Entry, Imports
<1> HIDE DEF mine
<1>5. /\ last \in Entry /\ last.inst = s.inst /\ last.rev = s.rev
      /\ last.bound = mine.bound
  BY <1>4 DEF Entry, Imports
<1>6. Merged(c, t, s, bind) = Normalized(last)
  BY DEF Merged, old, entry, mine
<1> HIDE DEF last
<1>7. /\ Normalized(last) \in Entry /\ Normalized(last).inst = s.inst
      /\ Normalized(last).rev = s.rev /\ Normalized(last).bound = last.bound
      /\ Normalized(last).status = "failed" => Normalized(last).import # "pending"
  BY <1>5 DEF Normalized, Entry, Imports
<1> QED  BY <1>2, <1>3, <1>4, <1>5, <1>6, <1>7

LEMMA BindFacts ==
    ASSUME NEW e \in Entry
    PROVE  /\ Bind(e) \in Entry /\ Bind(e).inst = e.inst /\ Bind(e).rev = e.rev
           /\ Bind(e).bound
           /\ Bind(e).status = "failed" => Bind(e).import # "pending"
<1> DEFINE b == [e EXCEPT !.bound = TRUE, !.import = IF @ = "none" THEN "pending" ELSE @]
<1>1. b \in Entry /\ b.inst = e.inst /\ b.rev = e.rev /\ b.bound
  BY DEF Entry, Imports
<1>2. Bind(e) = Normalized(b)
  BY DEF Bind
<1> HIDE DEF b
<1> QED  BY <1>1, <1>2 DEF Normalized, Entry, Imports

LEMMA PutBound ==
    ASSUME NEW c, Proper(c), NEW j, NEW t \in DOMAIN c.mirror
    PROVE  /\ Evolved(c, Put(c, t, Bind(c.mirror[t])), j, Requests)
           /\ DOMAIN Put(c, t, Bind(c.mirror[t])).mirror = DOMAIN c.mirror
           /\ Put(c, t, Bind(c.mirror[t])).known = c.known
<1>1. c \in Client
  BY DEF Proper
<1>2. t \in Tasks /\ c.mirror[t] \in Entry /\ c.mirror[t].inst \in Nat /\ c.mirror[t].rev \in Nat
  BY <1>1, EntryFields
<1>3. \A k \in Instances : UpTo(c, k) => Bind(c.mirror[t]).inst <= k
  BY <1>2, BindFacts DEF UpTo
<1> DEFINE b == Bind(c.mirror[t])
<1>4. /\ b \in Entry /\ b.inst = c.mirror[t].inst /\ b.rev = c.mirror[t].rev /\ b.bound
      /\ b.status = "failed" => b.import # "pending"
  BY <1>2, BindFacts
<1> HIDE DEF b
<1>5. b.rev >= c.mirror[t].rev
  BY <1>2, <1>4
<1>6. /\ Evolved(c, Put(c, t, b), j, Requests)
      /\ DOMAIN Put(c, t, b).mirror = DOMAIN c.mirror \cup {t}
      /\ Put(c, t, b).known = c.known
  BY <1>2, <1>3, <1>4, <1>5, PutEvolves DEF b
<1> QED  BY <1>6 DEF b

(* A task that the plugin does not know appears only when the snapshot is  *)
(* news.                                                                   *)
LEMMA UpsertedEvolves ==
    ASSUME NEW c, Proper(c), NEW t \in Tasks, NEW s \in Snap, UpTo(c, s.inst),
           NEW bind \in BOOLEAN
    PROVE  LET d == Upserted(c, t, s, FALSE, bind)
           IN /\ Evolved(c, d, s.inst, Requests)
              /\ DOMAIN c.mirror \subseteq DOMAIN d.mirror
              /\ DOMAIN d.mirror \subseteq DOMAIN c.mirror \cup {t}
              /\ t \in DOMAIN d.mirror /\ t \notin DOMAIN c.mirror =>
                     ~Buries(c, t, s.inst, s.rev)
<1> DEFINE a == Accepted(c, s.inst)
           d == Upserted(c, t, s, FALSE, bind)
<1>1. s.inst \in Instances /\ s.inst \in Nat /\ s.rev \in Nat /\ c \in Client
  BY Constants DEF Snap, Proper
<1>2. /\ Evolved(c, a, s.inst, Requests) /\ a.mirror = c.mirror /\ a.known = s.inst
      /\ s.inst \notin c.retired
  BY <1>1, AcceptedEvolves
<1>3. Proper(a) /\ a \in Client
  BY <1>2 DEF Evolved, Proper
<1>4. d = IF Burying(a, t, s) THEN a
          ELSE IF ~Stale(a, t, s, FALSE) THEN Put(a, t, Merged(a, t, s, bind))
          ELSE IF bind /\ t \in DOMAIN a.mirror /\ ~a.mirror[t].bound
          THEN Put(a, t, Bind(a.mirror[t])) ELSE a
  BY <1>2 DEF Upserted
<1> HIDE DEF a, d
<1>5. CASE d = a
  BY <1>2, <1>5 DEF d
<1>6. CASE t \in DOMAIN a.mirror /\ d = Put(a, t, Bind(a.mirror[t]))
  <2>1. Evolved(a, d, s.inst, Requests) /\ DOMAIN d.mirror = DOMAIN a.mirror
    BY <1>3, <1>6, PutBound
  <2>2. Evolved(c, d, s.inst, Requests)
    BY <1>1, <1>2, <2>1, EvolvedTwice
  <2> QED  BY <1>2, <2>1, <2>2 DEF d
<1>7. CASE /\ ~Burying(a, t, s) /\ ~Stale(a, t, s, FALSE)
           /\ d = Put(a, t, Merged(a, t, s, bind))
  <2> DEFINE e == Merged(a, t, s, bind)
  <2>1. /\ e \in Entry /\ e.inst = s.inst /\ e.rev = s.rev
        /\ e.status = "failed" => e.import # "pending"
        /\ t \in DOMAIN a.mirror /\ a.mirror[t].bound => e.bound
    BY <1>3, MergedFacts
  <2> HIDE DEF e
  <2>2. \A k \in Instances : UpTo(a, k) => e.inst <= k
    BY <1>2, <2>1 DEF UpTo
  <2>3. t \in DOMAIN a.mirror => \/ e.inst > a.mirror[t].inst
                                 \/ e.inst = a.mirror[t].inst /\ e.rev >= a.mirror[t].rev
    <3> SUFFICES ASSUME t \in DOMAIN a.mirror
                 PROVE  \/ e.inst > a.mirror[t].inst
                        \/ e.inst = a.mirror[t].inst /\ e.rev >= a.mirror[t].rev
      OBVIOUS
    <3>1. a.mirror[t].inst \in Nat /\ a.mirror[t].rev \in Nat /\ a.mirror[t].inst <= s.inst
      BY <1>2, <1>3, EntryFields DEF UpTo
    <3>2. a.mirror[t].inst = s.inst => ~(s.rev <= a.mirror[t].rev)
      BY <1>7 DEF Stale
    <3> QED  BY <1>1, <2>1, <3>1, <3>2
  <2>4. Evolved(a, d, s.inst, Requests) /\ DOMAIN d.mirror = DOMAIN a.mirror \cup {t}
    BY <1>3, <1>7, <2>1, <2>2, <2>3, PutEvolves DEF e
  <2>5. Evolved(c, d, s.inst, Requests)
    BY <1>1, <1>2, <2>4, EvolvedTwice
  <2>6. ~Buries(a, t, s.inst, s.rev)
    BY <1>1, <1>2, <1>7 DEF Stale, Burying, Buries
  <2>7. ~Buries(c, t, s.inst, s.rev)
    BY <1>1, <1>2, <2>6 DEF Evolved, Snap
  <2> QED  BY <1>2, <2>4, <2>5, <2>7 DEF d
<1> QED  BY <1>4, <1>5, <1>6, <1>7

LEMMA ForgottenEvolves ==
    ASSUME NEW c, Proper(c), NEW t \in Tasks, NEW i \in Instances, NEW r \in Revisions,
           UpTo(c, i)
    PROVE  LET d == Forgotten(c, t, i, r)
           IN /\ Evolved(c, d, i, Requests)
              /\ DOMAIN d.mirror \subseteq DOMAIN c.mirror
              /\ DOMAIN c.mirror \ DOMAIN d.mirror \subseteq {t}
              /\ DeletionIsNews(c, t, i, r) =>
                     /\ t \notin DOMAIN d.mirror /\ <<"list", t>> \in d.touched
                     /\ \A k \in Instances, q \in Revisions :
                            k < i \/ (k = i /\ q <= r) => Buries(d, t, k, q)
<1> DEFINE a == Accepted(c, i)
           d == Forgotten(c, t, i, r)
<1>1. c \in Client /\ i \in Nat /\ r \in Nat
  BY Constants DEF Proper
<1>2. /\ Evolved(c, a, i, Requests) /\ a.mirror = c.mirror /\ a.known = i
      /\ i \notin c.retired
  BY AcceptedEvolves
<1>3. Proper(a) /\ a \in Client
  BY <1>2 DEF Evolved, Proper
<1>4. d = IF DeletionIsNews(c, t, i, r)
          THEN Drop([a EXCEPT !.deleted = With(@, t, r)], t) ELSE a
  BY <1>2 DEF Forgotten
<1>5. DeletionIsNews(c, t, i, r) =>
          r > a.watermark /\ (t \in DOMAIN a.deleted => r > a.deleted[t])
  BY DEF DeletionIsNews
<1> HIDE DEF a, d
<1>6. CASE d = a /\ ~DeletionIsNews(c, t, i, r)
  BY <1>2, <1>6 DEF d
<1>7. CASE DeletionIsNews(c, t, i, r)
  <2> DEFINE T == DOMAIN a.mirror \ {t}
  <2>1. With(a.deleted, t, r) \in Partial(Revisions) /\ Restrict(a.mirror, T) \in Partial(Entry)
    BY <1>3, ClientFields, WithPartial, RestrictPartial
  <2>2. /\ d.known = a.known /\ d.retired = a.retired /\ d.mirror = Restrict(a.mirror, T)
        /\ d.outdated = a.outdated /\ d.touched = a.touched \cup Requests \X {t}
        /\ d.watermark = a.watermark /\ d.deleted = With(a.deleted, t, r)
        /\ d \in Client
    BY <1>3, <1>4, <1>7, <2>1 DEF Drop, Client
  <2>3. DOMAIN d.mirror = T /\ <<"list", t>> \in d.touched
    BY <2>2, Constants DEF Restrict
  <2>4. /\ DOMAIN d.deleted = DOMAIN a.deleted \cup {t}
        /\ \A u \in DOMAIN d.deleted : d.deleted[u] = IF u = t THEN r ELSE a.deleted[u]
    BY <2>2 DEF With
  <2>5. \A u \in Tasks, k \in Instances, q \in Revisions :
            Buries(a, u, k, q) => Buries(d, u, k, q)
    BY <1>1, <1>3, <1>5, <1>7, <2>2, <2>4, EntryFields, Constants DEF Buries
  <2>6. Evolved(a, d, i, Requests)
    BY <1>3, <2>2, <2>5, Forgetting
  <2>7. Evolved(c, d, i, Requests)
    BY <1>1, <1>2, <2>3, <2>6, EvolvedTwice
  <2>8. \A k \in Instances, q \in Revisions :
            k < i \/ (k = i /\ q <= r) => Buries(d, t, k, q)
    BY <1>2, <2>2, <2>4 DEF Buries
  <2> QED  BY <1>2, <2>3, <2>7, <2>8 DEF d
<1> QED  BY <1>4, <1>6, <1>7

(* Snapshots of the instance that the plugin listens to. *)
LEMMA SnapshotsEvolve ==
    ASSUME NEW c, Proper(c), NEW snaps \in Partial(Snap), c.known \in Instances,
           \A t \in DOMAIN snaps : snaps[t].inst = c.known
    PROVE  LET d == WithSnapshots(c, snaps)
           IN /\ Evolved(c, d, c.known, Requests) /\ d.known = c.known
              /\ d.watermark = c.watermark /\ d.deleted = c.deleted
              /\ DOMAIN c.mirror \subseteq DOMAIN d.mirror
              /\ \A t \in DOMAIN d.mirror \ DOMAIN c.mirror :
                     t \in DOMAIN snaps /\ <<"list", t>> \notin c.touched
<1> DEFINE taken == {t \in DOMAIN snaps :
                        /\ t \in DOMAIN c.mirror \/ <<"list", t>> \notin c.touched
                        /\ ~Burying(c, t, snaps[t]) /\ ~Stale(c, t, snaps[t], TRUE)}
           m == [t \in DOMAIN c.mirror \cup taken |->
                    IF t \in taken THEN Merged(c, t, snaps[t], FALSE) ELSE c.mirror[t]]
           d == WithSnapshots(c, snaps)
<1>1. c \in Client /\ Current(c) /\ Normal(c.mirror) /\ c.known \in Nat
  BY Constants DEF Proper
<1>2. taken \subseteq Tasks /\ \A t \in taken : snaps[t] \in Snap
  BY PartialFunctions
<1>3. \A t \in taken : LET e == Merged(c, t, snaps[t], FALSE)
                       IN /\ e \in Entry /\ e.inst = c.known /\ e.rev = snaps[t].rev
                          /\ e.status = "failed" => e.import # "pending"
                          /\ t \in DOMAIN c.mirror /\ c.mirror[t].bound => e.bound
  BY <1>2, MergedFacts
<1>4. /\ DOMAIN m = DOMAIN c.mirror \cup taken
      /\ \A t \in taken : m[t] = Merged(c, t, snaps[t], FALSE)
      /\ \A t \in DOMAIN c.mirror \ taken : m[t] = c.mirror[t]
  OBVIOUS
<1>5. m \in Partial(Entry)
  <2>1. DOMAIN m \in SUBSET Tasks /\ \A t \in DOMAIN m : m[t] \in Entry
    BY <1>1, <1>2, <1>3, <1>4, EntryFields
  <2>2. m \in [DOMAIN m -> Entry]
    BY <2>1
  <2> QED  BY <2>1, <2>2, PartialFunctions
<1>6. \A t \in taken \cap DOMAIN c.mirror :
          \/ m[t].inst > c.mirror[t].inst
          \/ m[t].inst = c.mirror[t].inst /\ m[t].rev >= c.mirror[t].rev
  <2> HIDE DEF m
  <2> SUFFICES ASSUME NEW t \in taken \cap DOMAIN c.mirror
               PROVE  \/ m[t].inst > c.mirror[t].inst
                      \/ m[t].inst = c.mirror[t].inst /\ m[t].rev >= c.mirror[t].rev
    OBVIOUS
  <2>1. /\ c.mirror[t].inst \in Nat /\ c.mirror[t].rev \in Nat
        /\ c.mirror[t].inst <= c.known /\ snaps[t].rev \in Nat
    BY <1>1, <1>2, EntryFields, Constants DEF Current, Snap
  <2>2. c.mirror[t].inst = snaps[t].inst => ~(snaps[t].rev <= c.mirror[t].rev)
    BY DEF Stale
  <2>3. m[t].inst = c.known /\ m[t].rev = snaps[t].rev
    BY <1>3, <1>4
  <2> QED  BY <1>1, <2>1, <2>2, <2>3
<1>7. /\ d.known = c.known /\ d.watermark = c.watermark /\ d.deleted = c.deleted
      /\ d.retired = c.retired /\ d.mirror = m
      /\ d.outdated = c.outdated /\ d.touched = c.touched \cup Requests \X taken
      /\ d \in Client
  <2> HIDE DEF m
  <2>1. d = [c EXCEPT !.mirror = m, !.touched = @ \cup Requests \X taken]
    BY DEF WithSnapshots, m
  <2>2. Requests \X taken \subseteq Requests \X Tasks
    BY <1>2
  <2> HIDE DEF d, taken
  <2> QED  BY <1>1, <1>5, <2>1, <2>2 DEF Client
<1> HIDE DEF m, d, taken
<1>8. Onward(c, d)
  <2> SUFFICES ASSUME NEW t \in DOMAIN c.mirror
               PROVE  /\ \/ m[t].inst > c.mirror[t].inst
                         \/ m[t].inst = c.mirror[t].inst /\ m[t].rev >= c.mirror[t].rev
                      /\ c.mirror[t].bound => m[t].bound
    BY <1>7 DEF Onward
  <2>1. CASE t \in taken
    BY <1>3, <1>4, <1>6, <2>1
  <2>2. CASE t \notin taken
    BY <1>1, <1>4, <2>2, EntryFields
  <2> QED  BY <2>1, <2>2
<1>9. Proper(d)
  <2>1. ASSUME NEW t \in DOMAIN m
        PROVE  /\ m[t].inst <= c.known
               /\ m[t].status = "failed" => m[t].import # "pending"
    <3>1. CASE t \in taken
      <4>1. m[t].inst = c.known /\ (m[t].status = "failed" => m[t].import # "pending")
        BY <1>3, <1>4, <3>1
      <4> QED  BY <1>1, <4>1
    <3>2. CASE t \notin taken
      BY <1>1, <1>4, <3>2, Constants DEF Current, Normal
    <3> QED  BY <3>1, <3>2
  <2>2. Normal(m)
    BY <2>1 DEF Normal
  <2>3. Current(d)
    BY <1>1, <1>7, <2>1 DEF Current
  <2> QED  BY <1>7, <2>2, <2>3 DEF Proper
<1>10. \A k \in Instances : UpTo(c, k) /\ d.known <= k => UpTo(d, k)
  <2> SUFFICES ASSUME NEW k \in Instances, UpTo(c, k), c.known <= k, NEW t \in DOMAIN m
               PROVE  m[t].inst <= k
    BY <1>7 DEF UpTo
  <2>1. CASE t \in taken
    BY <1>3, <1>4, <2>1
  <2>2. CASE t \notin taken
    BY <1>4, <2>2 DEF UpTo
  <2> QED  BY <2>1, <2>2
<1>11. \A t \in taken \ DOMAIN c.mirror : t \in DOMAIN snaps /\ <<"list", t>> \notin c.touched
  BY DEF taken
<1>12. Evolved(c, d, c.known, Requests)
  BY <1>1, <1>7, <1>8, <1>9, <1>10 DEF Evolved, Buries
<1> QED  BY <1>4, <1>7, <1>11, <1>12 DEF d

LEMMA ReconciledEvolves ==
    ASSUME NEW c, Proper(c), c.known \in Instances, NEW R, R.inst = c.known,
           R.rev \in Revisions, R.rev >= c.watermark, R.snaps \in Partial(Snap),
           \A t \in DOMAIN R.snaps : R.snaps[t].inst = c.known
    PROVE  LET d == Reconciled(c, R)
               gone == Missing(WithSnapshots(c, R.snaps), R)
           IN /\ Evolved(c, d, c.known, Requests)
              /\ \A t \in DOMAIN d.mirror \ DOMAIN c.mirror :
                     t \in DOMAIN R.snaps /\ <<"list", t>> \notin c.touched
              /\ DOMAIN d.mirror \cap gone = {}
              /\ \A t \in DOMAIN c.mirror \ gone :
                     c.mirror[t].bound => t \in DOMAIN d.mirror
              /\ \A t \in Tasks, k \in Instances, q \in Revisions :
                     k < c.known \/ (k = c.known /\ q <= R.rev) => Buries(d, t, k, q)
<1> DEFINE c1 == WithSnapshots(c, R.snaps)
           gone == Missing(c1, R)
           left == DOMAIN c1.mirror \ gone
           kept == {t \in left : c1.mirror[t].bound \/ t \in R.visible \/ Live(c1.mirror[t])}
           lasting == {t \in DOMAIN c1.deleted : c1.deleted[t] > R.rev}
           d == Reconciled(c, R)
<1>1. /\ Evolved(c, c1, c.known, Requests) /\ c1.known = c.known
      /\ c1.watermark = c.watermark /\ c1.deleted = c.deleted
      /\ DOMAIN c.mirror \subseteq DOMAIN c1.mirror
      /\ \A t \in DOMAIN c1.mirror \ DOMAIN c.mirror :
             t \in DOMAIN R.snaps /\ <<"list", t>> \notin c.touched
  BY SnapshotsEvolve
<1>2. Proper(c1) /\ c1 \in Client
  BY <1>1 DEF Evolved, Proper
<1>3. gone \subseteq DOMAIN c1.mirror
  BY DEF Missing
<1> HIDE DEF c1, gone
<1> DEFINE c2 == [c1 EXCEPT !.mirror = Restrict(@, DOMAIN @ \ gone),
                            !.touched = @ \cup Requests \X gone,
                            !.watermark = R.rev,
                            !.deleted = Restrict(@, {t \in DOMAIN @ : @[t] > R.rev})]
<1>4. /\ Restrict(c1.mirror, left) \in Partial(Entry)
      /\ Restrict(c1.deleted, lasting) \in Partial(Revisions)
      /\ gone \subseteq Tasks /\ Requests \X gone \subseteq Requests \X Tasks
  BY <1>2, <1>3, ClientFields, EntryFields, RestrictPartial
<1>5. /\ c2.known = c1.known /\ c2.retired = c1.retired /\ c2.outdated = c1.outdated
      /\ c2.touched = c1.touched \cup Requests \X gone /\ c2.watermark = R.rev
      /\ c2.deleted = Restrict(c1.deleted, lasting)
      /\ c2.mirror = Restrict(c1.mirror, left)
      /\ c2 \in Client
  BY <1>2, <1>4 DEF Client
<1>6. d = [c2 EXCEPT !.mirror = Restrict(@, Kept(c2, R.visible))]
  BY DEF Reconciled, c1, gone
<1> HIDE DEF c2, d
<1>7. Kept(c2, R.visible) = kept /\ kept \subseteq left /\ left \subseteq DOMAIN c1.mirror
  BY <1>5 DEF Kept, Restrict
<1>8. Restrict(c2.mirror, kept) = Restrict(c1.mirror, kept)
  BY <1>5, <1>7 DEF Restrict
<1>9. Restrict(c1.mirror, kept) \in Partial(Entry)
  BY <1>2, <1>7, ClientFields, RestrictPartial
<1>10. /\ d.known = c1.known /\ d.retired = c1.retired /\ d.outdated = c1.outdated
       /\ d.touched = c1.touched \cup Requests \X gone /\ d.watermark = R.rev
       /\ d.deleted = Restrict(c1.deleted, lasting)
       /\ d.mirror = Restrict(c1.mirror, kept)
       /\ d \in Client
  BY <1>5, <1>6, <1>7, <1>8, <1>9 DEF Client
<1>11. DOMAIN d.mirror = kept
  BY <1>10 DEF Restrict
<1>12. R.rev \in Nat /\ c.known \in Nat
  BY Constants
<1>13. \A t \in Tasks, k \in Instances, q \in Revisions :
           k < c.known \/ (k = c.known /\ q <= R.rev) => Buries(d, t, k, q)
  BY <1>1, <1>10 DEF Buries
<1>14. \A t \in Tasks, k \in Instances, q \in Revisions :
           Buries(c1, t, k, q) => Buries(d, t, k, q)
  <2> SUFFICES ASSUME NEW t \in Tasks, NEW k \in Instances, NEW q \in Revisions,
                      Buries(c1, t, k, q)
               PROVE  Buries(d, t, k, q)
    OBVIOUS
  <2>1. CASE k < c.known \/ (k = c.known /\ q <= R.rev)
    BY <1>13, <2>1
  <2>2. CASE k = c.known /\ ~(q <= R.rev)
    <3>1. c1.watermark \in Int /\ q \in Nat
      BY <1>2, EntryFields, Constants
    <3>2. t \in DOMAIN c1.deleted /\ q <= c1.deleted[t] /\ c1.deleted[t] \in Nat
      BY <1>1, <1>2, <1>12, <2>2, <3>1, EntryFields DEF Buries
    <3>3. t \in lasting
      BY <1>12, <2>2, <3>1, <3>2
    <3> QED  BY <1>1, <1>10, <2>2, <3>2, <3>3 DEF Buries, Restrict
  <2> QED  BY <1>1, <2>1, <2>2, Constants DEF Buries
<1>15. Evolved(c1, d, c.known, Requests)
  BY <1>2, <1>7, <1>10, <1>14, Forgetting
<1>16. Evolved(c, d, c.known, Requests)
  BY <1>1, <1>12, <1>15, EvolvedTwice
<1>17. \A t \in DOMAIN c.mirror \ gone : c.mirror[t].bound => t \in DOMAIN d.mirror
  <2> SUFFICES ASSUME NEW t \in DOMAIN c.mirror \ gone, c.mirror[t].bound
               PROVE  t \in kept
    BY <1>11
  <2>1. c1.mirror[t].bound
    BY <1>1 DEF Evolved, Onward
  <2> QED  BY <1>1, <2>1
<1> QED  BY <1>1, <1>11, <1>13, <1>16, <1>17 DEF d, c1, gone

-----------------------------------------------------------------------------
(* The inductive invariant. *)

Precedes(i, r, j, q) == i < j \/ (i = j /\ r <= q)

(* A snapshot of a task that the plugin may still hear of, in an event or  *)
(* in the answer to an operation.                                          *)
InStream(t, s) ==
    \E n \in DOMAIN stream :
        stream[n].type = "task" /\ stream[n].task = t /\ stream[n].snap = s
Carried(t, s) ==
    \/ InStream(t, s)
    \/ /\ op.state = "answered" /\ op.kind \in {"submit", "retry"}
       /\ op.task = t /\ op.snap = s

(* Word that a task is gone: as of revision q of instance j.               *)
DeadInStream(t, j, q) ==
    \E n \in DOMAIN stream : /\ stream[n].type = "deleted" /\ stream[n].task = t
                            /\ stream[n].inst = j /\ stream[n].rev = q
Dead(t, j, q) ==
    \/ DeadInStream(t, j, q)
    \/ /\ op.state = "answered" /\ op.kind = "delete"
       /\ op.task = t /\ op.inst = j /\ op.rev = q
    \/ list.state = "answered" /\ t \in list.missing /\ j = list.inst /\ q = list.rev

Ages == UpTo(client, instance) /\ DOMAIN client.mirror \subseteq 1..created

EventNow(event) ==
    /\ event.type = "task" => event.snap.inst = instance
    /\ event.type \in {"deleted", "resync"} => event.inst = instance
StreamNow == \A n \in DOMAIN stream : EventNow(stream[n])

Told ==
    \A t \in Tasks, s \in Snap :
        Carried(t, s) => t \in 1..created /\ Precedes(s.inst, s.rev, instance, revision)

(* What is told of a task that is gone is older than that it is gone.      *)
Gone ==
    \A t \in Tasks, j \in Instances, q \in Revisions :
        Dead(t, j, q) =>
            /\ t \in 1..created /\ t \notin DOMAIN tasks
            /\ Precedes(j, q, instance, revision)
            /\ \A s \in Snap : Carried(t, s) => Precedes(s.inst, s.rev, j, q)

Listed ==
    /\ list.state = "asked" => list.tracked \subseteq 1..created
    /\ list.state = "answered" =>
           /\ Precedes(list.inst, list.rev, instance, revision)
           /\ \A t \in DOMAIN list.snaps :
                  list.snaps[t].inst = list.inst /\ t \in 1..created
           /\ "list" \notin client.outdated => UpTo(client, list.inst)
           /\ \A t \in DOMAIN list.snaps \cap buried : <<"list", t>> \in client.touched

(* The instance that answered an operation *)
AnswerOf == IF op.kind = "delete" THEN op.inst ELSE op.snap.inst
Answered ==
    op.state = "answered" /\ op.kind # "clear" /\ "op" \notin client.outdated =>
        UpTo(client, AnswerOf)

(* No more is heard of a task that the plugin buried, or it is ignored.    *)
Buried ==
    /\ buried \subseteq 1..created /\ buried \cap DOMAIN tasks = {}
    /\ buried \cap DOMAIN client.mirror = {}
    /\ \A t \in buried, s \in Snap : Carried(t, s) => Buries(client, t, s.inst, s.rev)

Inv ==
    /\ ServerTyped /\ PluginTyped /\ Proper(client)
    /\ Ages /\ StreamNow /\ Told /\ Gone /\ Listed /\ Answered /\ Buried

-----------------------------------------------------------------------------
(* What keeps it. *)

(* The plugin takes in what was sent, forgets a request, asks anew.        *)
LEMMA PluginMoves ==
    ASSUME Inv, PluginTyped', UNCHANGED serverVars, connected' \in BOOLEAN,
           stream' \in Seq(Event), StreamNow',
           \A t \in Tasks, s \in Snap : Carried(t, s)' => Carried(t, s),
           \A t \in Tasks, j \in Instances, q \in Revisions : Dead(t, j, q)' => Dead(t, j, q),
           \/ list' = list
           \/ list' = Idle
           \/ list'.state = "asked" /\ list'.tracked \subseteq 1..created,
           op' = op \/ op'.state # "answered",
           NEW j \in Instances, j <= instance, NEW Q, Evolved(client, client', j, Q),
           list' = list /\ list.state = "answered" => "list" \in Q,
           op' = op /\ op.state = "answered" => "op" \in Q,
           DOMAIN client'.mirror \subseteq 1..created,
           buried' \cap DOMAIN client'.mirror = {},
           buried \subseteq buried',
           \A t \in buried' \ buried :
               /\ t \in 1..created /\ t \notin DOMAIN tasks
               /\ list' = list /\ list.state = "answered" => <<"list", t>> \in client'.touched
               /\ \A s \in Snap : Carried(t, s) => Buries(client', t, s.inst, s.rev)
    PROVE  Inv'
<1>1. ServerTyped' /\ Proper(client)'
  BY DEF Inv, ServerTyped, serverVars, Evolved
<1>2. client \in Client /\ client' \in Client
  BY <1>1 DEF Inv, Proper
<1>3. instance \in Instances /\ instance \in Nat /\ client'.known \in Nat /\ client.known \in Nat
  BY <1>2, EntryFields, Constants DEF Inv, ServerTyped
<1>4. UpTo(client, instance) /\ client'.known <= instance
  BY <1>3 DEF Inv, Ages, UpTo, Evolved
<1>5. Ages'
  BY <1>3, <1>4 DEF Ages, Evolved, serverVars
<1>6. Told' /\ Gone'
  BY DEF Inv, Told, Gone, serverVars
<1>7. \A q \in Q, k \in Instances : q \notin client'.outdated /\ UpTo(client, k)
                                        => q \notin client.outdated /\ UpTo(client', k)
  BY DEF Evolved, UpTo
<1>8. Listed'
  <2>1. CASE list' = Idle
    BY <2>1 DEF Listed, Idle
  <2>2. CASE list'.state = "asked" /\ list'.tracked \subseteq 1..created
    BY <2>2 DEF Listed, serverVars
  <2>3. CASE list' = list /\ list.state # "answered"
    BY <2>3 DEF Listed, serverVars, Inv
  <2>4. CASE list' = list /\ list.state = "answered"
    <3>1. list.inst \in Instances /\ DOMAIN list.snaps \subseteq Tasks
      BY <2>4, PartialFunctions DEF Inv, PluginTyped, ListState, Idle
    <3>2. "list" \in Q
      BY <2>4
    <3>3. "list" \notin client'.outdated => UpTo(client', list.inst)
      BY <1>7, <2>4, <3>1, <3>2 DEF Inv, Listed, Evolved
    <3>4. \A t \in DOMAIN list.snaps \cap buried' : <<"list", t>> \in client'.touched
      <4> SUFFICES ASSUME NEW t \in DOMAIN list.snaps \cap buried'
                   PROVE  <<"list", t>> \in client'.touched
        OBVIOUS
      <4>1. CASE t \in buried
        BY <2>4, <3>1, <3>2, <4>1 DEF Inv, Listed, Evolved
      <4>2. CASE t \notin buried
        BY <2>4, <4>2
      <4> QED  BY <4>1, <4>2
    <3> QED  BY <2>4, <3>3, <3>4 DEF Inv, Listed, serverVars
  <2> QED  BY <2>1, <2>2, <2>3, <2>4
<1>9. Answered'
  <2>1. CASE op'.state # "answered"
    BY <2>1 DEF Answered
  <2>2. CASE op' = op /\ op.state = "answered" /\ op.kind # "clear"
    <3>1. AnswerOf \in Instances /\ AnswerOf' = AnswerOf
      BY <2>2 DEF AnswerOf, Inv, PluginTyped, OpState, Idle, Snap
    <3>2. "op" \in Q
      BY <2>2
    <3> QED  BY <1>7, <2>2, <3>1, <3>2 DEF Inv, Answered, Evolved
  <2> QED  BY <2>1, <2>2 DEF Answered
<1>10. Buried'
  <2>1. /\ buried' \subseteq 1..created' /\ buried' \cap DOMAIN tasks' = {}
        /\ buried' \cap DOMAIN client'.mirror = {}
    BY DEF Inv, Buried, serverVars
  <2>2. ASSUME NEW t \in buried', NEW s \in Snap, Carried(t, s)'
        PROVE  Buries(client', t, s.inst, s.rev)
    <3>1. t \in Tasks /\ Carried(t, s) /\ s.inst \in Instances /\ s.rev \in Revisions
      BY <2>2 DEF PluginTyped, Snap
    <3>2. CASE t \in buried
      BY <3>1, <3>2 DEF Inv, Buried, Evolved
    <3>3. CASE t \notin buried
      BY <3>1, <3>3
    <3> QED  BY <3>2, <3>3
  <2> QED  BY <2>1, <2>2 DEF Buried
<1> QED  BY <1>1, <1>5, <1>6, <1>8, <1>9, <1>10 DEF Inv

(* The server moves on, and tells of it.                                   *)
LEMMA ServerMoves ==
    ASSUME Inv, ServerTyped', PluginTyped', StreamNow',
           instance' = instance, revision <= revision', created <= created',
           DOMAIN tasks' \subseteq DOMAIN tasks \cup (created + 1)..created',
           \A t \in Tasks, s \in Snap :
               Carried(t, s)' => \/ Carried(t, s)
                                 \/ t \in DOMAIN tasks' /\ s.inst = instance /\ s.rev <= revision',
           \A t \in Tasks, j \in Instances, q \in Revisions :
               Dead(t, j, q)' => \/ Dead(t, j, q)
                                 \/ /\ t \in 1..created' /\ t \notin DOMAIN tasks'
                                    /\ j = instance /\ revision <= q /\ q <= revision',
           \/ list' = list
           \/ /\ list'.state = "answered" /\ list'.inst = instance /\ list'.rev = revision'
              /\ DOMAIN list'.snaps \subseteq DOMAIN tasks'
              /\ \A t \in DOMAIN list'.snaps : list'.snaps[t].inst = instance,
           op' = op \/ op'.state # "answered" \/ op'.kind = "clear" \/ AnswerOf' = instance,
           NEW Q, Evolved(client, client', instance, Q),
           client'.mirror = client.mirror, client'.known = client.known,
           list' = list /\ list.state = "answered" => "list" \in Q,
           op' = op /\ op.state = "answered" => "op" \in Q,
           buried' = buried
    PROVE  Inv'
<1>1. Proper(client)' /\ client \in Client
  BY DEF Evolved, Proper, Inv
<1>2. /\ instance \in Instances /\ instance \in Nat /\ revision \in Nat /\ revision' \in Nat
      /\ created \in Nat /\ created' \in Nat
      /\ DOMAIN tasks \subseteq 1..created /\ DOMAIN tasks' \subseteq 1..created'
  BY Constants DEF Inv, ServerTyped
<1>3. \A s \in Snap : s.inst \in Nat /\ s.rev \in Nat /\ s.inst \in Instances /\ s.rev \in Revisions
  BY Constants DEF Snap
<1>4. Ages'
  BY <1>2 DEF Inv, Ages, UpTo
<1>5. \A i \in Nat, r \in Nat :
          Precedes(i, r, instance, revision) => Precedes(i, r, instance', revision')
  BY <1>2 DEF Precedes
<1>6. Told'
  <2> SUFFICES ASSUME NEW t \in Tasks, NEW s \in Snap, Carried(t, s)'
               PROVE  t \in 1..created' /\ Precedes(s.inst, s.rev, instance', revision')
    BY DEF Told
  <2>1. CASE Carried(t, s)
    BY <1>2, <1>3, <1>5, <2>1 DEF Inv, Told
  <2>2. CASE t \in DOMAIN tasks' /\ s.inst = instance /\ s.rev <= revision'
    BY <1>2, <2>2 DEF Precedes
  <2> QED  BY <2>1, <2>2
<1>7. Gone'
  <2> SUFFICES ASSUME NEW t \in Tasks, NEW j \in Instances, NEW q \in Revisions, Dead(t, j, q)'
               PROVE  /\ t \in 1..created' /\ t \notin DOMAIN tasks'
                      /\ Precedes(j, q, instance', revision')
                      /\ \A s \in Snap : Carried(t, s)' => Precedes(s.inst, s.rev, j, q)
    BY DEF Gone
  <2>1. CASE Dead(t, j, q)
    <3>1. /\ t \in 1..created /\ t \notin DOMAIN tasks
          /\ Precedes(j, q, instance, revision)
          /\ \A s \in Snap : Carried(t, s) => Precedes(s.inst, s.rev, j, q)
      BY <2>1 DEF Inv, Gone
    <3>2. t \in 1..created' /\ t \notin DOMAIN tasks'
      BY <1>2, <3>1
    <3>3. Precedes(j, q, instance', revision')
      BY <1>5, <3>1, Constants
    <3> QED  BY <3>1, <3>2, <3>3
  <2>2. CASE /\ t \in 1..created' /\ t \notin DOMAIN tasks'
             /\ j = instance /\ revision <= q /\ q <= revision'
    <3>1. q \in Nat
      BY Constants
    <3>2. ASSUME NEW s \in Snap, Carried(t, s)'
          PROVE  Precedes(s.inst, s.rev, j, q)
      <4>1. Precedes(s.inst, s.rev, instance, revision)
        BY <2>2, <3>2 DEF Inv, Told
      <4> QED  BY <1>2, <1>3, <2>2, <3>1, <4>1 DEF Precedes
    <3>3. Precedes(j, q, instance', revision')
      BY <2>2 DEF Precedes
    <3> QED  BY <2>2, <3>2, <3>3
  <2> QED  BY <2>1, <2>2
<1>8. \A q \in Q, k \in Instances : q \notin client'.outdated /\ UpTo(client, k)
                                        => q \notin client.outdated /\ UpTo(client', k)
  BY DEF Evolved, UpTo
<1>9. UpTo(client', instance)
  BY DEF Inv, Ages, UpTo
<1>10. Listed'
  <2>1. CASE list' = list /\ list.state = "answered"
    <3>1. /\ list.inst \in Instances /\ list.rev \in Revisions
          /\ list.inst \in Nat /\ list.rev \in Nat /\ DOMAIN list.snaps \subseteq Tasks
      BY <2>1, PartialFunctions, Constants DEF Inv, PluginTyped, ListState, Idle
    <3>2. "list" \in Q
      BY <2>1
    <3>3. "list" \notin client'.outdated => UpTo(client', list.inst)
      BY <1>8, <2>1, <3>1, <3>2 DEF Inv, Listed, Evolved
    <3>4. \A t \in DOMAIN list.snaps \cap buried' : <<"list", t>> \in client'.touched
      BY <2>1, <3>1, <3>2 DEF Inv, Listed, Evolved
    <3>5. Precedes(list.inst, list.rev, instance', revision')
      BY <1>5, <2>1, <3>1 DEF Inv, Listed
    <3>6. \A t \in DOMAIN list.snaps : list.snaps[t].inst = list.inst /\ t \in 1..created'
      BY <1>2, <2>1 DEF Inv, Listed
    <3> QED  BY <2>1, <3>3, <3>4, <3>5, <3>6 DEF Listed
  <2>2. CASE list' = list /\ list.state # "answered"
    BY <1>2, <2>2 DEF Inv, Listed
  <2>3. CASE /\ list'.state = "answered" /\ list'.inst = instance /\ list'.rev = revision'
             /\ DOMAIN list'.snaps \subseteq DOMAIN tasks'
             /\ \A t \in DOMAIN list'.snaps : list'.snaps[t].inst = instance
    <3>1. DOMAIN list'.snaps \cap buried' = {}
      <4>1. \A t \in buried : t \in 1..created /\ t \notin DOMAIN tasks
        BY DEF Inv, Buried
      <4> QED  BY <1>2, <2>3, <4>1
    <3> QED  BY <1>2, <1>9, <2>3, <3>1 DEF Listed, Precedes
  <2> QED  BY <2>1, <2>2, <2>3
<1>11. Answered'
  <2>1. CASE op'.state # "answered" \/ op'.kind = "clear"
    BY <2>1 DEF Answered
  <2>2. CASE op' = op /\ op.state = "answered" /\ op.kind # "clear"
    <3>1. AnswerOf \in Instances /\ AnswerOf' = AnswerOf
      BY <2>2 DEF AnswerOf, Inv, PluginTyped, OpState, Idle, Snap
    <3>2. "op" \in Q
      BY <2>2
    <3> QED  BY <1>8, <2>2, <3>1, <3>2 DEF Inv, Answered, Evolved
  <2>3. CASE AnswerOf' = instance
    BY <1>9, <2>3 DEF Answered
  <2> QED  BY <2>1, <2>2, <2>3
<1>12. Buried'
  <2>1. \A t \in buried : t \in 1..created /\ t \notin DOMAIN tasks
    BY DEF Inv, Buried
  <2>2. buried' \subseteq 1..created' /\ buried' \cap DOMAIN tasks' = {}
    BY <1>2, <2>1
  <2>3. ASSUME NEW t \in buried', NEW s \in Snap, Carried(t, s)'
        PROVE  Buries(client', t, s.inst, s.rev)
    <3>1. t \in Tasks /\ t \notin DOMAIN tasks'
      BY <2>2, <2>3 DEF PluginTyped
    <3>2. Carried(t, s)
      BY <2>3, <3>1
    <3> QED  BY <1>3, <3>1, <3>2 DEF Inv, Buried, Evolved
  <2> QED  BY <2>2, <2>3 DEF Buried, Inv
<1> QED  BY <1>1, <1>4, <1>6, <1>7, <1>10, <1>11, <1>12 DEF Inv

LEMMA Still ==
    ASSUME NEW c, Proper(c), NEW j, NEW Q
    PROVE  Evolved(c, c, j, Q)
BY Marking DEF Proper

-----------------------------------------------------------------------------
(* The steps of the server. *)

LEMMA PublishFacts ==
    ASSUME stream \in Seq(Event), connected \in BOOLEAN, instance \in Instances,
           NEW events \in Seq(Event), Publish(events)
    PROVE  /\ connected' \in BOOLEAN /\ stream' \in Seq(Event)
           /\ \A n \in DOMAIN stream' :
                  \/ \E m \in DOMAIN stream : stream'[n] = stream[m]
                  \/ \E m \in DOMAIN events : stream'[n] = events[m]
                  \/ stream'[n] = Resync
<1>1. CASE ~connected \/ events = <<>>
  BY <1>1 DEF Publish, streamVars
<1>2. CASE ~(~connected \/ events = <<>>) /\ Len(stream) + Len(events) <= QueueSize
  <2>1. stream' = stream \o events /\ connected' = connected
    BY <1>2 DEF Publish
  <2>2. /\ stream \o events \in Seq(Event)
        /\ \A n \in DOMAIN (stream \o events) :
               \/ n \in DOMAIN stream /\ (stream \o events)[n] = stream[n]
               \/ /\ n - Len(stream) \in DOMAIN events
                  /\ (stream \o events)[n] = events[n - Len(stream)]
    OBVIOUS
  <2> QED  BY <2>1, <2>2
<1>3. CASE ~(~connected \/ events = <<>>) /\ ~(Len(stream) + Len(events) <= QueueSize)
  <2>1. PICK k \in 0..Len(stream) : stream' = Append(SubSeq(stream, 1, k), Resync)
    BY <1>3 DEF Publish
  <2>2. connected' = FALSE /\ Resync \in Event
    BY <1>3 DEF Publish, Resync, Event
  <2> DEFINE s == SubSeq(stream, 1, k)
  <2>3. s \in Seq(Event) /\ Len(s) = k /\ \A n \in 1..k : s[n] = stream[n]
    OBVIOUS
  <2> HIDE DEF s
  <2>4. /\ Append(s, Resync) \in Seq(Event) /\ DOMAIN Append(s, Resync) = 1..(k + 1)
        /\ \A n \in 1..(k + 1) :
               Append(s, Resync)[n] = IF n = k + 1 THEN Resync ELSE s[n]
    BY <2>2, <2>3
  <2>5. \A n \in 1..k : n \in DOMAIN stream
    OBVIOUS
  <2>6. ASSUME NEW n \in 1..(k + 1)
        PROVE  \/ \E m \in DOMAIN stream : Append(s, Resync)[n] = stream[m]
               \/ Append(s, Resync)[n] = Resync
    <3>0. n = k + 1 \/ n \in 1..k
      <4>1. k \in Nat
        OBVIOUS
      <4> QED  BY <4>1
    <3>1. CASE n = k + 1
      BY <2>4, <3>1
    <3>2. CASE n \in 1..k
      BY <2>3, <2>4, <2>5, <3>2
    <3> QED  BY <3>0, <3>1, <3>2
  <2> QED  BY <2>1, <2>2, <2>4, <2>6 DEF s
<1> QED  BY <1>1, <1>2, <1>3

(* What is published is news of tasks that are there, or word of tasks     *)
(* that are gone, as of now.                                               *)
LEMMA Publishing ==
    ASSUME Inv, NEW events \in Seq(Event), Publish(events), instance' = instance,
           \A n \in DOMAIN events : events[n].type \in {"task", "deleted"} /\ EventNow(events[n])
    PROVE  /\ connected' \in BOOLEAN /\ stream' \in Seq(Event) /\ StreamNow'
           /\ \A t, s : InStream(t, s)' =>
                  \/ InStream(t, s)
                  \/ \E n \in DOMAIN events :
                         events[n].type = "task" /\ events[n].task = t /\ events[n].snap = s
           /\ \A t, j, q : DeadInStream(t, j, q)' =>
                  \/ DeadInStream(t, j, q)
                  \/ \E n \in DOMAIN events :
                         /\ events[n].type = "deleted" /\ events[n].task = t
                         /\ events[n].inst = j /\ events[n].rev = q
<1>1. /\ connected' \in BOOLEAN /\ stream' \in Seq(Event)
      /\ \A n \in DOMAIN stream' :
             \/ \E m \in DOMAIN stream : stream'[n] = stream[m]
             \/ \E m \in DOMAIN events : stream'[n] = events[m]
             \/ stream'[n] = Resync
  BY PublishFacts DEF Inv, ServerTyped
<1>2. Resync.type = "resync" /\ Resync.inst = instance
  BY DEF Resync
<1>3. StreamNow'
  BY <1>1, <1>2 DEF StreamNow, EventNow, Inv
<1> QED  BY <1>1, <1>2, <1>3 DEF InStream, DeadInStream

LEMMA TasksFinite ==
    ASSUME Inv
    PROVE  IsFiniteSet(DOMAIN tasks) /\ Cardinality(DOMAIN tasks) \in Nat
<1>1. created \in Nat /\ DOMAIN tasks \in SUBSET (1..created)
  BY Constants DEF Inv, ServerTyped
<1>2. IsFiniteSet(1..created)
  BY <1>1, FS_Interval
<1> QED  BY <1>1, <1>2, FS_Subset, FS_CardinalityType

LEMMA ChangedFacts ==
    ASSUME Inv, NEW t \in Tasks, NEW record \in Record, Changed(t, record), instance' = instance,
           \/ t \in DOMAIN tasks /\ created' = created
           \/ t = created + 1 /\ created' = created + 1
    PROVE  /\ ServerTyped' /\ StreamNow' /\ revision' = revision + 1 /\ revision' \in Revisions
           /\ DOMAIN tasks' = DOMAIN tasks \cup {t}
           /\ \A u, s : InStream(u, s)' =>
                  InStream(u, s) \/ (u = t /\ s.inst = instance /\ s.rev = revision')
           /\ \A u, j, q : DeadInStream(u, j, q)' => DeadInStream(u, j, q)
<1> DEFINE r == [record EXCEPT !.rev = revision + 1]
           event == TaskEvent(t, record, revision + 1)
<1>1. /\ instance \in Instances /\ revision \in Nat /\ created \in Nat /\ created <= MaxTasks
      /\ DOMAIN tasks \subseteq 1..created
      /\ tasks = [u \in DOMAIN tasks |-> tasks[u]]
      /\ \A u \in DOMAIN tasks : tasks[u] \in Record /\ tasks[u].rev \in 1..revision
      /\ Cardinality(DOMAIN tasks) <= revision
  BY Constants DEF Inv, ServerTyped
<1>2. revision' = revision + 1 /\ revision' \in Revisions /\ Publish(<<event>>)
  BY <1>1, Constants DEF Changed, Revisions
<1>3. tasks' = With(tasks, t, r) /\ r \in Record /\ r.rev = revision + 1
  BY <1>1, <1>2 DEF Changed, Record
<1> HIDE DEF r
<1>4. /\ event.type = "task" /\ event.task = t /\ event.snap.inst = instance
      /\ event.snap.rev = revision' /\ event \in Event
  BY <1>1, <1>2 DEF TaskEvent, Event, Snap, Record
<1> HIDE DEF event
<1>5. /\ DOMAIN tasks' = DOMAIN tasks \cup {t}
      /\ tasks' = [u \in DOMAIN tasks' |-> tasks'[u]]
      /\ \A u \in DOMAIN tasks' : tasks'[u] = IF u = t THEN r ELSE tasks[u]
  BY <1>3 DEF With
<1> DEFINE events == <<event>>
<1>6. /\ events \in Seq(Event) /\ \A n \in DOMAIN events : events[n] = event
      /\ event.type \in {"task", "deleted"} /\ EventNow(event) /\ Publish(events)
  BY <1>2, <1>4 DEF EventNow
<1> HIDE DEF events
<1>7. /\ connected' \in BOOLEAN /\ stream' \in Seq(Event) /\ StreamNow'
      /\ \A u, s : InStream(u, s)' =>
                  \/ InStream(u, s)
                  \/ event.type = "task" /\ event.task = u /\ event.snap = s
      /\ \A u, j, q : DeadInStream(u, j, q)' => DeadInStream(u, j, q)
  BY <1>4, <1>6, Publishing
<1>8. Cardinality(DOMAIN tasks') <= revision'
  <2>1. /\ IsFiniteSet(DOMAIN tasks) /\ Cardinality(DOMAIN tasks) \in Nat
        /\ Cardinality(DOMAIN tasks \cup {t}) =
               IF t \in DOMAIN tasks THEN Cardinality(DOMAIN tasks)
               ELSE Cardinality(DOMAIN tasks) + 1
    BY TasksFinite, FS_AddElement
  <2> QED  BY <1>1, <1>2, <1>5, <2>1
<1>9. created' \in 0..MaxTasks /\ DOMAIN tasks' \subseteq 1..created'
  BY <1>1, <1>5 DEF Tasks
<1>10. \A u \in DOMAIN tasks' : tasks'[u] \in Record /\ tasks'[u].rev \in 1..revision'
  BY <1>1, <1>2, <1>3, <1>5
<1>11. ServerTyped'
  BY <1>1, <1>2, <1>5, <1>7, <1>8, <1>9, <1>10 DEF ServerTyped
<1> QED  BY <1>2, <1>4, <1>5, <1>7, <1>11

(* Several tasks are deleted, one after the other.                         *)
LEMMA DeletionFacts ==
    ASSUME Inv, NEW T \in SUBSET DOMAIN tasks, tasks' = Restrict(tasks, DOMAIN tasks \ T),
           instance' = instance, created' = created,
           revision' \in Revisions, revision <= revision',
           NEW events \in Seq(Event), Publish(events),
           \A n \in DOMAIN events :
               /\ events[n].type = "deleted" /\ events[n].task \in T
               /\ events[n].inst = instance /\ events[n].rev \in revision..revision'
    PROVE  /\ ServerTyped' /\ StreamNow' /\ DOMAIN tasks' = DOMAIN tasks \ T
           /\ \A u, s : InStream(u, s)' => InStream(u, s)
           /\ \A u, j, q : DeadInStream(u, j, q)' =>
                  \/ DeadInStream(u, j, q)
                  \/ u \in T /\ j = instance /\ q \in revision..revision'
<1>1. /\ instance \in Instances /\ revision \in Nat /\ revision' \in Nat
      /\ created \in 0..MaxTasks /\ DOMAIN tasks \subseteq 1..created
      /\ \A u \in DOMAIN tasks : tasks[u] \in Record /\ tasks[u].rev \in 1..revision
      /\ Cardinality(DOMAIN tasks) <= revision
  BY Constants DEF Inv, ServerTyped
<1>2. /\ DOMAIN tasks' = DOMAIN tasks \ T
      /\ tasks' = [u \in DOMAIN tasks' |-> tasks'[u]]
      /\ \A u \in DOMAIN tasks' : tasks'[u] = tasks[u]
  BY DEF Restrict
<1>3. /\ connected' \in BOOLEAN /\ stream' \in Seq(Event) /\ StreamNow'
      /\ \A u, s : InStream(u, s)' =>
                  \/ InStream(u, s)
                  \/ \E n \in DOMAIN events :
                         events[n].type = "task" /\ events[n].task = u /\ events[n].snap = s
      /\ \A u, j, q : DeadInStream(u, j, q)' =>
                  \/ DeadInStream(u, j, q)
                  \/ \E n \in DOMAIN events :
                         /\ events[n].type = "deleted" /\ events[n].task = u
                         /\ events[n].inst = j /\ events[n].rev = q
  <2>1. \A n \in DOMAIN events : events[n].type \in {"task", "deleted"} /\ EventNow(events[n])
    BY DEF EventNow
  <2> QED  BY <2>1, Publishing
<1>4. Cardinality(DOMAIN tasks') <= revision'
  <2>1. DOMAIN tasks' \in SUBSET DOMAIN tasks
    BY <1>2
  <2>2. Cardinality(DOMAIN tasks') <= Cardinality(DOMAIN tasks) /\ IsFiniteSet(DOMAIN tasks')
    BY <2>1, TasksFinite, FS_Subset
  <2> QED  BY <1>1, <2>2, TasksFinite, FS_CardinalityType
<1>5. \A u \in DOMAIN tasks' : tasks'[u] \in Record /\ tasks'[u].rev \in 1..revision'
  <2>1. 1..revision \subseteq 1..revision'
    BY <1>1
  <2> QED  BY <1>1, <1>2, <2>1
<1>6. ServerTyped'
  BY <1>1, <1>2, <1>3, <1>4, <1>5 DEF ServerTyped
<1> QED  BY <1>2, <1>3, <1>6

LEMMA RecordFacts ==
    ASSUME Inv, NEW t \in DOMAIN tasks
    PROVE  /\ t \in Tasks /\ t \in 1..created /\ tasks[t] \in Record
           /\ NextAttempt(tasks[t]) \in Record /\ Resumed(tasks[t]) \in Record
           /\ Snapshot(tasks[t]) \in Snap /\ Snapshot(tasks[t]).inst = instance
           /\ Snapshot(tasks[t]).rev = tasks[t].rev /\ tasks[t].rev \in 1..revision
           /\ \A status \in Statuses : [tasks[t] EXCEPT !.status = status] \in Record
<1>1. /\ DOMAIN tasks \subseteq 1..created /\ created \in 0..MaxTasks
      /\ tasks[t] \in Record /\ tasks[t].rev \in 1..revision /\ instance \in Instances
  BY DEF Inv, ServerTyped
<1>2. t \in Tasks
  BY <1>1, Constants DEF Tasks
<1>3. /\ tasks[t].rev \in Revisions /\ tasks[t].attempt \in Attempts
      /\ tasks[t].status \in Statuses /\ "active" \in Statuses
      /\ tasks[t].attempt + 1 \in Attempts
  BY <1>1 DEF Record, Attempts, Statuses
<1>4. Snapshot(tasks[t]) \in Snap
  BY <1>1, <1>3 DEF Snapshot, Snap
<1>5. NextAttempt(tasks[t]) \in Record /\ Resumed(tasks[t]) \in Record
  BY <1>1, <1>3 DEF Record, NextAttempt, Resumed
<1>6. \A status \in Statuses : [tasks[t] EXCEPT !.status = status] \in Record
  BY <1>1 DEF Record
<1>7. Snapshot(tasks[t]).inst = instance /\ Snapshot(tasks[t]).rev = tasks[t].rev
  BY DEF Snapshot
<1> QED  BY <1>1, <1>2, <1>4, <1>5, <1>6, <1>7

LEMMA NewTaskFacts ==
    Inv => NewTask \in Record /\ (created < MaxTasks => created + 1 \in Tasks)
BY Constants DEF Inv, ServerTyped, NewTask, Record, Revisions, Attempts, Statuses, Tasks

(* A change of one task, by itself or with an answer that tells of it.     *)
LEMMA ChangeKeeps ==
    ASSUME Inv, NEW t \in Tasks, NEW record \in Record, Changed(t, record),
           \/ t \in DOMAIN tasks /\ created' = created
           \/ t = created + 1 /\ created' = created + 1,
           UNCHANGED <<instance, client, page, list, again, faults, settled, buried>>,
           submission' \in Tasks \cup {None},
           \/ op' = op
           \/ /\ op' \in OpState /\ op'.state = "answered" /\ op'.kind \in {"submit", "retry"}
              /\ op'.task = t /\ op'.snap.inst = instance /\ op'.snap.rev = revision + 1
    PROVE  Inv'
<1>1. /\ ServerTyped' /\ StreamNow' /\ revision' = revision + 1 /\ revision' \in Revisions
      /\ DOMAIN tasks' = DOMAIN tasks \cup {t}
      /\ \A u, s : InStream(u, s)' =>
             InStream(u, s) \/ (u = t /\ s.inst = instance /\ s.rev = revision')
      /\ \A u, j, q : DeadInStream(u, j, q)' => DeadInStream(u, j, q)
  BY ChangedFacts
<1>2. /\ PluginTyped' /\ list' = list /\ buried' = buried /\ client' = client
      /\ instance' = instance /\ Evolved(client, client, instance, Requests)
  BY Still DEF Inv, PluginTyped
<1>3. /\ revision \in Nat /\ revision' \in Nat /\ created \in Nat /\ created' \in Nat
  BY <1>1, Constants DEF Inv, ServerTyped
<1>4. /\ revision <= revision' /\ created <= created'
      /\ DOMAIN tasks' \subseteq DOMAIN tasks \cup (created + 1)..created'
  BY <1>1, <1>3
<1>5. \A u \in Tasks, s \in Snap :
          Carried(u, s)' => \/ Carried(u, s)
                            \/ u \in DOMAIN tasks' /\ s.inst = instance /\ s.rev <= revision'
  <2> SUFFICES ASSUME NEW u \in Tasks, NEW s \in Snap, Carried(u, s)'
               PROVE  \/ Carried(u, s)
                      \/ u \in DOMAIN tasks' /\ s.inst = instance /\ s.rev <= revision'
    OBVIOUS
  <2>1. CASE InStream(u, s)'
    BY <1>1, <1>3, <2>1 DEF Carried
  <2>2. CASE ~InStream(u, s)'
    BY <1>1, <1>3, <2>2 DEF Carried
  <2> QED  BY <2>1, <2>2
<1>6. \A u \in Tasks, j \in Instances, q \in Revisions : Dead(u, j, q)' => Dead(u, j, q)
  BY <1>1, <1>2 DEF Dead
<1>7. op' = op \/ AnswerOf' = instance
  BY DEF AnswerOf
<1>8. list.state = "answered" => "list" \in Requests
  BY Constants
<1>9. op.state = "answered" => "op" \in Requests
  BY Constants
<1> QED  BY <1>1, <1>2, <1>4, <1>5, <1>6, <1>7, <1>8, <1>9, ServerMoves

LEMMA DeletionKeeps ==
    ASSUME Inv, NEW t \in DOMAIN tasks, Deleted(t),
           UNCHANGED <<instance, created, client, page, faults, settled, buried,
                       list, again, submission>>,
           \/ op' = op
           \/ op' = [state |-> "answered", kind |-> "delete", task |-> t,
                     inst |-> instance, rev |-> revision + 1]
    PROVE  Inv'
<1>1. /\ revision \in Nat /\ revision' = revision + 1 /\ revision' \in Revisions
      /\ revision' \in Nat /\ instance \in Instances /\ created \in Nat /\ t \in Tasks
  BY RecordFacts, Constants DEF Inv, ServerTyped, Deleted, Revisions
<1> DEFINE event == DeletedEvent(t, revision + 1)
           events == <<event>>
<1>2. /\ event \in Event /\ event.type = "deleted" /\ event.task = t
      /\ event.inst = instance /\ event.rev = revision'
  BY <1>1 DEF DeletedEvent, Event
<1>3. Publish(events) /\ tasks' = Restrict(tasks, DOMAIN tasks \ {t})
  BY DEF Deleted
<1> HIDE DEF event
<1>4. /\ events \in Seq(Event) /\ \A n \in DOMAIN events : events[n] = event
      /\ event.rev \in revision..revision'
  BY <1>1, <1>2
<1> HIDE DEF events
<1>5. /\ ServerTyped' /\ StreamNow' /\ DOMAIN tasks' = DOMAIN tasks \ {t}
      /\ \A u, s : InStream(u, s)' => InStream(u, s)
      /\ \A u, j, q : DeadInStream(u, j, q)' =>
             \/ DeadInStream(u, j, q)
             \/ u \in {t} /\ j = instance /\ q \in revision..revision'
  <2>1. \A n \in DOMAIN events :
            /\ events[n].type = "deleted" /\ events[n].task \in {t}
            /\ events[n].inst = instance /\ events[n].rev \in revision..revision'
    BY <1>2, <1>4
  <2>2. {t} \in SUBSET DOMAIN tasks /\ revision <= revision'
    BY <1>1
  <2> QED  BY <1>1, <1>3, <1>4, <2>1, <2>2, DeletionFacts
<1>6. PluginTyped'
  <2>1. op' \in OpState
    BY <1>1 DEF Inv, PluginTyped, OpState
  <2> QED  BY <2>1 DEF Inv, PluginTyped
<1>7. /\ list' = list /\ buried' = buried /\ client' = client
      /\ instance' = instance /\ Evolved(client, client, instance, Requests)
  BY Still DEF Inv
<1>8. /\ revision <= revision' /\ created <= created'
      /\ DOMAIN tasks' \subseteq DOMAIN tasks \cup (created + 1)..created'
  BY <1>1, <1>5
<1>9. \A u \in Tasks, s \in Snap : Carried(u, s)' => Carried(u, s)
  BY <1>5 DEF Carried
<1>10. t \in 1..created' /\ t \notin DOMAIN tasks'
  BY <1>5, RecordFacts
<1>11. \A u \in Tasks, j \in Instances, q \in Revisions :
           Dead(u, j, q)' => \/ Dead(u, j, q)
                             \/ /\ u \in 1..created' /\ u \notin DOMAIN tasks'
                                /\ j = instance /\ revision <= q /\ q <= revision'
  BY <1>1, <1>5, <1>7, <1>10, Constants DEF Dead
<1>12. op' = op \/ AnswerOf' = instance
  BY DEF AnswerOf
<1>13. list.state = "answered" => "list" \in Requests
  BY Constants
<1>14. op.state = "answered" => "op" \in Requests
  BY Constants
<1> QED  BY <1>5, <1>6, <1>7, <1>8, <1>9, <1>11, <1>12, <1>13, <1>14, ServerMoves

LEMMA ServerStepKeeps == Inv /\ ServerStep => Inv'
<1> SUFFICES ASSUME Inv, ServerStep PROVE Inv'
  OBVIOUS
<1>1. /\ UNCHANGED <<instance, client, page, list, again, faults, settled, buried>>
      /\ op' = op /\ submission' = submission /\ submission' \in Tasks \cup {None}
  BY DEF ServerStep, requestVars, Inv, PluginTyped
<1>2. ASSUME NEW t \in DOMAIN tasks, NEW status \in {"active", "failed", "done"},
             Changed(t, [tasks[t] EXCEPT !.status = status]), UNCHANGED created
      PROVE  Inv'
  <2>1. [tasks[t] EXCEPT !.status = status] \in Record /\ t \in Tasks
    BY RecordFacts DEF Statuses
  <2> QED  BY <1>1, <1>2, <2>1, ChangeKeeps
<1>3. ASSUME NEW t \in DOMAIN tasks, Changed(t, NextAttempt(tasks[t])), UNCHANGED created
      PROVE  Inv'
  BY <1>1, <1>3, RecordFacts, ChangeKeeps
<1>4. ASSUME NEW t \in DOMAIN tasks, Changed(t, Resumed(tasks[t])), UNCHANGED created
      PROVE  Inv'
  BY <1>1, <1>4, RecordFacts, ChangeKeeps
<1>5. ASSUME NEW t \in DOMAIN tasks, Deleted(t), UNCHANGED created
      PROVE  Inv'
  <2>1. UNCHANGED <<instance, created, client, page, faults, settled, buried,
                    list, again, submission>> /\ op' = op
    BY <1>1, <1>5 DEF requestVars
  <2> QED  BY <1>5, <2>1, DeletionKeeps
<1>6. ASSUME created < MaxTasks, created' = created + 1, Changed(created + 1, NewTask)
      PROVE  Inv'
  BY <1>1, <1>6, NewTaskFacts, ChangeKeeps
<1> QED  BY <1>2, <1>3, <1>4, <1>5, <1>6 DEF ServerStep

LEMMA RestartKeeps == ASSUME ~LateStream, Inv, Restart PROVE Inv'
<1>0. /\ instance' = instance + 1 /\ instance' \in Instances /\ instance \in Nat
  <2>1. instance \in Instances /\ instance < MaxInstances /\ instance' = instance + 1
    BY DEF Inv, ServerTyped, Restart
  <2> QED  BY <2>1, Constants DEF Instances
<1>1. /\ revision \in Nat /\ revision <= MaxRevision /\ created \in 0..MaxTasks
      /\ DOMAIN tasks \subseteq 1..created
      /\ \A t \in DOMAIN tasks : tasks[t] \in Record
      /\ Cardinality(DOMAIN tasks) <= revision
  BY Constants DEF Inv, ServerTyped, Revisions
<1>2. /\ revision' = Cardinality(DOMAIN tasks) /\ revision' \in Nat /\ revision' \in Revisions
  <2>1. revision' = Cardinality(DOMAIN tasks)
    BY DEF Restart
  <2> QED  BY <1>1, <2>1, TasksFinite, Constants DEF Revisions
<1> DEFINE Rank(t) == Cardinality({u \in DOMAIN tasks : u <= t})
           Paused(t) == [tasks[t] EXCEPT !.rev = Rank(t),
                                 !.status = IF Active(tasks[t]) THEN "paused" ELSE @]
<1>3. tasks' = [t \in DOMAIN tasks |-> Paused(t)]
  BY DEF Restart
<1>4. ASSUME NEW t \in DOMAIN tasks
      PROVE  Rank(t) \in 1..revision'
  <2> DEFINE S == {u \in DOMAIN tasks : u <= t}
  <2>1. t \in S /\ S \in SUBSET DOMAIN tasks /\ {t} \in SUBSET S
    BY <1>1
  <2>2. IsFiniteSet(S) /\ Cardinality(S) <= Cardinality(DOMAIN tasks)
    BY <2>1, TasksFinite, FS_Subset
  <2>3. Cardinality({t}) = 1 /\ Cardinality({t}) <= Cardinality(S)
    BY <2>1, <2>2, FS_Subset, FS_Singleton
  <2>4. Cardinality(S) \in Nat
    BY <2>2, FS_CardinalityType
  <2> QED  BY <1>2, <2>2, <2>3, <2>4
<1>5. \A t \in DOMAIN tasks : Paused(t) \in Record /\ Paused(t).rev \in 1..revision'
  <2> SUFFICES ASSUME NEW t \in DOMAIN tasks
               PROVE  Paused(t) \in Record /\ Paused(t).rev \in 1..revision'
    OBVIOUS
  <2>1. Rank(t) \in Revisions /\ tasks[t] \in Record
    <3>1. Rank(t) \in 1..revision'
      BY <1>4
    <3> HIDE DEF Rank
    <3> QED  BY <1>1, <1>2, <3>1, Constants DEF Revisions
  <2> HIDE DEF Rank
  <2>2. Paused(t) \in Record /\ Paused(t).rev = Rank(t)
    BY <2>1 DEF Record, Statuses
  <2> QED  BY <1>4, <2>2
<1> HIDE DEF Paused
<1>6. /\ DOMAIN tasks' = DOMAIN tasks /\ tasks' = [t \in DOMAIN tasks' |-> tasks'[t]]
      /\ \A t \in DOMAIN tasks' : tasks'[t] \in Record /\ tasks'[t].rev \in 1..revision'
  BY <1>3, <1>5
<1>7. stream' = <<>> /\ stream' \in Seq(Event) /\ DOMAIN stream' = {} /\ connected' = FALSE
  <2>1. stream' = <<>> /\ connected' = FALSE
    BY DEF Restart
  <2> QED  BY <2>1
<1>8. UNCHANGED <<created, client, page, requestVars, faults, settled, buried>>
  BY DEF Restart
<1>9. ServerTyped'
  <2>1. Cardinality(DOMAIN tasks') <= revision'
    BY <1>2, <1>6
  <2>2. /\ created' \in 0..MaxTasks /\ DOMAIN tasks' \subseteq 1..created'
        /\ connected' \in BOOLEAN
    BY <1>1, <1>6, <1>7, <1>8
  <2> QED  BY <1>0, <1>2, <1>6, <1>7, <2>1, <2>2 DEF ServerTyped
<1>10. PluginTyped' /\ Proper(client)' /\ StreamNow'
  BY <1>7, <1>8 DEF Inv, PluginTyped, StreamNow, requestVars
<1>11. client \in Client /\ client.known \in Nat
  BY EntryFields DEF Inv, Proper
<1>12. Ages'
  BY <1>0, <1>1, <1>8, <1>11, EntryFields DEF Inv, Ages, UpTo
<1>13. \A t \in Tasks, s \in Snap : Carried(t, s)' => Carried(t, s)
  BY <1>7, <1>8 DEF Carried, InStream, requestVars
<1>14. \A t \in Tasks, j \in Instances, q \in Revisions : Dead(t, j, q)' => Dead(t, j, q)
  BY <1>7, <1>8 DEF Dead, DeadInStream, requestVars
<1>15. \A i \in Nat, r \in Nat :
           Precedes(i, r, instance, revision) => Precedes(i, r, instance', revision')
  BY <1>0, <1>1 DEF Precedes
<1>16. \A s \in Snap : s.inst \in Nat /\ s.rev \in Nat
  BY Constants DEF Snap
<1>17. Told' /\ Gone'
  BY <1>6, <1>8, <1>13, <1>14, <1>15, <1>16, Constants DEF Inv, Told, Gone
<1>18. Listed'
  <2>1. list.state = "answered" => list.inst \in Nat /\ list.rev \in Nat
    <3> SUFFICES ASSUME list.state = "answered"
                 PROVE  list.inst \in Instances /\ list.rev \in Revisions
      BY Constants
    <3> QED  BY DEF Inv, PluginTyped, ListState, Idle
  <2> QED  BY <1>8, <1>15, <2>1 DEF Inv, Listed, requestVars
<1>19. Answered'
  BY <1>8 DEF Inv, Answered, AnswerOf, requestVars
<1>20. Buried'
  BY <1>6, <1>8, <1>13 DEF Inv, Buried, PluginTyped
<1> QED  BY <1>9, <1>10, <1>12, <1>17, <1>18, <1>19, <1>20 DEF Inv

(* Nothing of the server changes.                                          *)
LEMMA Steady ==
    Inv /\ UNCHANGED serverVars =>
        /\ instance' = instance /\ revision <= revision' /\ created <= created'
        /\ DOMAIN tasks' \subseteq DOMAIN tasks \cup (created + 1)..created'
        /\ (connected' \in BOOLEAN /\ stream' \in Seq(Event) => ServerTyped')
BY Constants DEF Inv, ServerTyped, serverVars

LEMMA ListServedKeeps == Inv /\ ListServed => Inv'
<1> SUFFICES ASSUME Inv, ListServed PROVE Inv'
  OBVIOUS
<1> DEFINE history == {t \in DOMAIN tasks : ~Live(tasks[t])}
           newest == {t \in history : Cardinality({u \in history : u > t}) < PageSize}
           visible == newest \cup (DOMAIN tasks \ history)
           shown == visible \cup (list.tracked \cap DOMAIN tasks)
           snaps == [t \in shown |-> Snapshot(tasks[t])]
<1>1. /\ list.state = "asked"
      /\ list' = [state |-> "answered", inst |-> instance, rev |-> revision,
                  snaps |-> snaps, visible |-> visible, missing |-> list.tracked \ DOMAIN tasks]
      /\ UNCHANGED <<serverVars, streamVars, client, page, again, op, submission, faults,
                     settled, buried>>
  BY DEF ListServed
<1>2. /\ visible \subseteq DOMAIN tasks /\ shown \subseteq DOMAIN tasks
      /\ DOMAIN tasks \subseteq Tasks
  BY RecordFacts
<1> HIDE DEF visible
<1>3. snaps \in [shown -> Snap] /\ \A t \in shown : snaps[t].inst = instance
  BY <1>2, RecordFacts
<1>4. snaps \in Partial(Snap) /\ DOMAIN snaps = shown
  BY <1>2, <1>3, PartialFunctions
<1> HIDE DEF snaps, shown
<1>5. list.tracked \subseteq 1..created /\ list.tracked \subseteq Tasks
  BY <1>1 DEF Inv, Listed, PluginTyped, ListState, Idle
<1>6. /\ instance \in Instances /\ revision \in Revisions /\ revision \in Nat
  BY Constants DEF Inv, ServerTyped
<1>7. /\ list' \in ListState /\ list'.state = "answered" /\ list'.inst = instance
      /\ list'.rev = revision /\ list'.snaps = snaps
      /\ list'.missing = list.tracked \ DOMAIN tasks
  BY <1>1, <1>2, <1>4, <1>5, <1>6 DEF ListState
<1>8. PluginTyped' /\ ServerTyped' /\ StreamNow'
  BY <1>1, <1>7, Steady
     DEF Inv, PluginTyped, serverVars, streamVars, ServerTyped, StreamNow, EventNow
<1>9. \A t \in Tasks, s \in Snap : Carried(t, s)' => Carried(t, s)
  BY <1>1 DEF Carried, InStream, streamVars
<1>10. \A t \in Tasks, j \in Instances, q \in Revisions :
           Dead(t, j, q)' => \/ Dead(t, j, q)
                             \/ /\ t \in 1..created' /\ t \notin DOMAIN tasks'
                                /\ j = instance /\ revision <= q /\ q <= revision'
  BY <1>1, <1>5, <1>6, <1>7 DEF Dead, DeadInStream, streamVars, serverVars
<1>11. Evolved(client, client', instance, Requests) /\ client' = client
  BY <1>1, Still DEF Inv
<1>12. /\ DOMAIN list'.snaps \subseteq DOMAIN tasks'
       /\ \A t \in DOMAIN list'.snaps : list'.snaps[t].inst = instance
       /\ list'.rev = revision' /\ op' = op /\ buried' = buried
  BY <1>1, <1>2, <1>3, <1>4, <1>7 DEF serverVars
<1>13. op.state = "answered" => "op" \in Requests
  BY Constants
<1>14. list' # list
  BY <1>1, <1>7
<1>15. /\ instance' = instance /\ revision <= revision' /\ created <= created'
       /\ DOMAIN tasks' \subseteq DOMAIN tasks \cup (created + 1)..created'
  BY <1>1, Steady
<1> QED  BY <1>7, <1>8, <1>9, <1>10, <1>11, <1>12, <1>13, <1>14, <1>15, ServerMoves

LEMMA ConnectKeeps == Inv /\ Connect => Inv'
<1> SUFFICES ASSUME Inv, Connect PROVE Inv'
  OBVIOUS
<1> DEFINE alive == {t \in DOMAIN tasks : Live(tasks[t])}
           Event1(t) == TaskEvent(t, tasks[t], tasks[t].rev)
           open == [type |-> "open"]
<1>1. PICK live \in InOrder(alive) :
          stream' = <<open>> \o [n \in DOMAIN live |-> Event1(live[n])]
  BY DEF Connect
<1> DEFINE events == [n \in DOMAIN live |-> Event1(live[n])]
<1>2. live \in [1..Cardinality(alive) -> alive] /\ DOMAIN live = 1..Cardinality(alive)
  BY DEF InOrder
<1>0. alive \in SUBSET DOMAIN tasks
  OBVIOUS
<1> HIDE DEF alive
<1>3. Cardinality(alive) \in Nat
  BY <1>0, TasksFinite, FS_Subset, FS_CardinalityType
<1>4. ASSUME NEW t \in DOMAIN tasks
      PROVE  /\ Event1(t) \in Event /\ Event1(t).type = "task" /\ Event1(t).task = t
             /\ Event1(t).snap.inst = instance /\ Event1(t).snap.rev \in 1..revision
  <2>1. /\ t \in Tasks /\ tasks[t].rev \in 1..revision /\ tasks[t] \in Record
        /\ instance \in Instances
    BY RecordFacts DEF Inv, ServerTyped
  <2> QED  BY <2>1 DEF TaskEvent, Event, Snap, Record
<1> HIDE DEF Event1
<1>5. /\ events \in Seq(Event) /\ DOMAIN events = DOMAIN live
      /\ \A n \in DOMAIN events : events[n] = Event1(live[n]) /\ live[n] \in DOMAIN tasks
  <2>1. \A n \in DOMAIN live : live[n] \in DOMAIN tasks
    BY <1>0, <1>2
  <2>2. events \in [1..Cardinality(alive) -> Event]
    BY <1>2, <1>4, <2>1
  <2> QED  BY <1>2, <1>3, <2>1, <2>2
<1> HIDE DEF events
<1>6. open \in Event /\ <<open>> \in Seq(Event) /\ open.type = "open"
  BY DEF Event
<1> HIDE DEF open
<1>7. /\ stream' \in Seq(Event)
      /\ \A n \in DOMAIN stream' :
             stream'[n] = open \/ \E m \in DOMAIN events : stream'[n] = events[m]
  <2> DEFINE first == <<open>>
  <2>1. first \in Seq(Event) /\ Len(first) = 1 /\ \A n \in DOMAIN first : first[n] = open
    BY <1>6
  <2> HIDE DEF first
  <2>2. /\ first \o events \in Seq(Event)
        /\ \A n \in DOMAIN (first \o events) :
               \/ n \in DOMAIN first /\ (first \o events)[n] = first[n]
               \/ /\ n - Len(first) \in DOMAIN events
                  /\ (first \o events)[n] = events[n - Len(first)]
    <3>1. first \in Seq(Event) /\ events \in Seq(Event)
      BY <1>5, <2>1
    <3> QED  BY <3>1
  <2> QED  BY <1>1, <2>1, <2>2 DEF first, events
<1>8. /\ UNCHANGED <<serverVars, client, page, requestVars, faults, settled, buried>>
      /\ connected' = TRUE
  BY DEF Connect
<1>9. ServerTyped' /\ PluginTyped'
  BY <1>7, <1>8, Steady DEF Inv, PluginTyped, requestVars
<1>10. instance' = instance
  BY <1>8, Steady
<1>11. \A n \in DOMAIN events : events[n].type = "task" /\ events[n].snap.inst = instance
  BY <1>4, <1>5
<1>12. StreamNow'
  BY <1>6, <1>7, <1>10, <1>11 DEF StreamNow, EventNow
<1>13. \A t \in Tasks, s \in Snap :
           Carried(t, s)' => \/ Carried(t, s)
                             \/ t \in DOMAIN tasks' /\ s.inst = instance /\ s.rev <= revision'
  <2> SUFFICES ASSUME NEW t \in Tasks, NEW s \in Snap, Carried(t, s)'
               PROVE  \/ Carried(t, s)
                      \/ t \in DOMAIN tasks' /\ s.inst = instance /\ s.rev <= revision'
    OBVIOUS
  <2>1. CASE ~InStream(t, s)'
    BY <1>8, <2>1 DEF Carried, requestVars
  <2>2. CASE InStream(t, s)'
    <3>1. PICK n \in DOMAIN events : events[n].task = t /\ events[n].snap = s
      BY <1>6, <1>7, <2>2 DEF InStream
    <3>2. live[n] = t /\ t \in DOMAIN tasks /\ s.inst = instance /\ s.rev \in 1..revision
      BY <1>4, <1>5, <3>1
    <3> QED  BY <1>8, <3>2 DEF serverVars
  <2> QED  BY <2>1, <2>2
<1>14. \A t \in Tasks, j \in Instances, q \in Revisions : Dead(t, j, q)' => Dead(t, j, q)
  BY <1>6, <1>7, <1>8, <1>11 DEF Dead, DeadInStream, requestVars
<1>15. /\ Evolved(client, client', instance, Requests) /\ client' = client
       /\ list' = list /\ op' = op /\ buried' = buried
  BY <1>8, Still DEF Inv, requestVars
<1>16. /\ list.state = "answered" => "list" \in Requests
       /\ op.state = "answered" => "op" \in Requests
  BY Constants
<1>17. /\ instance' = instance /\ revision <= revision' /\ created <= created'
       /\ DOMAIN tasks' \subseteq DOMAIN tasks \cup (created + 1)..created'
  BY <1>8, Steady
<1> QED  BY <1>9, <1>12, <1>13, <1>14, <1>15, <1>16, <1>17, ServerMoves

LEMMA RefusedKeeps ==
    ASSUME Inv, Refused, submission' \in Tasks \cup {None}, faults' \in 0..MaxFaults,
           UNCHANGED <<serverVars, streamVars, page, list, again, settled, buried>>
    PROVE  Inv'
<1>1. /\ op' = Idle /\ client' = Over(client, "op") /\ list' = list /\ buried' = buried
      /\ stream' = stream /\ connected' = connected
  BY DEF Refused, streamVars
<1>2. /\ Evolved(client, client', instance, Requests) /\ client'.mirror = client.mirror
  BY <1>1, OverEvolves, Constants DEF Inv
<1>3. PluginTyped'
  BY <1>1 DEF Inv, PluginTyped, OpState
<1>4. op'.state = "idle"
  BY <1>1 DEF Idle
<1>5. /\ connected' \in BOOLEAN /\ stream' \in Seq(Event) /\ StreamNow'
      /\ UNCHANGED serverVars
  BY <1>1 DEF Inv, ServerTyped, StreamNow, EventNow, serverVars
<1>6. /\ \A t \in Tasks, s \in Snap : Carried(t, s)' => Carried(t, s)
      /\ \A t \in Tasks, j \in Instances, q \in Revisions : Dead(t, j, q)' => Dead(t, j, q)
  BY <1>1, <1>4 DEF Carried, InStream, Dead, DeadInStream
<1>7. /\ instance \in Instances /\ instance <= instance
      /\ list.state = "answered" => "list" \in Requests
  BY Constants DEF Inv, ServerTyped
<1>8. /\ DOMAIN client'.mirror \subseteq 1..created
      /\ buried' \cap DOMAIN client'.mirror = {}
      /\ buried' \ buried = {}
  BY <1>1, <1>2 DEF Inv, Ages, Buried
<1> QED  BY <1>1, <1>2, <1>3, <1>4, <1>5, <1>6, <1>7, <1>8, PluginMoves

(* An answer about a task as it is.                                        *)
LEMMA AnsweredKeeps ==
    ASSUME Inv, NEW t \in DOMAIN tasks, op.kind \in {"submit", "retry"},
           Answer(t, Snapshot(tasks[t])),
           UNCHANGED <<serverVars, streamVars, client, page, list, again, submission, faults,
                       settled, buried>>
    PROVE  Inv'
<1>1. /\ t \in Tasks /\ Snapshot(tasks[t]) \in Snap /\ Snapshot(tasks[t]).inst = instance
      /\ Snapshot(tasks[t]).rev = tasks[t].rev /\ tasks[t].rev \in 1..revision
  BY RecordFacts
<1>2. /\ op' \in OpState /\ op'.state = "answered" /\ op'.kind \in {"submit", "retry"}
      /\ op'.task = t /\ op'.snap = Snapshot(tasks[t])
  BY <1>1 DEF Answer, OpState
<1>3. PluginTyped' /\ ServerTyped' /\ StreamNow'
  BY <1>2, Steady DEF Inv, PluginTyped, ServerTyped, streamVars, StreamNow, EventNow, serverVars
<1>4. \A u \in Tasks, s \in Snap :
          Carried(u, s)' => \/ Carried(u, s)
                            \/ u \in DOMAIN tasks' /\ s.inst = instance /\ s.rev <= revision'
  <2> SUFFICES ASSUME NEW u \in Tasks, NEW s \in Snap, Carried(u, s)'
               PROVE  \/ Carried(u, s)
                      \/ u \in DOMAIN tasks' /\ s.inst = instance /\ s.rev <= revision'
    OBVIOUS
  <2>1. CASE InStream(u, s)'
    BY <2>1 DEF Carried, InStream, streamVars
  <2>2. CASE ~InStream(u, s)'
    <3>1. u = t /\ s = Snapshot(tasks[t])
      BY <1>2, <2>2 DEF Carried
    <3> QED  BY <1>1, <3>1 DEF serverVars
  <2> QED  BY <2>1, <2>2
<1>5. \A u \in Tasks, j \in Instances, q \in Revisions : Dead(u, j, q)' => Dead(u, j, q)
  BY <1>2 DEF Dead, DeadInStream, streamVars
<1>6. AnswerOf' = instance
  BY <1>1, <1>2 DEF AnswerOf
<1>7. /\ Evolved(client, client', instance, Requests) /\ client' = client
      /\ list' = list /\ buried' = buried
  BY Still DEF Inv
<1>8. /\ list.state = "answered" => "list" \in Requests
      /\ op.state = "answered" => "op" \in Requests
  BY Constants
<1>9. /\ instance' = instance /\ revision <= revision' /\ created <= created'
      /\ DOMAIN tasks' \subseteq DOMAIN tasks \cup (created + 1)..created'
  BY Steady
<1> QED  BY <1>3, <1>4, <1>5, <1>6, <1>7, <1>8, <1>9, ServerMoves

(* An answer about a task that was changed.                                *)
LEMMA ChangedSnap ==
    ASSUME Inv, NEW record \in Record, revision < MaxRevision
    PROVE  LET s == [Snapshot(record) EXCEPT !.rev = revision + 1]
           IN s \in Snap /\ s.inst = instance /\ s.rev = revision + 1
<1>1. instance \in Instances /\ revision + 1 \in Revisions
  BY Constants DEF Inv, ServerTyped, Revisions
<1> QED  BY <1>1 DEF Snapshot, Snap, Record

LEMMA SubmitServedKeeps == Inv /\ SubmitServed => Inv'
<1> SUFFICES ASSUME Inv, SubmitServed PROVE Inv'
  OBVIOUS
<1>1. /\ op.state = "asked" /\ op.kind = "submit"
      /\ UNCHANGED <<instance, page, list, again, faults, settled, buried>>
      /\ faults' \in 0..MaxFaults
  BY DEF SubmitServed, Inv, PluginTyped
<1>2. CASE /\ submission = None /\ created < MaxTasks
           /\ created' = created + 1 /\ submission' = created + 1
           /\ Changed(created + 1, NewTask)
           /\ Answer(created + 1, [Snapshot(NewTask) EXCEPT !.rev = revision + 1])
           /\ UNCHANGED client
  <2> DEFINE s == [Snapshot(NewTask) EXCEPT !.rev = revision + 1]
  <2>1. NewTask \in Record /\ created + 1 \in Tasks
    BY <1>2, NewTaskFacts
  <2>2. s \in Snap /\ s.inst = instance /\ s.rev = revision + 1
    BY <1>2, <2>1, ChangedSnap DEF Changed
  <2>3. Answer(created + 1, s)
    BY <1>2
  <2> HIDE DEF s
  <2>4. /\ op' \in OpState /\ op'.state = "answered" /\ op'.kind \in {"submit", "retry"}
        /\ op'.task = created + 1 /\ op'.snap.inst = instance /\ op'.snap.rev = revision + 1
    BY <1>1, <2>1, <2>2, <2>3 DEF Answer, OpState
  <2> QED  BY <1>1, <1>2, <2>1, <2>4, ChangeKeeps
<1>3. CASE /\ submission \in DOMAIN tasks
           /\ Answer(submission, Snapshot(tasks[submission]))
           /\ UNCHANGED <<revision, created, tasks, streamVars, submission, client>>
  <2>1. UNCHANGED <<serverVars, streamVars, client, page, list, again, submission, faults,
                    settled, buried>>
    BY <1>1, <1>3 DEF serverVars
  <2> QED  BY <1>1, <1>3, <2>1, AnsweredKeeps
<1>4. CASE /\ Refused /\ submission' = None
           /\ UNCHANGED <<revision, created, tasks, streamVars>>
  <2>1. UNCHANGED <<serverVars, streamVars, page, list, again, settled, buried>>
    BY <1>1, <1>4 DEF serverVars
  <2> QED  BY <1>1, <1>4, <2>1, RefusedKeeps
<1> QED  BY <1>2, <1>3, <1>4 DEF SubmitServed

LEMMA RetryServedKeeps == Inv /\ RetryServed => Inv'
<1> SUFFICES ASSUME Inv, RetryServed PROVE Inv'
  OBVIOUS
<1> DEFINE record == tasks[op.task]
           next == IF op.of = "paused" THEN Resumed(record) ELSE NextAttempt(record)
<1>1. /\ op.state = "asked" /\ op.kind = "retry"
      /\ UNCHANGED <<instance, created, page, list, again, submission, faults, settled, buried>>
      /\ faults' \in 0..MaxFaults /\ submission' \in Tasks \cup {None}
  BY DEF RetryServed, Inv, PluginTyped
<1>2. CASE /\ op.task \in DOMAIN tasks /\ Changed(op.task, next)
           /\ Answer(op.task, [Snapshot(next) EXCEPT !.rev = revision + 1])
           /\ UNCHANGED client
  <2> DEFINE s == [Snapshot(next) EXCEPT !.rev = revision + 1]
  <2>1. next \in Record /\ op.task \in Tasks
    BY <1>2, RecordFacts
  <2> HIDE DEF next
  <2>2. s \in Snap /\ s.inst = instance /\ s.rev = revision + 1
    BY <1>2, <2>1, ChangedSnap DEF Changed
  <2>3. Answer(op.task, s)
    BY <1>2
  <2> HIDE DEF s
  <2>4. /\ op' \in OpState /\ op'.state = "answered" /\ op'.kind \in {"submit", "retry"}
        /\ op'.task = op.task /\ op'.snap.inst = instance /\ op'.snap.rev = revision + 1
    BY <1>1, <2>1, <2>2, <2>3 DEF Answer, OpState
  <2> QED  BY <1>1, <1>2, <2>1, <2>4, ChangeKeeps
<1>3. CASE /\ op.task \in DOMAIN tasks /\ Answer(op.task, Snapshot(record))
           /\ UNCHANGED <<revision, tasks, streamVars, client>>
  <2>1. UNCHANGED <<serverVars, streamVars, client, page, list, again, submission, faults,
                    settled, buried>>
    BY <1>1, <1>3 DEF serverVars
  <2> QED  BY <1>1, <1>3, <2>1, AnsweredKeeps
<1>4. CASE Refused /\ UNCHANGED <<revision, tasks, streamVars>>
  <2>1. UNCHANGED <<serverVars, streamVars, page, list, again, settled, buried>>
    BY <1>1, <1>4 DEF serverVars
  <2> QED  BY <1>1, <1>4, <2>1, RefusedKeeps
<1> QED  BY <1>2, <1>3, <1>4 DEF RetryServed

LEMMA DeleteServedKeeps == Inv /\ DeleteServed => Inv'
<1> SUFFICES ASSUME Inv, DeleteServed PROVE Inv'
  OBVIOUS
<1>1. /\ UNCHANGED <<instance, created, page, list, again, submission, faults, settled, buried>>
      /\ faults' \in 0..MaxFaults /\ submission' \in Tasks \cup {None}
  BY DEF DeleteServed, Inv, PluginTyped
<1>2. CASE /\ op.task \in DOMAIN tasks /\ Deleted(op.task)
           /\ op' = [state |-> "answered", kind |-> "delete", task |-> op.task,
                     inst |-> instance, rev |-> revision + 1]
           /\ UNCHANGED client
  <2>1. UNCHANGED <<instance, created, client, page, faults, settled, buried,
                    list, again, submission>>
    BY <1>1, <1>2
  <2> QED  BY <1>2, <2>1, DeletionKeeps
<1>3. CASE Refused /\ UNCHANGED <<revision, tasks, streamVars>>
  <2>1. UNCHANGED <<serverVars, streamVars, page, list, again, settled, buried>>
    BY <1>1, <1>3 DEF serverVars
  <2> QED  BY <1>1, <1>3, <2>1, RefusedKeeps
<1> QED  BY <1>2, <1>3 DEF DeleteServed

LEMMA ClearServedKeeps == Inv /\ ClearServed => Inv'
<1> SUFFICES ASSUME Inv, ClearServed PROVE Inv'
  OBVIOUS
<1> DEFINE failed == {t \in DOMAIN tasks : tasks[t].status = "failed"}
<1>1. /\ op.state = "asked" /\ op.kind = "clear" /\ op' = [op EXCEPT !.state = "answered"]
      /\ revision + Cardinality(failed) <= MaxRevision
      /\ revision' = revision + Cardinality(failed)
      /\ tasks' = Restrict(tasks, DOMAIN tasks \ failed)
      /\ UNCHANGED <<instance, created, client, page, list, again, submission, faults,
                     settled, buried>>
  BY DEF ClearServed
<1>2. PICK victims \in InOrder(failed) :
          Publish([n \in DOMAIN victims |-> DeletedEvent(victims[n], revision + n)])
  BY DEF ClearServed
<1> DEFINE events == [n \in DOMAIN victims |-> DeletedEvent(victims[n], revision + n)]
<1>3. failed \in SUBSET DOMAIN tasks
  OBVIOUS
<1>4. Cardinality(failed) \in Nat
  BY <1>3, TasksFinite, FS_Subset, FS_CardinalityType
<1>5. victims \in [1..Cardinality(failed) -> failed] /\ DOMAIN victims = 1..Cardinality(failed)
  BY <1>2 DEF InOrder
<1> HIDE DEF failed
<1>6. /\ revision \in Nat /\ revision' \in Nat /\ revision <= revision'
      /\ revision' \in Revisions /\ instance \in Instances
  <2>1. revision \in Nat /\ instance \in Instances
    BY Constants DEF Inv, ServerTyped
  <2> QED  BY <1>1, <1>4, <2>1, Constants DEF Revisions
<1>7. ASSUME NEW n \in DOMAIN victims
      PROVE  LET e == DeletedEvent(victims[n], revision + n)
             IN /\ e \in Event /\ e.type = "deleted" /\ e.task \in failed
                /\ e.inst = instance /\ e.rev \in revision..revision'
  <2>1. victims[n] \in failed /\ victims[n] \in Tasks
    BY <1>3, <1>5, RecordFacts
  <2>2. revision + n \in revision..revision' /\ revision + n \in Revisions
    BY <1>1, <1>4, <1>5, <1>6, Constants DEF Revisions
  <2> QED  BY <1>6, <2>1, <2>2 DEF DeletedEvent, Event
<1>8. /\ events \in Seq(Event)
      /\ \A n \in DOMAIN events :
             /\ events[n].type = "deleted" /\ events[n].task \in failed
             /\ events[n].inst = instance /\ events[n].rev \in revision..revision'
  <2>1. events \in [1..Cardinality(failed) -> Event]
    BY <1>5, <1>7
  <2> QED  BY <1>4, <1>7, <2>1
<1>9. Publish(events)
  BY <1>2
<1> HIDE DEF events
<1>10. /\ ServerTyped' /\ StreamNow' /\ DOMAIN tasks' = DOMAIN tasks \ failed
       /\ \A u, s : InStream(u, s)' => InStream(u, s)
       /\ \A u, j, q : DeadInStream(u, j, q)' =>
              \/ DeadInStream(u, j, q)
              \/ u \in failed /\ j = instance /\ q \in revision..revision'
  BY <1>1, <1>3, <1>6, <1>8, <1>9, DeletionFacts
<1>11. op' \in OpState /\ op'.state = "answered" /\ op'.kind = "clear"
  BY <1>1 DEF Inv, PluginTyped, OpState, Idle
<1>12. PluginTyped'
  BY <1>1, <1>11 DEF Inv, PluginTyped
<1>13. \A u \in Tasks, s \in Snap : Carried(u, s)' => Carried(u, s)
  BY <1>10, <1>11 DEF Carried
<1>14. \A u \in Tasks, j \in Instances, q \in Revisions :
           Dead(u, j, q)' => \/ Dead(u, j, q)
                             \/ /\ u \in 1..created' /\ u \notin DOMAIN tasks'
                                /\ j = instance /\ revision <= q /\ q <= revision'
  <2>1. \A u \in failed : u \in 1..created' /\ u \notin DOMAIN tasks'
    BY <1>1, <1>3, <1>10, RecordFacts
  <2> QED  BY <1>1, <1>6, <1>10, <1>11, <2>1, Constants DEF Dead
<1>15. /\ Evolved(client, client', instance, Requests) /\ client' = client
       /\ list' = list /\ buried' = buried /\ instance' = instance
  BY <1>1, Still DEF Inv
<1>16. /\ list.state = "answered" => "list" \in Requests
       /\ op.state = "answered" => "op" \in Requests
  BY Constants
<1>17. /\ revision <= revision' /\ created <= created'
       /\ DOMAIN tasks' \subseteq DOMAIN tasks \cup (created + 1)..created'
  <2>1. created' = created /\ created \in Nat
    BY <1>1, Constants DEF Inv, ServerTyped
  <2> QED  BY <1>6, <1>10, <2>1
<1> QED  BY <1>10, <1>11, <1>12, <1>13, <1>14, <1>15, <1>16, <1>17, ServerMoves

-----------------------------------------------------------------------------
(* The steps of the plugin. Besides the invariant: what it says of a task  *)
(* does not go back, and no binding of a task that is there is lost.       *)

Keeps == Inv' /\ Onward(client, client') /\ Unbound \cap DOMAIN tasks = {}

LEMMA Fewer ==
    ASSUME NEW c, NEW d, NEW j, NEW Q, NEW P \in SUBSET Q, Evolved(c, d, j, Q)
    PROVE  Evolved(c, d, j, P)
BY DEF Evolved

LEMMA StillBound ==
    ASSUME Inv, DOMAIN client.mirror \subseteq DOMAIN client'.mirror
    PROVE  Unbound \cap DOMAIN tasks = {}
BY DEF Unbound

(* The request for the list that follows.                                  *)
LEMMA Turning ==
    ASSUME Inv, NEW c, NEW j \in Nat, Evolved(client, c, j, Requests), page' \subseteq Tasks,
           DOMAIN c.mirror \subseteq 1..created, NEW wanted \in BOOLEAN,
           Refresh(c) \/ EndRefresh(c, wanted)
    PROVE  /\ list' \in ListState /\ again' \in BOOLEAN
           /\ \/ list' = list
              \/ list' = Idle
              \/ list'.state = "asked" /\ list'.tracked \subseteq 1..created
           /\ client'.mirror = c.mirror
           /\ \E Q \in SUBSET Requests :
                  /\ Evolved(client, client', j, Q) /\ "op" \in Q
                  /\ Refresh(c) /\ list' = list /\ list.state = "answered" => "list" \in Q
           /\ Refresh(c) /\ list' = list /\ list.state = "answered" => client' = c
           /\ \A t \in Tasks, i \in Instances, r \in Revisions :
                  Buries(c, t, i, r) => Buries(client', t, i, r)
<1> DEFINE Q == {"op"}
<1>1. Proper(c) /\ Proper(client) /\ Q \in SUBSET Requests /\ "list" \in Requests
  BY Constants DEF Evolved, Inv
<1>2. Requests \ {"list"} = Q /\ again \in BOOLEAN /\ list \in ListState
  BY Constants DEF Inv, PluginTyped
<1>3. CASE Ask(c)
  <2>1. /\ list' = [state |-> "asked", tracked |-> Tracked(c, page')]
        /\ client' = Asking(c, "list") /\ again' = FALSE
    BY <1>3 DEF Ask
  <2>2. Tracked(c, page') \subseteq 1..created /\ Tracked(c, page') \subseteq Tasks
    BY <1>1, EntryFields DEF Tracked, Proper
  <2>3. list' \in ListState /\ list'.state = "asked" /\ list'.tracked \subseteq 1..created
    BY <2>1, <2>2 DEF ListState
  <2>4. Evolved(c, client', j, Q) /\ client'.mirror = c.mirror
    BY <1>1, <1>2, <2>1, AskingEvolves
  <2>5. Evolved(client, client', j, Q)
    BY <1>1, <2>4, Fewer, EvolvedTwice
  <2>6. \A t \in Tasks, i \in Instances, r \in Revisions :
            Buries(c, t, i, r) => Buries(client', t, i, r)
    BY <2>4 DEF Evolved
  <2>7. list' = list => list.state # "answered"
    BY <2>3
  <2> QED  BY <1>1, <2>1, <2>3, <2>4, <2>5, <2>6, <2>7
<1>4. CASE Refresh(c) /\ list' = list /\ client' = c /\ again' = TRUE
  <2>1. "op" \in Requests
    BY Constants
  <2> QED  BY <1>1, <1>2, <1>4, <2>1
<1>5. CASE ~Refresh(c) /\ list' = Idle /\ client' = Over(c, "list") /\ again' = again
  <2>1. Evolved(c, client', j, Requests) /\ client'.mirror = c.mirror
    BY <1>1, <1>5, OverEvolves
  <2>2. Evolved(client, client', j, Requests)
    BY <1>1, <2>1, EvolvedTwice
  <2>3. list' \in ListState /\ "op" \in Requests
    BY <1>5, Constants DEF ListState
  <2>4. \A t \in Tasks, i \in Instances, r \in Revisions :
            Buries(c, t, i, r) => Buries(client', t, i, r)
    BY <2>1 DEF Evolved
  <2> QED  BY <1>2, <1>5, <2>1, <2>2, <2>3, <2>4
<1>6. CASE Refresh(c)
  BY <1>3, <1>4, <1>6 DEF Refresh
<1> QED  BY <1>3, <1>5, <1>6 DEF EndRefresh

LEMMA OnlyTheList ==
    ASSUME Inv, NEW j \in Instances, j <= instance, NEW c, Evolved(client, c, j, Requests),
           c.mirror = client.mirror, NEW wanted \in BOOLEAN,
           \/ list.state = "idle" /\ Refresh(c)
           \/ EndRefresh(c, wanted),
           UNCHANGED <<serverVars, streamVars, page, op, submission, settled, buried>>,
           faults' \in 0..MaxFaults
    PROVE  Keeps
<1>1. j \in Nat /\ page' \subseteq Tasks
  BY Constants DEF Inv, ServerTyped, PluginTyped
<1>2. DOMAIN c.mirror \subseteq 1..created
  BY DEF Inv, Ages
<1>3. /\ list' \in ListState /\ again' \in BOOLEAN
      /\ \/ list' = list
         \/ list' = Idle
         \/ list'.state = "asked" /\ list'.tracked \subseteq 1..created
      /\ client'.mirror = c.mirror
      /\ \E Q \in SUBSET Requests : Evolved(client, client', j, Q) /\ "op" \in Q
  BY <1>1, <1>2, Turning
<1>4. PICK Q \in SUBSET Requests : Evolved(client, client', j, Q) /\ "op" \in Q
  BY <1>3
<1>5. list' = list => list.state # "answered"
  <2>1. CASE list.state = "idle"
    BY <2>1
  <2>2. CASE EndRefresh(c, wanted)
    BY <2>2 DEF EndRefresh, Ask, Idle
  <2> QED  BY <2>1, <2>2
<1>6. list'.state # "answered"
  BY <1>3, <1>5 DEF Idle
<1>7. PluginTyped'
  BY <1>3 DEF Inv, PluginTyped
<1>8. /\ connected' \in BOOLEAN /\ stream' \in Seq(Event) /\ StreamNow'
      /\ UNCHANGED serverVars
  BY DEF Inv, ServerTyped, StreamNow, EventNow, serverVars, streamVars
<1>9. /\ \A t \in Tasks, s \in Snap : Carried(t, s)' => Carried(t, s)
      /\ \A t \in Tasks, k \in Instances, q \in Revisions : Dead(t, k, q)' => Dead(t, k, q)
  BY <1>6 DEF Carried, InStream, Dead, DeadInStream, streamVars
<1>10. /\ DOMAIN client'.mirror \subseteq 1..created
       /\ buried' \cap DOMAIN client'.mirror = {} /\ buried' \ buried = {}
  BY <1>3 DEF Inv, Ages, Buried
<1>11. Inv'
  BY <1>1, <1>3, <1>4, <1>5, <1>7, <1>8, <1>9, <1>10, PluginMoves
<1>12. Onward(client, client')
  BY <1>4 DEF Evolved
<1> QED  BY <1>3, <1>11, <1>12, StillBound DEF Keeps

LEMMA PollKeeps == Inv /\ Poll => Keeps
<1> SUFFICES ASSUME Inv, Poll PROVE Keeps
  OBVIOUS
<1>1. list = Idle /\ Ask(client) /\ list.state = "idle"
  BY DEF Poll, Idle
<1>2. Refresh(client)
  BY <1>1 DEF Refresh
<1>3. Evolved(client, client, instance, Requests) /\ instance \in Instances /\ instance <= instance
  BY Still, Constants DEF Inv, ServerTyped
<1>4. /\ UNCHANGED <<serverVars, streamVars, page, op, submission, settled, buried>>
      /\ faults' \in 0..MaxFaults
  BY DEF Poll, Inv, PluginTyped
<1> QED  BY <1>1, <1>2, <1>3, <1>4, OnlyTheList

LEMMA LoseListKeeps == Inv /\ LoseList => Keeps
<1> SUFFICES ASSUME Inv, LoseList PROVE Keeps
  OBVIOUS
<1>1. EndRefresh(client, again) /\ again \in BOOLEAN
  BY DEF LoseList, Inv, PluginTyped
<1>2. Evolved(client, client, instance, Requests) /\ instance \in Instances /\ instance <= instance
  BY Still, Constants DEF Inv, ServerTyped
<1>3. /\ UNCHANGED <<serverVars, streamVars, page, op, submission, settled, buried>>
      /\ faults' \in 0..MaxFaults
  BY Constants DEF LoseList, Inv, PluginTyped
<1> QED  BY <1>1, <1>2, <1>3, OnlyTheList

LEMMA ListedFacts ==
    ASSUME Inv, list.state = "answered"
    PROVE  /\ list.inst \in Instances /\ list.rev \in Revisions /\ list.snaps \in Partial(Snap)
           /\ list.visible \subseteq Tasks /\ list.missing \subseteq Tasks
           /\ DOMAIN list.snaps \subseteq 1..created
           /\ \A t \in DOMAIN list.snaps : list.snaps[t].inst = list.inst
           /\ list.inst \in Nat /\ instance \in Nat /\ list.inst <= instance
           /\ \A t \in list.missing :
                  /\ t \in Tasks /\ t \in 1..created /\ t \notin DOMAIN tasks
                  /\ \A s \in Snap :
                         Carried(t, s) => Precedes(s.inst, s.rev, list.inst, list.rev)
<1>1. /\ list.inst \in Instances /\ list.rev \in Revisions /\ list.snaps \in Partial(Snap)
      /\ list.visible \subseteq Tasks /\ list.missing \subseteq Tasks
  BY DEF Inv, PluginTyped, ListState, Idle
<1>2. list.inst \in Nat /\ instance \in Nat
  BY <1>1, Constants DEF Inv, ServerTyped
<1>3. /\ Precedes(list.inst, list.rev, instance, revision)
      /\ \A t \in DOMAIN list.snaps : list.snaps[t].inst = list.inst /\ t \in 1..created
  BY DEF Inv, Listed
<1>4. \A t \in list.missing : Dead(t, list.inst, list.rev)
  BY DEF Dead
<1> QED  BY <1>1, <1>2, <1>3, <1>4 DEF Inv, Gone, Precedes

LEMMA ListAppliedKeeps == Inv /\ ListApplied => Keeps
<1> SUFFICES ASSUME Inv, ListApplied PROVE Keeps
  OBVIOUS
<1>1. /\ list.state = "answered" /\ again \in BOOLEAN /\ Proper(client)
      /\ UNCHANGED <<serverVars, streamVars, op, submission, faults>>
      /\ faults' \in 0..MaxFaults
  BY DEF ListApplied, Inv, PluginTyped
<1>2. /\ list.inst \in Instances /\ list.rev \in Revisions /\ list.snaps \in Partial(Snap)
      /\ list.visible \subseteq Tasks /\ list.missing \subseteq Tasks
      /\ DOMAIN list.snaps \subseteq 1..created
      /\ \A t \in DOMAIN list.snaps : list.snaps[t].inst = list.inst
      /\ list.inst \in Nat /\ instance \in Nat /\ list.inst <= instance
      /\ \A t \in list.missing :
             /\ t \in Tasks /\ t \in 1..created /\ t \notin DOMAIN tasks
             /\ \A s \in Snap :
                    Carried(t, s) => Precedes(s.inst, s.rev, list.inst, list.rev)
  BY <1>1, ListedFacts
<1>3. ASSUME NEW wanted \in BOOLEAN, UNCHANGED <<page, settled, buried>>,
             EndRefresh(client, wanted)
      PROVE  Keeps
  <2>1. /\ Evolved(client, client, instance, Requests)
        /\ instance \in Instances /\ instance <= instance
    BY <1>2, Still DEF Inv, ServerTyped
  <2> QED  BY <1>1, <1>3, <2>1, OnlyTheList
<1> DEFINE c == Accepted(client, list.inst)
<1>4. CASE ~Void(client, "list")
  <2>1. UpTo(client, list.inst)
    BY <1>1, <1>4 DEF Inv, Listed, Void
  <2>2. /\ Evolved(client, c, list.inst, Requests) /\ c.mirror = client.mirror
        /\ c.known = list.inst /\ c.touched = client.touched
    BY <1>1, <1>2, <2>1, AcceptedEvolves
  <2>3. Proper(c) /\ c \in Client
    BY <2>2 DEF Evolved, Proper
  <2>4. ASSUME UNCHANGED <<page, settled, buried>>, EndRefresh(c, again)
        PROVE  Keeps
    BY <1>1, <1>2, <2>2, <2>4, OnlyTheList
  <2> DEFINE gone == Missing(WithSnapshots(c, list.snaps), list)
             d == Reconciled(c, list)
  <2>5. CASE /\ ~(list.rev < c.watermark) /\ page' = list.visible
             /\ buried' = buried \cup gone /\ EndRefresh(d, again)
             /\ settled' \in BOOLEAN
    <3> HIDE DEF c, d, gone
    <3>1. list.rev >= c.watermark
      <4>1. c.watermark \in Int /\ list.rev \in Nat
        BY <1>2, <2>3, EntryFields, Constants
      <4> QED  BY <2>5, <4>1
    <3>2. /\ Evolved(c, d, list.inst, Requests)
          /\ \A t \in DOMAIN d.mirror \ DOMAIN c.mirror :
                 t \in DOMAIN list.snaps /\ <<"list", t>> \notin c.touched
          /\ DOMAIN d.mirror \cap gone = {}
          /\ \A t \in DOMAIN c.mirror \ gone : c.mirror[t].bound => t \in DOMAIN d.mirror
          /\ \A t \in Tasks, k \in Instances, q \in Revisions :
                 k < list.inst \/ (k = list.inst /\ q <= list.rev) => Buries(d, t, k, q)
      BY <1>2, <2>2, <2>3, <3>1, ReconciledEvolves DEF d, gone
    <3>3. gone \subseteq list.missing
      BY DEF gone, Missing
    <3>4. Evolved(client, d, list.inst, Requests)
      BY <1>1, <1>2, <2>2, <3>2, EvolvedTwice
    <3>5. DOMAIN d.mirror \subseteq 1..created
      BY <1>2, <2>2, <3>2 DEF Inv, Ages
    <3>6. /\ list' \in ListState /\ again' \in BOOLEAN
          /\ \/ list' = list
             \/ list' = Idle
             \/ list'.state = "asked" /\ list'.tracked \subseteq 1..created
          /\ client'.mirror = d.mirror
          /\ \E Q \in SUBSET Requests : Evolved(client, client', list.inst, Q) /\ "op" \in Q
          /\ \A t \in Tasks, i \in Instances, r \in Revisions :
                 Buries(d, t, i, r) => Buries(client', t, i, r)
      BY <1>1, <1>2, <2>5, <3>4, <3>5, Turning
    <3>7. PICK Q \in SUBSET Requests : Evolved(client, client', list.inst, Q) /\ "op" \in Q
      BY <3>6
    <3>8. list' # list /\ list'.state # "answered"
      BY <1>1, <2>5 DEF EndRefresh, Ask, Idle
    <3>9. PluginTyped'
      BY <1>1, <1>2, <2>5, <3>3, <3>6 DEF Inv, PluginTyped
    <3>10. /\ connected' \in BOOLEAN /\ stream' \in Seq(Event) /\ StreamNow'
           /\ UNCHANGED serverVars
      BY <1>1 DEF Inv, ServerTyped, StreamNow, EventNow, serverVars, streamVars
    <3>11. /\ \A t \in Tasks, s \in Snap : Carried(t, s)' => Carried(t, s)
           /\ \A t \in Tasks, k \in Instances, q \in Revisions : Dead(t, k, q)' => Dead(t, k, q)
      BY <1>1, <3>8 DEF Carried, InStream, Dead, DeadInStream, streamVars
    <3>12. buried' \cap DOMAIN client'.mirror = {}
      <4> SUFFICES ASSUME NEW t \in DOMAIN d.mirror, t \in buried PROVE FALSE
        BY <2>5, <3>2, <3>6
      <4>1. CASE t \in DOMAIN client.mirror
        BY <4>1 DEF Inv, Buried
      <4>2. CASE t \notin DOMAIN client.mirror
        BY <1>1, <2>2, <3>2, <4>2 DEF Inv, Listed
      <4> QED  BY <4>1, <4>2
    <3>13. ASSUME NEW t \in gone
           PROVE  /\ t \in 1..created /\ t \notin DOMAIN tasks
                  /\ \A s \in Snap : Carried(t, s) => Buries(client', t, s.inst, s.rev)
      <4>1. t \in list.missing /\ t \in Tasks
        BY <1>2, <3>3
      <4>2. ASSUME NEW s \in Snap, Carried(t, s) PROVE Buries(client', t, s.inst, s.rev)
        <5>1. s.inst \in Instances /\ s.rev \in Revisions
          BY DEF Snap
        <5>2. Precedes(s.inst, s.rev, list.inst, list.rev)
          BY <1>2, <4>1, <4>2
        <5>3. Buries(d, t, s.inst, s.rev)
          BY <3>2, <4>1, <5>1, <5>2 DEF Precedes
        <5> QED  BY <3>6, <4>1, <5>1, <5>3
      <4> QED  BY <1>2, <4>1, <4>2
    <3>14. Inv'
      <4>1. \A t \in buried' \ buried : t \in gone
        BY <2>5
      <4>2. buried \subseteq buried'
        BY <2>5
      <4> QED  BY <1>1, <1>2, <3>5, <3>6, <3>7, <3>8, <3>9, <3>10, <3>11, <3>12, <3>13,
                  <4>1, <4>2, PluginMoves
    <3>15. Unbound \cap DOMAIN tasks = {}
      BY <1>2, <2>2, <3>2, <3>3, <3>6 DEF Unbound
    <3> QED  BY <3>7, <3>14, <3>15 DEF Keeps, Evolved
  <2> QED  BY <1>1, <1>3, <1>4, <2>4, <2>5 DEF ListApplied
<1> QED  BY <1>1, <1>3, <1>4 DEF ListApplied

(* The first event of the stream is taken from it.                         *)
LEMMA Reading ==
    ASSUME Inv, stream # <<>>, stream' = Tail(stream)
    PROVE  /\ Head(stream) \in Event /\ EventNow(Head(stream))
           /\ stream' \in Seq(Event) /\ \A n \in DOMAIN stream' : stream'[n] = stream[n + 1]
           /\ \A t, s : InStream(t, s)' => InStream(t, s)
           /\ \A t, j, q : DeadInStream(t, j, q)' => DeadInStream(t, j, q)
           /\ Head(stream).type = "task" => InStream(Head(stream).task, Head(stream).snap)
           /\ Head(stream).type = "deleted" =>
                  DeadInStream(Head(stream).task, Head(stream).inst, Head(stream).rev)
<1>1. stream \in Seq(Event)
  BY DEF Inv, ServerTyped
<1>2. 1 \in DOMAIN stream /\ Head(stream) = stream[1] /\ stream[1] \in Event
  BY <1>1
<1>3. /\ stream' \in Seq(Event)
      /\ \A n \in DOMAIN stream' : n + 1 \in DOMAIN stream /\ stream'[n] = stream[n + 1]
  BY <1>1
<1> QED  BY <1>2, <1>3 DEF InStream, DeadInStream, Inv, StreamNow

(* A snapshot is taken in.                                                 *)
LEMMA TakenIn ==
    ASSUME Inv, NEW t \in Tasks, NEW s \in Snap, Carried(t, s), UpTo(client, s.inst),
           NEW bind \in BOOLEAN
    PROVE  LET d == Upserted(client, t, s, FALSE, bind)
           IN /\ Evolved(client, d, s.inst, Requests)
              /\ s.inst \in Instances /\ s.inst <= instance
              /\ DOMAIN client.mirror \subseteq DOMAIN d.mirror
              /\ DOMAIN d.mirror \subseteq 1..created
              /\ buried \cap DOMAIN d.mirror = {}
<1> DEFINE d == Upserted(client, t, s, FALSE, bind)
<1>1. /\ Evolved(client, d, s.inst, Requests)
      /\ DOMAIN client.mirror \subseteq DOMAIN d.mirror
      /\ DOMAIN d.mirror \subseteq DOMAIN client.mirror \cup {t}
      /\ t \in DOMAIN d.mirror /\ t \notin DOMAIN client.mirror =>
             ~Buries(client, t, s.inst, s.rev)
  BY UpsertedEvolves DEF Inv
<1> HIDE DEF d
<1>2. t \in 1..created /\ Precedes(s.inst, s.rev, instance, revision)
  BY DEF Inv, Told
<1>3. s.inst \in Instances /\ s.inst <= instance
  BY <1>2, Constants DEF Precedes, Snap, Inv, ServerTyped
<1>4. t \in buried => Buries(client, t, s.inst, s.rev)
  BY DEF Inv, Buried
<1> QED  BY <1>1, <1>2, <1>3, <1>4 DEF Inv, Ages, Buried, d

(* Word of a deletion is taken in.                                         *)
LEMMA WordOfDeletion ==
    ASSUME Inv, NEW t \in Tasks, NEW i \in Instances, NEW r \in Revisions, Dead(t, i, r),
           UpTo(client, i)
    PROVE  LET d == Forgotten(client, t, i, r)
           IN /\ Evolved(client, d, i, Requests) /\ i <= instance
              /\ DOMAIN d.mirror \subseteq DOMAIN client.mirror
              /\ DOMAIN client.mirror \ DOMAIN d.mirror \subseteq {t}
              /\ t \in 1..created /\ t \notin DOMAIN tasks
              /\ DeletionIsNews(client, t, i, r) =>
                     /\ t \notin DOMAIN d.mirror /\ <<"list", t>> \in d.touched
                     /\ \A s \in Snap : Carried(t, s) => Buries(d, t, s.inst, s.rev)
<1> DEFINE d == Forgotten(client, t, i, r)
<1>1. /\ Evolved(client, d, i, Requests)
      /\ DOMAIN d.mirror \subseteq DOMAIN client.mirror
      /\ DOMAIN client.mirror \ DOMAIN d.mirror \subseteq {t}
      /\ DeletionIsNews(client, t, i, r) =>
             /\ t \notin DOMAIN d.mirror /\ <<"list", t>> \in d.touched
             /\ \A k \in Instances, q \in Revisions :
                    k < i \/ (k = i /\ q <= r) => Buries(d, t, k, q)
  BY ForgottenEvolves DEF Inv
<1> HIDE DEF d
<1>2. /\ t \in 1..created /\ t \notin DOMAIN tasks
      /\ Precedes(i, r, instance, revision)
      /\ \A s \in Snap : Carried(t, s) => Precedes(s.inst, s.rev, i, r)
  BY DEF Inv, Gone
<1>3. i <= instance
  BY <1>2, Constants DEF Precedes, Inv, ServerTyped
<1>4. \A s \in Snap : s.inst \in Instances /\ s.rev \in Revisions
  BY DEF Snap
<1> QED  BY <1>1, <1>2, <1>3, <1>4 DEF Precedes, d

LEMMA ReceiveKeeps == Inv /\ Receive => Keeps
<1> SUFFICES ASSUME Inv, Receive PROVE Keeps
  OBVIOUS
<1> DEFINE event == Head(stream)
<1>1. /\ stream # <<>> /\ stream' = Tail(stream) /\ page' = page
      /\ UNCHANGED <<serverVars, connected, op, submission, faults>>
  BY DEF Receive
<1>2. /\ event \in Event /\ EventNow(event)
      /\ stream' \in Seq(Event) /\ \A n \in DOMAIN stream' : stream'[n] = stream[n + 1]
      /\ \A t, s : InStream(t, s)' => InStream(t, s)
      /\ \A t, j, q : DeadInStream(t, j, q)' => DeadInStream(t, j, q)
      /\ event.type = "task" => InStream(event.task, event.snap)
      /\ event.type = "deleted" => DeadInStream(event.task, event.inst, event.rev)
  BY <1>1, Reading
<1>3. StreamNow' /\ connected' \in BOOLEAN
  <2>1. \A n \in DOMAIN stream' : n + 1 \in DOMAIN stream
    BY <1>1 DEF Inv, ServerTyped
  <2> QED  BY <1>1, <1>2, <2>1 DEF Inv, ServerTyped, StreamNow, EventNow, serverVars
<1>4. /\ instance \in Instances /\ instance \in Nat /\ instance <= instance
      /\ UpTo(client, instance) /\ Proper(client)
      /\ list.state = "answered" => "list" \in Requests
      /\ "op" \in Requests
  BY Constants DEF Inv, ServerTyped, Ages
<1>5. /\ UNCHANGED serverVars
      /\ \A t \in Tasks, s \in Snap : Carried(t, s)' => Carried(t, s)
  BY <1>1, <1>2 DEF Carried
<1> HIDE DEF event
<1>6. ASSUME list' = list /\ again' = again /\ settled' = settled,
             NEW j \in Instances, j <= instance, Evolved(client, client', j, Requests),
             DOMAIN client'.mirror \subseteq 1..created, buried \subseteq buried',
             buried' \cap DOMAIN client'.mirror = {},
             \A t \in buried' \ buried :
                 /\ t \in 1..created /\ t \notin DOMAIN tasks /\ t \in Tasks
                 /\ <<"list", t>> \in client'.touched
                 /\ \A s \in Snap : Carried(t, s) => Buries(client', t, s.inst, s.rev)
      PROVE  Inv'
  <2>1. PluginTyped'
    BY <1>1, <1>6 DEF Inv, PluginTyped
  <2>2. \A t \in Tasks, k \in Instances, q \in Revisions : Dead(t, k, q)' => Dead(t, k, q)
    BY <1>1, <1>2, <1>6 DEF Dead
  <2> QED  BY <1>1, <1>2, <1>3, <1>4, <1>5, <1>6, <2>1, <2>2, PluginMoves
<1>7. ASSUME NEW c, Evolved(client, c, instance, Requests), c.mirror = client.mirror,
             Refresh(c), settled' \in BOOLEAN, buried' = buried
      PROVE  Keeps
  <2>1. DOMAIN c.mirror \subseteq 1..created /\ page' \subseteq Tasks
    BY <1>1, <1>7 DEF Inv, Ages, PluginTyped
  <2>2. /\ list' \in ListState /\ again' \in BOOLEAN
        /\ \/ list' = list
           \/ list' = Idle
           \/ list'.state = "asked" /\ list'.tracked \subseteq 1..created
        /\ client'.mirror = c.mirror
        /\ \E Q \in SUBSET Requests :
               /\ Evolved(client, client', instance, Q) /\ "op" \in Q
               /\ Refresh(c) /\ list' = list /\ list.state = "answered" => "list" \in Q
    BY <1>4, <1>7, <2>1, Turning
  <2>3. PICK Q \in SUBSET Requests :
            /\ Evolved(client, client', instance, Q) /\ "op" \in Q
            /\ Refresh(c) /\ list' = list /\ list.state = "answered" => "list" \in Q
    BY <2>2
  <2>4. PluginTyped'
    BY <1>1, <1>7, <2>2 DEF Inv, PluginTyped
  <2>5. list' = list \/ list'.state # "answered"
    BY <2>2 DEF Idle
  <2>6. \A t \in Tasks, k \in Instances, q \in Revisions : Dead(t, k, q)' => Dead(t, k, q)
    BY <1>1, <1>2, <2>5 DEF Dead
  <2>7. /\ DOMAIN client'.mirror \subseteq 1..created
        /\ buried' \cap DOMAIN client'.mirror = {} /\ buried' \ buried = {}
        /\ buried \subseteq buried'
    BY <1>7, <2>1, <2>2 DEF Inv, Buried
  <2>8. Inv'
    BY <1>1, <1>2, <1>3, <1>4, <1>5, <1>7, <2>2, <2>3, <2>4, <2>6, <2>7, PluginMoves
  <2>9. Unbound \cap DOMAIN tasks = {}
    BY <1>7, <2>2, StillBound
  <2> QED  BY <2>3, <2>8, <2>9 DEF Keeps, Evolved
<1>8. CASE /\ event.type = "open" /\ Refresh(NextGeneration(client)) /\ settled' = FALSE
           /\ buried' = buried
  <2>1. /\ Evolved(client, NextGeneration(client), instance, Requests)
        /\ NextGeneration(client).mirror = client.mirror
    BY <1>4, GenerationEvolves
  <2> QED  BY <1>7, <1>8, <2>1
<1>9. CASE /\ event.type = "task"
           /\ client' = Upserted(client, event.task, event.snap, FALSE, FALSE)
           /\ UNCHANGED <<list, again, settled, buried>>
  <2>1. event.task \in Tasks /\ event.snap \in Snap /\ event.snap.inst = instance
    BY <1>2, <1>9 DEF Event, EventNow
  <2>2. Carried(event.task, event.snap)
    BY <1>2, <1>9 DEF Carried
  <2>3. /\ Evolved(client, client', instance, Requests)
        /\ DOMAIN client.mirror \subseteq DOMAIN client'.mirror
        /\ DOMAIN client'.mirror \subseteq 1..created
        /\ buried \cap DOMAIN client'.mirror = {}
    BY <1>4, <1>9, <2>1, <2>2, TakenIn
  <2>4. Inv'
    BY <1>4, <1>6, <1>9, <2>3
  <2>5. Unbound \cap DOMAIN tasks = {}
    BY <2>3, StillBound
  <2> QED  BY <2>3, <2>4, <2>5 DEF Keeps, Evolved
<1>10. CASE /\ event.type = "deleted"
            /\ client' = Forgotten(client, event.task, event.inst, event.rev)
            /\ buried' = IF DeletionIsNews(client, event.task, event.inst, event.rev)
                         THEN buried \cup {event.task} ELSE buried
            /\ UNCHANGED <<list, again, settled>>
  <2> DEFINE t == event.task
             news == DeletionIsNews(client, event.task, event.inst, event.rev)
  <2>1. /\ t \in Tasks /\ event.inst \in Instances /\ event.rev \in Revisions
        /\ event.inst = instance
    BY <1>2, <1>10 DEF Event, EventNow
  <2>2. Dead(t, event.inst, event.rev)
    BY <1>2, <1>10 DEF Dead
  <2>3. /\ Evolved(client, client', instance, Requests)
        /\ DOMAIN client'.mirror \subseteq DOMAIN client.mirror
        /\ DOMAIN client.mirror \ DOMAIN client'.mirror \subseteq {t}
        /\ t \in 1..created /\ t \notin DOMAIN tasks
        /\ news =>
               /\ t \notin DOMAIN client'.mirror /\ <<"list", t>> \in client'.touched
               /\ \A s \in Snap : Carried(t, s) => Buries(client', t, s.inst, s.rev)
    BY <1>4, <1>10, <2>1, <2>2, WordOfDeletion
  <2>4. buried' = IF news THEN buried \cup {t} ELSE buried
    BY <1>10
  <2> HIDE DEF t, news
  <2>5. /\ DOMAIN client'.mirror \subseteq 1..created /\ buried \subseteq buried'
        /\ buried' \cap DOMAIN client'.mirror = {}
    BY <2>3, <2>4 DEF Inv, Ages, Buried
  <2>6. Inv'
    BY <1>4, <1>6, <1>10, <2>1, <2>3, <2>4, <2>5
  <2>7. Unbound \cap DOMAIN tasks = {}
    BY <2>3 DEF Unbound
  <2> QED  BY <2>3, <2>6, <2>7 DEF Keeps, Evolved
<1>11. CASE /\ event.type = "resync" /\ event.inst \notin client.retired
            /\ Refresh(Accepted(client, event.inst)) /\ UNCHANGED <<settled, buried>>
  <2>1. event.inst = instance /\ settled' \in BOOLEAN
    BY <1>2, <1>11 DEF EventNow, Inv, PluginTyped
  <2>2. /\ Evolved(client, Accepted(client, instance), instance, Requests)
        /\ Accepted(client, instance).mirror = client.mirror
    BY <1>4, AcceptedEvolves
  <2> QED  BY <1>7, <1>11, <2>1, <2>2
<1>12. CASE UNCHANGED <<client, list, again, settled, buried>>
  <2>1. Evolved(client, client', instance, Requests)
    BY <1>12, Still DEF Inv
  <2>2. /\ DOMAIN client'.mirror \subseteq 1..created
        /\ buried' \cap DOMAIN client'.mirror = {}
    BY <1>12 DEF Inv, Ages, Buried
  <2>3. Inv'
    BY <1>4, <1>6, <1>12, <2>1, <2>2
  <2>4. Unbound \cap DOMAIN tasks = {}
    BY <1>12, StillBound
  <2> QED  BY <2>1, <2>3, <2>4 DEF Keeps, Evolved
<1> QED  BY <1>8, <1>9, <1>10, <1>11, <1>12 DEF Receive, event

-----------------------------------------------------------------------------
(* What concerns the client and the operation under way, and no list.      *)
LEMMA OnlyTheClient ==
    ASSUME Inv, UNCHANGED <<serverVars, streamVars, page, list, again, settled>>,
           faults' \in 0..MaxFaults, submission' \in Tasks \cup {None}, op' \in OpState,
           op' = op \/ op'.state # "answered",
           NEW j \in Instances, j <= instance, NEW Q, Evolved(client, client', j, Q),
           "list" \in Q, op' = op /\ op.state = "answered" => "op" \in Q,
           DOMAIN client'.mirror \subseteq 1..created, buried \subseteq buried',
           buried' \cap DOMAIN client'.mirror = {},
           \A t \in buried' \ buried :
               /\ t \in 1..created /\ t \notin DOMAIN tasks /\ t \in Tasks
               /\ <<"list", t>> \in client'.touched
               /\ \A s \in Snap : Carried(t, s) => Buries(client', t, s.inst, s.rev)
    PROVE  Inv' /\ Onward(client, client')
<1>1. PluginTyped'
  BY DEF Inv, PluginTyped
<1>2. connected' \in BOOLEAN /\ stream' \in Seq(Event) /\ StreamNow'
  BY DEF Inv, ServerTyped, StreamNow, EventNow, serverVars, streamVars
<1>3. /\ \A t \in Tasks, s \in Snap : Carried(t, s)' => Carried(t, s)
      /\ \A t \in Tasks, k \in Instances, q \in Revisions : Dead(t, k, q)' => Dead(t, k, q)
  BY DEF Carried, InStream, Dead, DeadInStream, streamVars
<1>4. Inv'
  BY <1>1, <1>2, <1>3, PluginMoves
<1> QED  BY <1>4 DEF Evolved

(* The instance that the server runs as                                    *)
LEMMA Here ==
    ASSUME Inv
    PROVE  /\ instance \in Instances /\ instance \in Nat /\ instance <= instance
           /\ UpTo(client, instance) /\ Proper(client) /\ "list" \in Requests
           /\ "op" \in Requests /\ "list" \in Requests \ {"op"} /\ Idle \in OpState
           /\ Idle.state # "answered"
           /\ DOMAIN client.mirror \subseteq 1..created /\ DOMAIN client.mirror \subseteq Tasks
           /\ buried \cap DOMAIN client.mirror = {} /\ submission \in Tasks \cup {None}
           /\ faults \in 0..MaxFaults /\ (faults < MaxFaults => faults + 1 \in 0..MaxFaults)
<1>1. /\ instance \in Instances /\ instance \in Nat /\ faults \in Nat /\ MaxFaults \in Nat
      /\ faults \in 0..MaxFaults
  BY Constants DEF Inv, ServerTyped, PluginTyped
<1>2. "list" \in Requests /\ "op" \in Requests /\ "list" \in Requests \ {"op"}
  BY Constants
<1>3. client \in Client
  BY DEF Inv, Proper
<1> QED  BY <1>1, <1>2, <1>3, EntryFields
         DEF Inv, Ages, Buried, PluginTyped, OpState, Idle

LEMMA AskedKeeps ==
    ASSUME Inv, op' \in OpState, op'.state = "asked", client' = Asking(client, "op"),
           UNCHANGED <<serverVars, streamVars, page, list, again, submission, faults, settled,
                       buried>>
    PROVE  Keeps
<1>1. /\ Evolved(client, client', instance, Requests \ {"op"})
      /\ client'.mirror = client.mirror
  BY Here, AskingEvolves
<1>2. Inv' /\ Onward(client, client')
  BY <1>1, Here, OnlyTheClient
<1> QED  BY <1>1, <1>2, StillBound DEF Keeps

LEMMA SubmitKeeps == Inv /\ Submit => Keeps
<1> SUFFICES ASSUME Inv, Submit PROVE Keeps
  OBVIOUS
<1>1. op' \in OpState /\ op'.state = "asked"
  BY DEF Submit, OpState
<1> QED  BY <1>1, AskedKeeps DEF Submit

LEMMA OperateKeeps ==
    ASSUME Inv, NEW kind \in {"retry", "delete"}, NEW t \in Tasks, Operate(kind, t)
    PROVE  Keeps
<1>1. client.mirror[t] \in Entry
  BY EntryFields DEF Operate, Inv, Proper
<1>2. op' \in OpState /\ op'.state = "asked"
  BY <1>1 DEF Operate, OpState, Entry
<1> QED  BY <1>2, AskedKeeps DEF Operate

LEMMA ClearFailedKeeps == Inv /\ ClearFailed => Keeps
<1> SUFFICES ASSUME Inv, ClearFailed PROVE Keeps
  OBVIOUS
<1>1. op' \in OpState /\ op'.state = "asked"
  BY Here DEF ClearFailed, OpState
<1> QED  BY <1>1, AskedKeeps DEF ClearFailed

LEMMA LoseOpKeeps == Inv /\ LoseOp => Keeps
<1> SUFFICES ASSUME Inv, LoseOp PROVE Keeps
  OBVIOUS
<1>1. /\ Evolved(client, client', instance, Requests) /\ client'.mirror = client.mirror
      /\ op' = Idle
  BY Here, OverEvolves DEF LoseOp, Refused
<1>2. /\ UNCHANGED <<serverVars, streamVars, page, list, again, settled, buried>>
      /\ submission' = submission /\ faults' \in 0..MaxFaults
  BY Here DEF LoseOp
<1>3. Inv' /\ Onward(client, client')
  BY <1>1, <1>2, Here, OnlyTheClient
<1> QED  BY <1>1, <1>3, StillBound DEF Keeps

LEMMA DisconnectKeeps == Inv /\ Disconnect => Keeps
<1> SUFFICES ASSUME Inv, Disconnect PROVE Keeps
  OBVIOUS
<1>1. /\ UNCHANGED <<serverVars, client, page, requestVars, buried>>
      /\ connected' = FALSE /\ stream' = <<>> /\ settled' = FALSE
      /\ faults' \in 0..MaxFaults
  BY Here DEF Disconnect
<1>2. PluginTyped'
  BY <1>1 DEF Inv, PluginTyped, requestVars
<1>3. stream' \in Seq(Event) /\ DOMAIN stream' = {} /\ connected' \in BOOLEAN
  <2>1. <<>> \in Seq(Event)
    OBVIOUS
  <2> QED  BY <1>1, <2>1, NoMap
<1>4. /\ \A t \in Tasks, s \in Snap : Carried(t, s)' => Carried(t, s)
      /\ \A t \in Tasks, k \in Instances, q \in Revisions : Dead(t, k, q)' => Dead(t, k, q)
      /\ StreamNow'
  BY <1>1, <1>3 DEF Carried, InStream, Dead, DeadInStream, requestVars, StreamNow
<1>5. Evolved(client, client', instance, Requests) /\ client' = client
  BY <1>1, Here, Still
<1>6. Inv'
  <2>1. list' = list /\ op' = op /\ buried' = buried
    BY <1>1 DEF requestVars
  <2> QED  BY <1>1, <1>2, <1>3, <1>4, <1>5, <2>1, Here, PluginMoves
<1> QED  BY <1>5, <1>6, StillBound DEF Keeps, Evolved

(* An answer is taken in.                                                  *)
LEMMA AppliedKeeps ==
    ASSUME Inv, NEW j \in Instances, j <= instance, NEW c, Evolved(client, c, j, Requests),
           client' = Over(c, "op"), op' = Idle, submission' \in Tasks \cup {None},
           UNCHANGED <<serverVars, streamVars, page, list, again, faults, settled>>,
           DOMAIN c.mirror \subseteq 1..created, buried \subseteq buried',
           buried' \cap DOMAIN c.mirror = {},
           \A t \in buried' \ buried :
               /\ t \in 1..created /\ t \notin DOMAIN tasks /\ t \in Tasks
               /\ <<"list", t>> \in c.touched
               /\ \A s \in Snap : Carried(t, s) => Buries(c, t, s.inst, s.rev)
    PROVE  Inv' /\ Onward(client, client') /\ client'.mirror = c.mirror
<1>1. Proper(c) /\ Proper(client) /\ j \in Nat /\ "op" \in Requests /\ "list" \in Requests
  BY Here, Constants DEF Evolved
<1>2. Evolved(c, client', j, Requests) /\ client'.mirror = c.mirror
  BY <1>1, OverEvolves
<1>3. Evolved(client, client', j, Requests)
  BY <1>1, <1>2, EvolvedTwice
<1>4. \A t \in buried' \ buried :
          /\ <<"list", t>> \in client'.touched
          /\ \A s \in Snap : Carried(t, s) => Buries(client', t, s.inst, s.rev)
  <2>1. \A s \in Snap : s.inst \in Instances /\ s.rev \in Revisions
    BY DEF Snap
  <2> QED  BY <1>1, <1>2, <2>1 DEF Evolved
<1>5. faults' \in 0..MaxFaults
  BY Here
<1>6. op' \in OpState /\ op'.state # "answered"
  BY Here
<1> QED  BY <1>1, <1>2, <1>3, <1>4, <1>5, <1>6, OnlyTheClient

LEMMA AnswerHeard ==
    ASSUME Inv, op.state = "answered", op.kind # "clear", CanApply(client, AnswerOf)
    PROVE  UpTo(client, AnswerOf)
<1>1. AnswerOf \in Instances
  BY DEF AnswerOf, Inv, PluginTyped, OpState, Idle, Snap
<1>2. CASE ~Void(client, "op")
  BY <1>2 DEF Void, Inv, Answered
<1>3. CASE AnswerOf = client.known
  BY <1>1, <1>3, Constants DEF Inv, Proper, Current, UpTo
<1> QED  BY <1>2, <1>3 DEF CanApply

LEMMA AnsweredFacts ==
    ASSUME Inv, op.state = "answered", op.kind \in {"submit", "retry"}
    PROVE  /\ op.task \in Tasks /\ op.snap \in Snap /\ Carried(op.task, op.snap)
           /\ AnswerOf = op.snap.inst
BY DEF Inv, PluginTyped, OpState, Idle, Carried, AnswerOf

(* The client as it is, or with a task that is bound now.                  *)
LEMMA Unmoved ==
    ASSUME Inv, NEW c,
           \/ c = client
           \/ \E t \in DOMAIN client.mirror : c = Put(client, t, Bind(client.mirror[t]))
    PROVE  /\ Evolved(client, c, instance, Requests)
           /\ DOMAIN c.mirror = DOMAIN client.mirror
BY Here, Still, PutBound

LEMMA SubmitAppliedKeeps == Inv /\ SubmitApplied => Keeps
<1> SUFFICES ASSUME Inv, SubmitApplied PROVE Keeps
  OBVIOUS
<1> DEFINE t == op.task
           c == IF CanApply(client, op.snap.inst)
                THEN Upserted(client, t, op.snap, FALSE, TRUE)
                ELSE IF t \in DOMAIN client.mirror /\ ~client.mirror[t].bound
                THEN Put(client, t, Bind(client.mirror[t]))
                ELSE client
<1>1. /\ op.state = "answered" /\ op.kind = "submit"
      /\ client' = Over(c, "op") /\ op' = Idle
      /\ UNCHANGED <<serverVars, streamVars, page, list, again, faults, settled, buried>>
      /\ submission' \in Tasks \cup {None}
  BY Here DEF SubmitApplied, None
<1>2. \E j \in Instances : /\ j <= instance /\ Evolved(client, c, j, Requests)
                           /\ DOMAIN client.mirror \subseteq DOMAIN c.mirror
                           /\ DOMAIN c.mirror \subseteq 1..created
                           /\ buried \cap DOMAIN c.mirror = {}
  <2>1. CASE CanApply(client, op.snap.inst)
    <3>1. c = Upserted(client, t, op.snap, FALSE, TRUE)
      BY <2>1
    <3>2. /\ t \in Tasks /\ op.snap \in Snap /\ Carried(t, op.snap)
          /\ UpTo(client, op.snap.inst)
      BY <1>1, <2>1, AnsweredFacts, AnswerHeard
    <3> HIDE DEF c, t
    <3> QED  BY <3>1, <3>2, TakenIn
  <2>2. CASE ~CanApply(client, op.snap.inst)
    <3>1. \/ c = client
          \/ \E u \in DOMAIN client.mirror : c = Put(client, u, Bind(client.mirror[u]))
      BY <2>2
    <3> HIDE DEF c, t
    <3> QED  BY <3>1, Here, Unmoved
  <2> QED  BY <2>1, <2>2
<1> HIDE DEF c, t
<1>3. PICK j \in Instances : /\ j <= instance /\ Evolved(client, c, j, Requests)
                             /\ DOMAIN client.mirror \subseteq DOMAIN c.mirror
                             /\ DOMAIN c.mirror \subseteq 1..created
                             /\ buried \cap DOMAIN c.mirror = {}
  BY <1>2
<1>4. buried' = buried
  BY <1>1
<1>5. Inv' /\ Onward(client, client') /\ client'.mirror = c.mirror
  BY <1>1, <1>3, <1>4, AppliedKeeps
<1> QED  BY <1>3, <1>5, StillBound DEF Keeps

LEMMA RetryAppliedKeeps == Inv /\ RetryApplied => Keeps
<1> SUFFICES ASSUME Inv, RetryApplied PROVE Keeps
  OBVIOUS
<1> DEFINE c == IF CanApply(client, op.snap.inst)
                THEN Upserted(client, op.task, op.snap, FALSE, FALSE) ELSE client
<1>1. /\ op.state = "answered" /\ op.kind = "retry"
      /\ client' = Over(c, "op") /\ op' = Idle
      /\ UNCHANGED <<serverVars, streamVars, page, list, again, faults, settled, buried>>
      /\ submission' \in Tasks \cup {None}
  BY Here DEF RetryApplied
<1>2. \E j \in Instances : /\ j <= instance /\ Evolved(client, c, j, Requests)
                           /\ DOMAIN client.mirror \subseteq DOMAIN c.mirror
                           /\ DOMAIN c.mirror \subseteq 1..created
                           /\ buried \cap DOMAIN c.mirror = {}
  <2>1. CASE CanApply(client, op.snap.inst)
    <3>1. c = Upserted(client, op.task, op.snap, FALSE, FALSE)
      BY <2>1
    <3>2. /\ op.task \in Tasks /\ op.snap \in Snap /\ Carried(op.task, op.snap)
          /\ UpTo(client, op.snap.inst)
      BY <1>1, <2>1, AnsweredFacts, AnswerHeard
    <3> HIDE DEF c
    <3> QED  BY <3>1, <3>2, TakenIn
  <2>2. CASE ~CanApply(client, op.snap.inst)
    <3>1. c = client
      BY <2>2
    <3> HIDE DEF c
    <3> QED  BY <3>1, Here, Unmoved
  <2> QED  BY <2>1, <2>2
<1> HIDE DEF c
<1>3. PICK j \in Instances : /\ j <= instance /\ Evolved(client, c, j, Requests)
                             /\ DOMAIN client.mirror \subseteq DOMAIN c.mirror
                             /\ DOMAIN c.mirror \subseteq 1..created
                             /\ buried \cap DOMAIN c.mirror = {}
  BY <1>2
<1>4. buried' = buried
  BY <1>1
<1>5. Inv' /\ Onward(client, client') /\ client'.mirror = c.mirror
  BY <1>1, <1>3, <1>4, AppliedKeeps
<1> QED  BY <1>3, <1>5, StillBound DEF Keeps

LEMMA DeleteAppliedKeeps == Inv /\ DeleteApplied => Keeps
<1> SUFFICES ASSUME Inv, DeleteApplied PROVE Keeps
  OBVIOUS
<1>1. /\ op.state = "answered" /\ op.kind = "delete" /\ op' = Idle
      /\ UNCHANGED <<serverVars, streamVars, page, list, again, submission, faults, settled>>
      /\ submission' \in Tasks \cup {None}
  BY Here DEF DeleteApplied
<1> DEFINE t == op.task
           i == op.inst
           r == op.rev
           d == Forgotten(client, t, i, r)
           news == DeletionIsNews(client, t, i, r)
<1>2. /\ t \in Tasks /\ i \in Instances /\ r \in Revisions /\ Dead(t, i, r)
      /\ AnswerOf = i
  BY <1>1 DEF Inv, PluginTyped, OpState, Idle, Dead, AnswerOf
<1>3. CASE CanApply(client, i)
  <2>1. UpTo(client, i)
    BY <1>1, <1>2, <1>3, AnswerHeard
  <2>2. client' = Over(d, "op") /\ buried' = IF news THEN buried \cup {t} ELSE buried
    BY <1>3 DEF DeleteApplied
  <2>3. /\ Evolved(client, d, i, Requests) /\ i <= instance
        /\ DOMAIN d.mirror \subseteq DOMAIN client.mirror
        /\ DOMAIN client.mirror \ DOMAIN d.mirror \subseteq {t}
        /\ t \in 1..created /\ t \notin DOMAIN tasks
        /\ news =>
               /\ t \notin DOMAIN d.mirror /\ <<"list", t>> \in d.touched
               /\ \A s \in Snap : Carried(t, s) => Buries(d, t, s.inst, s.rev)
    BY <1>2, <2>1, WordOfDeletion
  <2> HIDE DEF d, news, t, i, r
  <2>4. /\ DOMAIN d.mirror \subseteq 1..created /\ buried \subseteq buried'
        /\ buried' \cap DOMAIN d.mirror = {}
    BY <2>2, <2>3, Here
  <2>5. \A u \in buried' \ buried : u = t /\ news
    BY <2>2
  <2>6. Inv' /\ Onward(client, client') /\ client'.mirror = d.mirror
    BY <1>1, <1>2, <2>2, <2>3, <2>4, <2>5, AppliedKeeps
  <2>7. Unbound \cap DOMAIN tasks = {}
    BY <2>3, <2>6 DEF Unbound
  <2> QED  BY <2>6, <2>7 DEF Keeps
<1>4. CASE ~CanApply(client, i)
  <2>1. client' = Over(client, "op") /\ buried' = buried
    BY <1>4 DEF DeleteApplied
  <2>2. Evolved(client, client, instance, Requests)
    BY Here, Still
  <2>3. Inv' /\ Onward(client, client') /\ client'.mirror = client.mirror
    BY <1>1, <2>1, <2>2, Here, AppliedKeeps
  <2> QED  BY <2>3, StillBound DEF Keeps
<1> QED  BY <1>3, <1>4

LEMMA ClearAppliedKeeps ==
    ASSUME Inv, ClearApplied
    PROVE  Inv' /\ Onward(client, client')
<1> DEFINE forgotten == IF Void(client, "op") THEN {}
                        ELSE {t \in op.victims : <<"op", t>> \notin client.touched}
           T == DOMAIN client.mirror \ forgotten
           c0 == [client EXCEPT !.mirror = Restrict(@, DOMAIN @ \ forgotten),
                                !.touched = @ \cup Requests \X forgotten]
           c == Over(c0, "op")
<1>1. /\ op.state = "answered" /\ op.kind = "clear" /\ op' = Idle /\ page' = page
      /\ Refresh(c)
      /\ UNCHANGED <<serverVars, streamVars, submission, faults, settled, buried>>
  BY DEF ClearApplied
<1>2. forgotten \subseteq Tasks
  <2>1. op.victims \subseteq Tasks
    BY <1>1 DEF Inv, PluginTyped, OpState, Idle
  <2> QED  BY <2>1
<1> HIDE DEF forgotten
<1>3. /\ Restrict(client.mirror, T) \in Partial(Entry)
      /\ Requests \X forgotten \subseteq Requests \X Tasks /\ client \in Client
  BY <1>2, ClientFields, RestrictPartial DEF Inv, Proper
<1>4. /\ c0.known = client.known /\ c0.retired = client.retired
      /\ c0.mirror = Restrict(client.mirror, T) /\ c0.outdated = client.outdated
      /\ c0.touched = client.touched \cup Requests \X forgotten
      /\ c0.watermark = client.watermark /\ c0.deleted = client.deleted
      /\ c0 \in Client
  BY <1>3 DEF Client
<1> HIDE DEF c0
<1>5. Evolved(client, c0, instance, Requests) /\ DOMAIN c0.mirror = T
  <2>1. \A t \in Tasks, i \in Instances, r \in Revisions :
            Buries(client, t, i, r) => Buries(c0, t, i, r)
    BY <1>4 DEF Buries
  <2> QED  BY <1>4, <2>1, Here, Forgetting DEF Restrict
<1>6. Evolved(c0, c, instance, Requests) /\ c.mirror = c0.mirror
  BY <1>5, Here, OverEvolves DEF Evolved
<1> HIDE DEF c
<1>7. Evolved(client, c, instance, Requests)
  BY <1>5, <1>6, Here, EvolvedTwice
<1>8. DOMAIN c.mirror \subseteq 1..created /\ page' \subseteq Tasks
  BY <1>1, <1>5, <1>6, Here DEF Inv, PluginTyped
<1>9. /\ list' \in ListState /\ again' \in BOOLEAN
      /\ \/ list' = list
         \/ list' = Idle
         \/ list'.state = "asked" /\ list'.tracked \subseteq 1..created
      /\ client'.mirror = c.mirror
      /\ \E Q \in SUBSET Requests :
             /\ Evolved(client, client', instance, Q) /\ "op" \in Q
             /\ Refresh(c) /\ list' = list /\ list.state = "answered" => "list" \in Q
  BY <1>1, <1>7, <1>8, Here, Turning
<1>10. PICK Q \in SUBSET Requests :
           /\ Evolved(client, client', instance, Q) /\ "op" \in Q
           /\ Refresh(c) /\ list' = list /\ list.state = "answered" => "list" \in Q
  BY <1>9
<1>11. PluginTyped'
  BY <1>1, <1>8, <1>9, Here DEF Inv, PluginTyped
<1>12. list' = list \/ list'.state # "answered"
  BY <1>9 DEF Idle
<1>13. op'.state # "answered"
  BY <1>1, Here
<1>14. /\ \A t \in Tasks, s \in Snap : Carried(t, s)' => Carried(t, s)
       /\ \A t \in Tasks, k \in Instances, q \in Revisions : Dead(t, k, q)' => Dead(t, k, q)
  BY <1>1, <1>12, <1>13 DEF Carried, InStream, Dead, DeadInStream, streamVars
<1>15. /\ connected' \in BOOLEAN /\ stream' \in Seq(Event) /\ StreamNow'
       /\ UNCHANGED serverVars
  BY <1>1 DEF Inv, ServerTyped, StreamNow, EventNow, serverVars, streamVars
<1>16. /\ DOMAIN client'.mirror \subseteq 1..created
       /\ buried' \cap DOMAIN client'.mirror = {} /\ buried' = buried
  BY <1>1, <1>5, <1>6, <1>8, <1>9, Here
<1>17. Inv'
  BY <1>1, <1>9, <1>10, <1>11, <1>13, <1>14, <1>15, <1>16, Here, PluginMoves
<1> QED  BY <1>10, <1>17 DEF Evolved

LEMMA ImportKeeps == ASSUME Inv, NEW t \in Tasks, Import(t) PROVE Keeps
<1> DEFINE e == [client.mirror[t] EXCEPT !.import = "imported"]
<1>1. /\ t \in DOMAIN client.mirror /\ client' = Put(client, t, e)
      /\ client.mirror[t].status = "done"
      /\ UNCHANGED <<serverVars, streamVars, page, requestVars, faults, settled, buried>>
  BY DEF Import
<1>2. /\ client.mirror[t] \in Entry
      /\ client.mirror[t].inst \in Nat /\ client.mirror[t].rev \in Nat
  BY <1>1, EntryFields DEF Inv, Proper
<1>3. /\ e \in Entry /\ e.inst = client.mirror[t].inst /\ e.rev = client.mirror[t].rev
      /\ e.bound = client.mirror[t].bound /\ e.status = "done"
  BY <1>1, <1>2 DEF Entry, Imports
<1> HIDE DEF e
<1>4. \A k \in Instances : UpTo(client, k) => e.inst <= k
  BY <1>1, <1>3 DEF UpTo
<1>5. e.rev >= client.mirror[t].rev
  BY <1>2, <1>3
<1>6. /\ Evolved(client, client', instance, Requests)
      /\ DOMAIN client'.mirror = DOMAIN client.mirror \cup {t}
  BY <1>1, <1>3, <1>4, <1>5, Here, PutEvolves
<1>7. /\ UNCHANGED <<list, again, op, submission>> /\ op' \in OpState /\ buried' = buried
      /\ DOMAIN client'.mirror = DOMAIN client.mirror
  BY <1>1, <1>6 DEF requestVars, Inv, PluginTyped
<1>8. Inv' /\ Onward(client, client')
  BY <1>1, <1>6, <1>7, Here, OnlyTheClient
<1> QED  BY <1>7, <1>8, StillBound DEF Keeps

(* A plugin that starts knows nothing but its own tasks.                   *)
LEMMA Fresh ==
    ASSUME NEW m \in Partial(Entry), Normal(m)
    PROVE  LET c == Asking(Forget(m), "list")
           IN Proper(c) /\ c.mirror = m /\ c.known = None
<1> DEFINE c == Asking(Forget(m), "list")
<1>1. /\ c.known = None /\ c.watermark = -1 /\ c.deleted = <<>> /\ c.retired = {}
      /\ c.mirror = m /\ c.outdated = Requests \ {"list"}
      /\ c.touched = (Requests \X Tasks) \ ({"list"} \X Tasks)
      /\ c \in Client
  BY NoMap DEF Asking, Forget, Client
<1> HIDE DEF c
<1>2. Proper(c)
  BY <1>1 DEF Proper, Current
<1> QED  BY <1>1, <1>2 DEF c

LEMMA ReloadKeeps == Inv /\ Reload => Keeps
<1> SUFFICES ASSUME Inv, Reload PROVE Keeps
  OBVIOUS
<1> DEFINE bound == {t \in DOMAIN client.mirror : client.mirror[t].bound}
           m == Restrict(client.mirror, bound)
<1>1. /\ page' = {} /\ settled' = FALSE /\ connected' = FALSE /\ stream' = <<>> /\ op' = Idle
      /\ list' = [state |-> "asked", tracked |-> Tracked(Forget(m), page')]
      /\ client' = Asking(Forget(m), "list") /\ again' = FALSE
      /\ UNCHANGED <<serverVars, submission, buried>> /\ faults' \in 0..MaxFaults
  BY Here DEF Reload, Ask
<1>2. client \in Client /\ Normal(client.mirror) /\ bound \in SUBSET DOMAIN client.mirror
  BY DEF Inv, Proper
<1>3. /\ m \in Partial(Entry) /\ DOMAIN m = bound
      /\ \A t \in bound : m[t] = client.mirror[t]
  BY <1>2, ClientFields, RestrictPartial DEF Restrict
<1> HIDE DEF m
<1>4. Normal(m)
  BY <1>2, <1>3 DEF Normal
<1>5. Proper(client)' /\ client'.mirror = m /\ client'.known = None
  BY <1>1, <1>3, <1>4, Fresh
<1>6. Tracked(Forget(m), page') \subseteq bound
  BY <1>3 DEF Tracked, Forget
<1>7. bound \subseteq 1..created /\ bound \subseteq Tasks
  BY Here
<1>8. PluginTyped'
  BY <1>1, <1>6, <1>7, Here DEF Inv, PluginTyped, ListState
<1>9. DOMAIN stream' = {} /\ stream' \in Seq(Event)
  <2>1. <<>> \in Seq(Event)
    OBVIOUS
  <2> QED  BY <1>1, <2>1, NoMap
<1>10. ServerTyped' /\ StreamNow'
  BY <1>1, <1>9 DEF Inv, ServerTyped, StreamNow, serverVars
<1>11. /\ \A t, s : ~Carried(t, s)'
       /\ \A t, j, q : ~Dead(t, j, q)'
  BY <1>1, <1>9 DEF Carried, InStream, Dead, DeadInStream, Idle
<1>12. Ages'
  BY <1>1, <1>3, <1>5, <1>7, Here DEF Ages, UpTo, serverVars, None
<1>13. Listed' /\ Answered'
  BY <1>1, <1>6, <1>7 DEF Listed, Answered, Idle, serverVars
<1>14. Buried'
  BY <1>1, <1>3, <1>5, <1>11 DEF Inv, Buried, serverVars
<1>15. Inv'
  BY <1>5, <1>8, <1>10, <1>11, <1>12, <1>13, <1>14 DEF Inv, Told, Gone
<1>16. Onward(client, client')
  BY <1>2, <1>3, <1>5, EntryFields DEF Onward
<1>17. Unbound = {}
  BY <1>3, <1>5 DEF Unbound
<1> QED  BY <1>15, <1>16, <1>17 DEF Keeps

LEMMA Start == Init => Inv
<1> SUFFICES ASSUME Init PROVE Inv
  OBVIOUS
<1>1. /\ instance = 1 /\ revision = 0 /\ created = 0 /\ tasks = <<>>
      /\ connected = FALSE /\ stream = <<>>
      /\ client = Asking(Forget(<<>>), "list")
      /\ page = {} /\ list = [state |-> "asked", tracked |-> {}] /\ again = FALSE
      /\ op = Idle /\ submission = None
      /\ faults = 0 /\ settled = FALSE /\ buried = {}
  BY DEF Init
<1>2. DOMAIN tasks = {} /\ DOMAIN stream = {} /\ <<>> \in Partial(Entry) /\ Normal(<<>>)
  BY <1>1, NoMap DEF Normal
<1>3. Proper(client) /\ client.mirror = <<>> /\ client.known = None
  BY <1>1, <1>2, Fresh
<1>4. ServerTyped
  <2>1. stream \in Seq(Event) /\ tasks = [t \in DOMAIN tasks |-> tasks[t]]
    <3>1. tasks = [t \in DOMAIN tasks |-> tasks[t]]
      BY <1>1, <1>2, PartialFunctions
    <3>2. <<>> \in Seq(Event)
      OBVIOUS
    <3> QED  BY <1>1, <3>1, <3>2
  <2>2. Cardinality(DOMAIN tasks) = 0
    BY <1>2, FS_EmptySet
  <2>3. instance \in Instances /\ revision \in Revisions /\ created \in 0..MaxTasks
    BY <1>1, Constants DEF Instances, Revisions
  <2>4. Cardinality(DOMAIN tasks) <= revision /\ connected \in BOOLEAN
    <3>1. connected \in BOOLEAN
      BY <1>1
    <3>2. revision = 0
      BY <1>1
    <3>3. Cardinality(DOMAIN tasks) <= revision
      BY <2>2, <3>2
    <3> QED  BY <3>1, <3>3
  <2> QED  BY <1>2, <2>1, <2>3, <2>4 DEF ServerTyped
<1>5. PluginTyped
  <2>1. list \in ListState /\ op \in OpState /\ faults \in 0..MaxFaults
    BY <1>1, Constants DEF ListState, OpState
  <2> QED  BY <1>1, <2>1 DEF PluginTyped
<1>6. /\ \A t, s : ~Carried(t, s)
      /\ \A t, j, q : ~Dead(t, j, q)
  BY <1>1, <1>2 DEF Carried, InStream, Dead, DeadInStream, Idle
<1>7. Ages
  BY <1>1, <1>2, <1>3 DEF Ages, UpTo, None
<1>8. Listed /\ Answered /\ Buried /\ StreamNow
  BY <1>1, <1>2, <1>6 DEF Listed, Answered, Buried, StreamNow, Idle
<1> QED  BY <1>3, <1>4, <1>5, <1>6, <1>7, <1>8 DEF Inv, Told, Gone

-----------------------------------------------------------------------------
(* The theorems. They assume that a stream ends with its server: what      *)
(* happens otherwise is the run sync_late_stream.                          *)

(* Every step of the server keeps the invariant and the knowledge of the   *)
(* plugin as it is.                                                        *)
ServerSteps == \/ ServerStep \/ Restart \/ ListServed \/ Connect
               \/ SubmitServed \/ RetryServed \/ DeleteServed \/ ClearServed

LEMMA ServerKnowsNothing ==
    ASSUME Inv, ServerSteps
    PROVE  client'.mirror = client.mirror
<1>1. CASE client' = client
  BY <1>1
<1>2. CASE client' = Over(client, "op")
  BY <1>2, Here, OverEvolves
<1> QED  BY <1>1, <1>2 DEF ServerSteps, ServerStep, Restart, ListServed, Connect, SubmitServed,
                           RetryServed, DeleteServed, ClearServed, Refused

LEMMA ServerStepsKeep == ASSUME ~LateStream, Inv, ServerSteps PROVE Keeps
<1>1. Inv'
  BY ServerStepKeeps, RestartKeeps, ListServedKeeps, ConnectKeeps, SubmitServedKeeps,
     RetryServedKeeps, DeleteServedKeeps, ClearServedKeeps DEF ServerSteps
<1>2. client'.mirror = client.mirror
  BY ServerKnowsNothing
<1>3. Onward(client, client')
  BY <1>2, EntryFields DEF Onward, Inv, Proper
<1> QED  BY <1>1, <1>2, <1>3, StillBound DEF Keeps

LEMMA StepsKeep ==
    ASSUME ~LateStream, Inv, [Next]_vars
    PROVE  /\ Inv' /\ Onward(client, client')
           /\ ClearApplied \/ Unbound \cap DOMAIN tasks = {}
<1>1. CASE ServerSteps
  BY <1>1, ServerStepsKeep DEF Keeps
<1>2. CASE \/ Poll \/ ListApplied \/ Receive \/ Disconnect \/ Submit \/ ClearFailed
           \/ SubmitApplied \/ RetryApplied \/ DeleteApplied
           \/ LoseList \/ LoseOp \/ Reload
  BY <1>2, PollKeeps, ListAppliedKeeps, ReceiveKeeps, DisconnectKeeps, SubmitKeeps,
     ClearFailedKeeps, SubmitAppliedKeeps, RetryAppliedKeeps, DeleteAppliedKeeps,
     LoseListKeeps, LoseOpKeeps, ReloadKeeps DEF Keeps
<1>3. CASE ClearApplied
  BY <1>3, ClearAppliedKeeps
<1>4. CASE \E t \in Tasks : \E kind \in {"retry", "delete"} : Operate(kind, t)
  BY <1>4, OperateKeeps DEF Keeps
<1>5. CASE \E t \in Tasks : Import(t)
  BY <1>5, ImportKeeps DEF Keeps
<1>6. CASE UNCHANGED vars
  <2>1. /\ UNCHANGED <<serverVars, streamVars, page, list, again, settled>>
        /\ UNCHANGED <<faults, submission, op, client, buried>>
    BY <1>6 DEF vars, requestVars
  <2>2. op' \in OpState
    BY <2>1 DEF Inv, PluginTyped
  <2>3. Evolved(client, client', instance, Requests)
    BY <2>1, Here, Still
  <2>4. Inv' /\ Onward(client, client')
    BY <2>1, <2>2, <2>3, Here, OnlyTheClient
  <2> QED  BY <2>1, <2>4, StillBound
<1> QED  BY <1>1, <1>2, <1>3, <1>4, <1>5, <1>6
         DEF Next, ServerSteps, ListStep, StreamStep, OpStep

(* Whatever the order in which the stream, the lists and the answers bring *)
(* the news, the plugin listens to no instance before one that it retired, *)
(* what it hears of a task that it forgot is ignored, and a list on its    *)
(* way is either of no earlier instance or void (task_manager.py and       *)
(* pdf2zhTaskManager.ts).                                                  *)
THEOREM Invariance == ASSUME ~LateStream PROVE Spec => []Inv
<1>1. Inv /\ [Next]_vars => Inv'
  BY StepsKeep
<1> QED  BY <1>1, Start, PTL DEF Spec

(* Every variable of the server, the channels and the plugin keeps its     *)
(* type.                                                                   *)
THEOREM TypeCorrect == ASSUME ~LateStream PROVE Spec => []TypeOK
<1>1. Inv => TypeOK
  <2> SUFFICES ASSUME Inv PROVE TypeOK
    OBVIOUS
  <2>1. client \in Client /\ Normal(client.mirror) /\ Current(client)
    BY DEF Inv, Proper
  <2>2. client.known \notin client.retired
    BY <2>1, EntryFields DEF Current
  <2>3. ASSUME NEW t \in DOMAIN client.mirror
        PROVE  /\ client.mirror[t] \in
                      [inst : 1..instance, rev : Revisions, attempt : Nat \ {0},
                       status : Statuses, bound : BOOLEAN,
                       import : {"none", "pending", "imported"}]
               /\ client.mirror[t].status = "failed" => client.mirror[t].import # "pending"
    <3>1. client.mirror[t] \in Entry /\ client.mirror[t].inst \in Nat \ {0}
      BY <2>1, EntryFields
    <3>2. client.mirror[t].inst \in 1..instance
      BY <3>1, Here DEF UpTo
    <3> QED  BY <2>1, <3>1, <3>2 DEF Entry, Imports, Attempts, Normal
  <2>4. ASSUME NEW t \in DOMAIN tasks
        PROVE  tasks[t] \in [rev : 1..revision, attempt : Nat \ {0}, status : Statuses]
    BY DEF Inv, ServerTyped, Record, Attempts
  <2>5. list.state \in {"idle", "asked", "answered"} /\ op.state \in {"idle", "asked", "answered"}
    BY DEF Inv, PluginTyped, ListState, OpState, Idle
  <2>6. DOMAIN client.deleted \subseteq Tasks
    BY <2>1, EntryFields
  <2> QED  BY <2>1, <2>2, <2>3, <2>4, <2>5, <2>6, ClientFields
           DEF TypeOK, Inv, ServerTyped, PluginTyped
<1> QED  BY <1>1, Invariance, PTL

(* The plugin never retires the instance that the server runs as, and so   *)
(* never turns deaf to it (acceptInstance).                                *)
THEOREM NeverDeaf == ASSUME ~LateStream PROVE Spec => []LiveNotRetired
<1>1. Inv => LiveNotRetired
  BY Here, EntryFields DEF Inv, Proper, Current, UpTo, LiveNotRetired
<1> QED  BY <1>1, Invariance, PTL

(* No event, list or answer that comes late brings back a task that the    *)
(* plugin forgot since the server deleted it.                              *)
THEOREM DeletedForGood == ASSUME ~LateStream PROVE Spec => []NoResurrection
<1>1. Inv => NoResurrection
  BY DEF Inv, Buried, NoResurrection
<1> QED  BY <1>1, Invariance, PTL

(* What the plugin says of a task never goes back to an earlier revision   *)
(* or an earlier instance (upsertTask).                                    *)
THEOREM OnlyForward == ASSUME ~LateStream PROVE Spec => NoRollback
<1> DEFINE A == \A t \in DOMAIN client.mirror \cap DOMAIN client.mirror' :
                  \/ client.mirror'[t].inst > client.mirror[t].inst
                  \/ /\ client.mirror'[t].inst = client.mirror[t].inst
                     /\ client.mirror'[t].rev >= client.mirror[t].rev
<1>1. Inv /\ [Next]_vars => [A]_vars
  BY StepsKeep DEF Onward
<1>2. Spec => [][A]_vars
  BY <1>1, Invariance, PTL DEF Spec
<1> QED  BY <1>2 DEF NoRollback

(* A binding is dropped only when the server no longer has the task, or    *)
(* when the failed tasks are cleared (refreshTasksInternal).               *)
THEOREM BindingsLast == ASSUME ~LateStream PROVE Spec => BindingsSurvive
<1> DEFINE A == \/ op.state = "answered" /\ op.kind = "clear" /\ op' = Idle
                \/ Unbound \cap DOMAIN tasks = {}
<1>1. Inv /\ [Next]_vars => [A]_vars
  BY StepsKeep DEF ClearApplied
<1>2. Spec => [][A]_vars
  BY <1>1, Invariance, PTL DEF Spec
<1> QED  BY <1>2 DEF BindingsSurvive

-----------------------------------------------------------------------------
(* In step.  The plugin cannot be asked to agree with the server at every  *)
(* step, only to be in touch with it (InTouch, below): of each task that   *)
(* it must follow it knows the latest, or the last word is still to be     *)
(* read and will not be ignored.  For that the list under way must be      *)
(* worth applying (Counted), what the channels carry must be credible, and *)
(* no answer that is applied late may do harm (NoHarm).                    *)

(* What the plugin may have heard of a task: what a channel still carries, *)
(* and what it knows.                                                      *)

SnapOf(entry) == [inst |-> entry.inst, rev |-> entry.rev, attempt |-> entry.attempt,
                  status |-> entry.status]
Heard(t, s) ==
    \/ Carried(t, s)
    \/ list.state = "answered" /\ t \in DOMAIN list.snaps /\ s = list.snaps[t]
    \/ t \in DOMAIN client.mirror /\ s = SnapOf(client.mirror[t])

(* Of an instance the same revision of a task is the same state, a later   *)
(* one is of no earlier attempt.                                           *)
Past(t, s) ==
    /\ Precedes(s.inst, s.rev, instance, revision)
    /\ t \in DOMAIN tasks =>
           /\ s.attempt <= tasks[t].attempt
           /\ s.inst = instance => s.rev <= tasks[t].rev
           /\ s.inst = instance /\ s.rev = tasks[t].rev => s = Snapshot(tasks[t])
BeforeTheEnd(t, s) ==
    \A j \in Instances, q \in Revisions : Dead(t, j, q) => Precedes(s.inst, s.rev, j, q)
Credible == \A t \in Tasks, s \in Snap : Heard(t, s) => Past(t, s) /\ BeforeTheEnd(t, s)

(* The word that says how a task is now, or that it is gone.               *)
Final(event, t) ==
    /\ event.type \in {"task", "deleted"} /\ event.task = t
    /\ event.type = "task" => t \in DOMAIN tasks /\ event.snap = Snapshot(tasks[t])
    /\ event.type = "deleted" => t \notin DOMAIN tasks
EventRev(event) == IF event.type = "task" THEN event.snap.rev ELSE event.rev

(* A subscription that is in place ends with it.                           *)
LastWord ==
    connected =>
        \A n \in DOMAIN stream :
            /\ stream[n].type # "resync"
            /\ stream[n].type = "task" =>
                   \E m \in DOMAIN stream : m >= n /\ Final(stream[m], stream[n].task)

(* It is still to be read, and is later than revision w.                   *)
News(t, w) == \E n \in DOMAIN stream : Final(stream[n], t) /\ EventRev(stream[n]) > w

Untouched(request, t) == <<request, t>> \notin client.touched

(* What awaits an import is bound; nothing is known of revisions to come.  *)
Sober(c) ==
    /\ \A t \in DOMAIN c.mirror : c.mirror[t].import = "pending" => c.mirror[t].bound
    /\ c.known = instance =>
           c.watermark <= revision /\ \A t \in DOMAIN c.deleted : c.deleted[t] <= revision

(* What is cleared had failed when the plugin last heard of it.            *)
StillFailed ==
    op.state \in {"asked", "answered"} /\ op.kind = "clear" =>
        \A t \in op.victims \cap DOMAIN client.mirror :
            Untouched("op", t) => client.mirror[t].status = "failed"

(* The list asks for what is shown.                                        *)
AskedFor ==
    list.state = "asked" =>
        \A t \in DOMAIN client.mirror : Untouched("list", t) /\ Shown(t) => t \in list.tracked

(* The stream was opened and is read from then on.                         *)
Hearing == connected /\ \A n \in DOMAIN stream : stream[n].type # "open"

AnswerAfter(t, w) ==
    /\ op.state = "answered" /\ op.kind \in {"submit", "retry"} /\ op.task = t
    /\ op.snap.inst = instance /\ op.snap.rev > w

(* A list that counts tells of all that happened until it was served, and  *)
(* what came after is still to be heard, or has touched the task.          *)
Complete ==
    /\ list.inst = instance /\ list.visible \subseteq DOMAIN list.snaps
    /\ client.known = instance => client.watermark <= list.rev
    /\ \A t \in DOMAIN tasks :
           tasks[t].rev <= list.rev =>
               /\ t \in DOMAIN list.snaps => list.snaps[t] = Snapshot(tasks[t])
               /\ Live(tasks[t]) => t \in DOMAIN list.snaps
Since(t) ==
    /\ t \in DOMAIN tasks /\ tasks[t].rev > list.rev => News(t, list.rev)
    /\ t \notin DOMAIN tasks /\ (t \in DOMAIN list.snaps \/ AnswerAfter(t, list.rev)) =>
           News(t, list.rev)
    /\ t \in DOMAIN client.mirror /\ client.mirror[t].inst = instance =>
           client.mirror[t].rev <= list.rev
    /\ t \in DOMAIN client.deleted /\ client.known = instance => client.deleted[t] <= list.rev
    /\ t \in DOMAIN client.mirror /\ Shown(t) => t \in DOMAIN list.snaps \cup list.missing

Counts == Hearing /\ list.state = "answered" /\ "list" \notin client.outdated
Counted == Counts => Complete /\ \A t \in Tasks : Untouched("list", t) => Since(t)

(* From then on the plugin follows each task that it must.                 *)
InPlace(t) == t \in DOMAIN tasks /\ Agrees(t)
Required(t) ==
    \/ t \in DOMAIN tasks /\ Live(tasks[t])
    \/ t \in DOMAIN client.mirror /\ (Shown(t) \/ ~client.mirror[t].bound)
Follows(t) == InPlace(t) \/ News(t, client.watermark)

(* An answer that is applied leaves the plugin no worse.                   *)
Harmless(t, s) ==
    \/ Buries(client, t, s.inst, s.rev)
    \/ /\ t \in DOMAIN client.mirror /\ client.mirror[t].inst = s.inst
       /\ client.mirror[t].rev >= s.rev
    \/ t \in DOMAIN tasks /\ s = Snapshot(tasks[t])
    \/ News(t, client.watermark)
NoHarm ==
    op.state = "answered" /\ op.kind \in {"submit", "retry"} /\ op.snap.inst = instance =>
        Harmless(op.task, op.snap)
Following ==
    settled /\ Hearing =>
        client.known = instance /\ NoHarm /\ \A t \in Tasks : Required(t) => Follows(t)

InTouch ==
    /\ Credible /\ LastWord /\ Sober(client) /\ DOMAIN client.deleted \subseteq buried
    /\ StillFailed /\ AskedFor /\ Counted /\ Following

-----------------------------------------------------------------------------
(* What changes between two states of the client.                          *)

Same(c, d, t) ==
    /\ t \in DOMAIN c.mirror <=> t \in DOMAIN d.mirror
    /\ t \in DOMAIN c.mirror => d.mirror[t] = c.mirror[t]
    /\ d.known = c.known =>
           /\ t \in DOMAIN c.deleted <=> t \in DOMAIN d.deleted
           /\ t \in DOMAIN c.deleted => d.deleted[t] = c.deleted[t]

(* The requests in Q are told of what changed.                             *)
Noticed(c, d, Q) ==
    /\ d.known = c.known => d.watermark = c.watermark
    /\ \A q \in Q : q \notin d.outdated => q \notin c.outdated /\ d.known = c.known
    /\ \A q \in Q, t \in Tasks :
           <<q, t>> \notin d.touched => <<q, t>> \notin c.touched /\ Same(c, d, t)

(* Nothing but the marks for the request q differs.                        *)
Marked(c, d, q) ==
    /\ d.known = c.known /\ d.watermark = c.watermark /\ d.deleted = c.deleted
    /\ d.retired = c.retired /\ d.mirror = c.mirror
    /\ \A p \in Requests \ {q} :
           /\ p \in d.outdated <=> p \in c.outdated
           /\ \A t \in Tasks : <<p, t>> \in d.touched <=> <<p, t>> \in c.touched

LEMMA SnapOfType == ASSUME NEW e \in Entry PROVE SnapOf(e) \in Snap
BY DEF Entry, Snap, SnapOf

LEMMA OverMarks ==
    ASSUME NEW c \in Client, NEW q \in Requests
    PROVE  Marked(c, Over(c, q), q) /\ q \in Over(c, q).outdated
<1> DEFINE d == Over(c, q)
<1>1. /\ d.known = c.known /\ d.watermark = c.watermark /\ d.deleted = c.deleted
      /\ d.retired = c.retired /\ d.mirror = c.mirror
      /\ d.outdated = c.outdated \cup {q}
      /\ d.touched = c.touched \cup {q} \X Tasks
  BY DEF Over, Client
<1> HIDE DEF d
<1> QED  BY <1>1 DEF Marked, d

LEMMA AskingMarks ==
    ASSUME NEW c \in Client, NEW q \in Requests
    PROVE  Marked(c, Asking(c, q), q)
<1> DEFINE d == Asking(c, q)
<1>1. /\ d.known = c.known /\ d.watermark = c.watermark /\ d.deleted = c.deleted
      /\ d.retired = c.retired /\ d.mirror = c.mirror
      /\ d.outdated = c.outdated \ {q}
      /\ d.touched = c.touched \ ({q} \X Tasks)
  BY DEF Asking, Client
<1> HIDE DEF d
<1> QED  BY <1>1 DEF Marked, d

(* What is noticed by a request is so whatever happens to another.         *)
LEMMA StillNoticed ==
    ASSUME NEW c, NEW d, NEW e, NEW q \in Requests, NEW Q \in SUBSET (Requests \ {q}),
           Noticed(c, d, Q), Marked(d, e, q)
    PROVE  Noticed(c, e, Q)
BY DEF Noticed, Marked, Same

LEMMA NothingNoticed ==
    ASSUME NEW c, NEW Q
    PROVE  Noticed(c, c, Q)
BY DEF Noticed, Same

LEMMA GenerationNoticed ==
    ASSUME NEW c \in Client
    PROVE  /\ Noticed(c, NextGeneration(c), Requests)
           /\ NextGeneration(c).mirror = c.mirror /\ NextGeneration(c).deleted = c.deleted
           /\ NextGeneration(c).known = c.known
           /\ NextGeneration(c).watermark = c.watermark
<1> DEFINE d == NextGeneration(c)
<1>1. /\ d.known = c.known /\ d.watermark = c.watermark /\ d.deleted = c.deleted
      /\ d.mirror = c.mirror /\ d.outdated = Requests /\ d.touched = c.touched
  BY DEF NextGeneration, Client
<1> HIDE DEF d
<1> QED  BY <1>1 DEF Noticed, Same, d

LEMMA AcceptedFields ==
    ASSUME NEW c \in Client, NEW i
    PROVE  LET a == Accepted(c, i)
           IN /\ a.known = i /\ a.mirror = c.mirror /\ a.touched = c.touched
              /\ i = c.known => a = c
              /\ i # c.known =>
                     a.watermark = -1 /\ a.deleted = <<>> /\ Requests \subseteq a.outdated
BY DEF Accepted, NextGeneration, Client

LEMMA AcceptedNoticed ==
    ASSUME NEW c \in Client, NEW i
    PROVE  Noticed(c, Accepted(c, i), Requests)
BY AcceptedFields DEF Noticed, Same

(* Whatever becomes of one task, the requests are told.                    *)
LEMMA OneNoticed ==
    ASSUME NEW c, NEW a, NEW d, NEW t, Noticed(c, a, Requests),
           d.known = a.known, d.watermark = a.watermark, d.outdated = a.outdated,
           a.touched \cup Requests \X {t} \subseteq d.touched,
           \A u \in Tasks : u # t => Same(a, d, u)
    PROVE  Noticed(c, d, Requests)
BY DEF Noticed, Same

LEMMA PutFields ==
    ASSUME NEW c \in Client, NEW t \in Tasks, NEW e \in Entry
    PROVE  LET d == Put(c, t, e)
           IN /\ d.known = c.known /\ d.watermark = c.watermark /\ d.deleted = c.deleted
              /\ d.outdated = c.outdated /\ d.touched = c.touched \cup Requests \X {t}
              /\ DOMAIN d.mirror = DOMAIN c.mirror \cup {t} /\ d.mirror[t] = e
              /\ \A u \in DOMAIN c.mirror : u # t => d.mirror[u] = c.mirror[u]
<1> DEFINE d == Put(c, t, e)
<1>1. /\ d.known = c.known /\ d.watermark = c.watermark /\ d.deleted = c.deleted
      /\ d.outdated = c.outdated /\ d.touched = c.touched \cup Requests \X {t}
      /\ d.mirror = With(c.mirror, t, e)
  BY DEF Put, Client
<1> HIDE DEF d
<1>2. /\ DOMAIN d.mirror = DOMAIN c.mirror \cup {t}
      /\ \A u \in DOMAIN d.mirror : d.mirror[u] = IF u = t THEN e ELSE c.mirror[u]
  BY <1>1 DEF With
<1>3. d.mirror[t] = e /\ \A u \in DOMAIN c.mirror : u # t => d.mirror[u] = c.mirror[u]
  BY <1>2
<1> QED  BY <1>1, <1>2, <1>3 DEF d

LEMMA PutNoticed ==
    ASSUME NEW c, NEW a \in Client, Noticed(c, a, Requests), NEW t \in Tasks, NEW e \in Entry
    PROVE  Noticed(c, Put(a, t, e), Requests)
<1> DEFINE d == Put(a, t, e)
<1>1. /\ d.known = a.known /\ d.watermark = a.watermark /\ d.deleted = a.deleted
      /\ d.outdated = a.outdated /\ d.touched = a.touched \cup Requests \X {t}
      /\ DOMAIN d.mirror = DOMAIN a.mirror \cup {t}
      /\ \A u \in DOMAIN a.mirror : u # t => d.mirror[u] = a.mirror[u]
  BY PutFields
<1> HIDE DEF d
<1>2. \A u \in Tasks : u # t => Same(a, d, u)
  BY <1>1 DEF Same
<1>3. Noticed(c, d, Requests)
  BY <1>1, <1>2, OneNoticed
<1> QED  BY <1>3 DEF d

(* A snapshot that is merged is what the plugin knows then.                *)
LEMMA MergedSnap ==
    ASSUME NEW c, Proper(c), NEW t \in Tasks, NEW s \in Snap, NEW bind \in BOOLEAN
    PROVE  LET e == Merged(c, t, s, bind)
           IN /\ e \in Entry /\ SnapOf(e) = s
              /\ (t \in DOMAIN c.mirror /\ c.mirror[t].import = "pending" =>
                      c.mirror[t].bound)
                 => (e.import = "pending" => e.bound)
<1>1. t \in DOMAIN c.mirror => c.mirror[t] \in Entry
  BY EntryFields DEF Proper
<1> DEFINE old == IF t \in DOMAIN c.mirror THEN c.mirror[t]
                  ELSE [inst |-> s.inst, rev |-> 0, attempt |-> s.attempt,
                        status |-> s.status, bound |-> FALSE, import |-> "none"]
           entry == [old EXCEPT !.inst = s.inst, !.rev = s.rev,
                                !.attempt = s.attempt, !.status = s.status]
           mine == IF bind THEN [entry EXCEPT !.bound = TRUE,
                                    !.import = IF @ = "none" THEN "pending" ELSE @]
                   ELSE entry
           last == IF s.attempt > old.attempt
                   THEN [mine EXCEPT !.import = IF mine.bound THEN "pending" ELSE "none"]
                   ELSE mine
           sober == t \in DOMAIN c.mirror /\ c.mirror[t].import = "pending" =>
                        c.mirror[t].bound
           Good(e) == e \in Entry /\ SnapOf(e) = s /\ (sober => (e.import = "pending" => e.bound))
<1>2. old \in Entry /\ (sober => (old.import = "pending" => old.bound))
  BY <1>1, BoundsAssumption DEF Entry, Snap, Imports, Revisions
<1> HIDE DEF old, sober
<1>3. Good(entry)
  <2>1. /\ entry \in Entry /\ entry.inst = s.inst /\ entry.rev = s.rev
        /\ entry.attempt = s.attempt /\ entry.status = s.status
        /\ entry.bound = old.bound /\ entry.import = old.import
    BY <1>2 DEF Entry, Snap
  <2> HIDE DEF entry
  <2>2. SnapOf(entry) = s
    BY <2>1 DEF SnapOf, Snap
  <2> QED  BY <1>2, <2>1, <2>2
<1> HIDE DEF entry
<1>4. Good(mine)
  BY <1>3 DEF Entry, Imports, SnapOf
<1> HIDE DEF mine
<1>5. Good(last)
  BY <1>4 DEF Entry, Imports, SnapOf
<1>6. Merged(c, t, s, bind) = Normalized(last)
  BY DEF Merged, old, entry, mine
<1> HIDE DEF last
<1>7. Good(Normalized(last))
  BY <1>5 DEF Normalized, Entry, Imports, SnapOf
<1> QED  BY <1>6, <1>7 DEF sober

LEMMA BindSnap ==
    ASSUME NEW e \in Entry
    PROVE  Bind(e) \in Entry /\ SnapOf(Bind(e)) = SnapOf(e) /\ Bind(e).bound
<1> DEFINE b == [e EXCEPT !.bound = TRUE, !.import = IF @ = "none" THEN "pending" ELSE @]
<1>1. b \in Entry /\ SnapOf(b) = SnapOf(e) /\ b.bound
  BY DEF Entry, Imports, SnapOf
<1>2. Bind(e) = Normalized(b)
  BY DEF Bind
<1> HIDE DEF b
<1> QED  BY <1>1, <1>2 DEF Normalized, Entry, Imports, SnapOf

(* All tasks but t are as they were.                                       *)
Others(c, d, t) ==
    \A u \in Tasks \ {t} :
        /\ u \in DOMAIN c.mirror <=> u \in DOMAIN d.mirror
        /\ u \in DOMAIN c.mirror => d.mirror[u] = c.mirror[u]

(* A snapshot of instance i is ignored, or taken, or binds its task.       *)
Ignored(a, d, t, s) == d = a /\ (Burying(a, t, s) \/ Stale(a, t, s, FALSE))
Taken(a, d, t, s) ==
    /\ ~Burying(a, t, s) /\ ~Stale(a, t, s, FALSE)
    /\ t \in DOMAIN d.mirror /\ SnapOf(d.mirror[t]) = s
    /\ (t \in DOMAIN a.mirror /\ a.mirror[t].import = "pending" => a.mirror[t].bound)
           => (d.mirror[t].import = "pending" => d.mirror[t].bound)
BoundNow(a, d, t) ==
    /\ t \in DOMAIN a.mirror /\ ~a.mirror[t].bound /\ t \in DOMAIN d.mirror
    /\ SnapOf(d.mirror[t]) = SnapOf(a.mirror[t]) /\ d.mirror[t].bound

LEMMA BoundFacts ==
    ASSUME NEW c, NEW a, Proper(a), Noticed(c, a, Requests), NEW t \in DOMAIN a.mirror,
           ~a.mirror[t].bound
    PROVE  LET d == Put(a, t, Bind(a.mirror[t]))
           IN /\ Noticed(c, d, Requests) /\ Others(a, d, t) /\ BoundNow(a, d, t)
              /\ d.known = a.known /\ d.watermark = a.watermark /\ d.deleted = a.deleted
<1> DEFINE e == Bind(a.mirror[t])
           d == Put(a, t, e)
<1>1. t \in Tasks /\ a.mirror[t] \in Entry /\ a \in Client
  BY EntryFields DEF Proper
<1>2. e \in Entry /\ SnapOf(e) = SnapOf(a.mirror[t]) /\ e.bound
  BY <1>1, BindSnap
<1> HIDE DEF e
<1>3. /\ d.known = a.known /\ d.watermark = a.watermark /\ d.deleted = a.deleted
      /\ DOMAIN d.mirror = DOMAIN a.mirror \cup {t} /\ d.mirror[t] = e
      /\ \A u \in DOMAIN a.mirror : u # t => d.mirror[u] = a.mirror[u]
      /\ Noticed(c, d, Requests)
  BY <1>1, <1>2, PutFields, PutNoticed
<1> HIDE DEF d
<1>4. Others(a, d, t) /\ BoundNow(a, d, t)
  BY <1>2, <1>3 DEF Others, BoundNow
<1> QED  BY <1>3, <1>4 DEF d, e

LEMMA UpsertedFacts ==
    ASSUME NEW c, Proper(c), NEW t \in Tasks, NEW s \in Snap, UpTo(c, s.inst),
           NEW bind \in BOOLEAN
    PROVE  LET a == Accepted(c, s.inst)
               d == Upserted(c, t, s, FALSE, bind)
           IN /\ Noticed(c, d, Requests) /\ Others(c, d, t)
              /\ d.known = s.inst /\ d.watermark = a.watermark /\ d.deleted = a.deleted
              /\ Ignored(a, d, t, s) \/ Taken(a, d, t, s) \/ (bind /\ BoundNow(a, d, t))
<1> DEFINE a == Accepted(c, s.inst)
           d == Upserted(c, t, s, FALSE, bind)
<1>1. s.inst \in Instances /\ c \in Client
  BY DEF Snap, Proper
<1>2. /\ Evolved(c, a, s.inst, Requests) /\ a.mirror = c.mirror /\ a.known = s.inst
      /\ s.inst \notin c.retired
  BY <1>1, AcceptedEvolves
<1>3. Proper(a) /\ a \in Client /\ Noticed(c, a, Requests)
  BY <1>1, <1>2, AcceptedNoticed DEF Evolved, Proper
<1>4. d = IF Burying(a, t, s) THEN a
          ELSE IF ~Stale(a, t, s, FALSE) THEN Put(a, t, Merged(a, t, s, bind))
          ELSE IF bind /\ t \in DOMAIN a.mirror /\ ~a.mirror[t].bound
          THEN Put(a, t, Bind(a.mirror[t])) ELSE a
  BY <1>2 DEF Upserted
<1> HIDE DEF a, d
<1>5. CASE d = a /\ (Burying(a, t, s) \/ Stale(a, t, s, FALSE))
  <2>1. Others(c, d, t) /\ Ignored(a, d, t, s)
    BY <1>2, <1>5 DEF Others, Ignored
  <2> QED  BY <1>2, <1>3, <1>5, <2>1 DEF a, d
<1>6. CASE /\ bind /\ t \in DOMAIN a.mirror /\ ~a.mirror[t].bound
           /\ d = Put(a, t, Bind(a.mirror[t]))
  <2>1. /\ Noticed(c, d, Requests) /\ Others(a, d, t) /\ BoundNow(a, d, t)
        /\ d.known = a.known /\ d.watermark = a.watermark /\ d.deleted = a.deleted
    BY <1>3, <1>6, BoundFacts
  <2>2. Others(c, d, t)
    BY <1>2, <2>1 DEF Others
  <2> QED  BY <1>2, <1>6, <2>1, <2>2 DEF a, d
<1>7. CASE /\ ~Burying(a, t, s) /\ ~Stale(a, t, s, FALSE)
           /\ d = Put(a, t, Merged(a, t, s, bind))
  <2> DEFINE e == Merged(a, t, s, bind)
  <2>1. /\ e \in Entry /\ SnapOf(e) = s
        /\ (t \in DOMAIN a.mirror /\ a.mirror[t].import = "pending" => a.mirror[t].bound)
              => (e.import = "pending" => e.bound)
    BY <1>3, MergedSnap
  <2>2. d = Put(a, t, e)
    BY <1>7
  <2> HIDE DEF e
  <2>3. /\ d.known = a.known /\ d.watermark = a.watermark /\ d.deleted = a.deleted
        /\ DOMAIN d.mirror = DOMAIN a.mirror \cup {t} /\ d.mirror[t] = e
        /\ \A u \in DOMAIN a.mirror : u # t => d.mirror[u] = a.mirror[u]
        /\ Noticed(c, d, Requests)
    BY <1>3, <2>1, <2>2, PutFields, PutNoticed
  <2>4. Others(c, d, t)
    BY <1>2, <2>3 DEF Others
  <2>5. Taken(a, d, t, s)
    BY <1>7, <2>1, <2>3 DEF Taken
  <2> QED  BY <1>2, <2>3, <2>4, <2>5 DEF a, d
<1> QED  BY <1>4, <1>5, <1>6, <1>7

LEMMA ForgottenFacts ==
    ASSUME NEW c, Proper(c), NEW t \in Tasks, NEW i \in Instances, NEW r \in Revisions,
           UpTo(c, i)
    PROVE  LET a == Accepted(c, i)
               d == Forgotten(c, t, i, r)
               news == DeletionIsNews(c, t, i, r)
           IN /\ Noticed(c, d, Requests) /\ Others(c, d, t)
              /\ d.known = i /\ d.watermark = a.watermark
              /\ ~news => d = a
              /\ news => /\ t \notin DOMAIN d.mirror
                         /\ DOMAIN d.deleted = DOMAIN a.deleted \cup {t} /\ d.deleted[t] = r
                         /\ \A u \in DOMAIN a.deleted \ {t} : d.deleted[u] = a.deleted[u]
<1> DEFINE a == Accepted(c, i)
           d == Forgotten(c, t, i, r)
           news == DeletionIsNews(c, t, i, r)
<1>1. c \in Client
  BY DEF Proper
<1>2. /\ Evolved(c, a, i, Requests) /\ a.mirror = c.mirror /\ a.known = i
      /\ i \notin c.retired
  BY AcceptedEvolves
<1>3. a \in Client /\ Noticed(c, a, Requests)
  BY <1>1, <1>2, AcceptedNoticed DEF Evolved, Proper
<1>4. d = IF news THEN Drop([a EXCEPT !.deleted = With(@, t, r)], t) ELSE a
  BY <1>2 DEF Forgotten
<1> HIDE DEF a, d, news
<1>5. CASE ~news
  <2>1. Others(c, d, t) /\ d = a
    BY <1>2, <1>4, <1>5 DEF Others
  <2> QED  BY <1>2, <1>3, <1>5, <2>1 DEF a, d, news
<1>6. CASE news
  <2>1. /\ d.known = a.known /\ d.watermark = a.watermark /\ d.deleted = With(a.deleted, t, r)
        /\ d.outdated = a.outdated /\ d.touched = a.touched \cup Requests \X {t}
        /\ d.mirror = Restrict(a.mirror, DOMAIN a.mirror \ {t})
    BY <1>3, <1>4, <1>6 DEF Drop, Client
  <2>2. /\ DOMAIN d.mirror = DOMAIN a.mirror \ {t}
        /\ \A u \in DOMAIN d.mirror : d.mirror[u] = a.mirror[u]
    BY <2>1 DEF Restrict
  <2>3. /\ DOMAIN d.deleted = DOMAIN a.deleted \cup {t}
        /\ \A u \in DOMAIN d.deleted : d.deleted[u] = IF u = t THEN r ELSE a.deleted[u]
    BY <2>1 DEF With
  <2>4. \A u \in Tasks : u # t => Same(a, d, u)
    BY <2>2, <2>3 DEF Same
  <2>5. Noticed(c, d, Requests)
    BY <1>3, <2>1, <2>4, OneNoticed
  <2>6. Others(c, d, t)
    BY <1>2, <2>2 DEF Others
  <2>7. d.deleted[t] = r /\ \A u \in DOMAIN a.deleted \ {t} : d.deleted[u] = a.deleted[u]
    BY <2>3
  <2> QED  BY <1>2, <1>6, <2>1, <2>2, <2>3, <2>5, <2>6, <2>7 DEF a, d, news
<1> QED  BY <1>5, <1>6

-----------------------------------------------------------------------------
(* What the steps of the plugin have in common.                            *)

LEMMA HeardStays ==
    ASSUME \A t \in Tasks, s \in Snap : Carried(t, s)' => Carried(t, s),
           list' = list \/ list'.state # "answered",
           \A t \in DOMAIN client'.mirror : Heard(t, SnapOf(client'.mirror[t]))
    PROVE  \A t \in Tasks, s \in Snap : Heard(t, s)' => Heard(t, s)
BY DEF Heard

LEMMA CredibleStays ==
    ASSUME Credible, UNCHANGED serverVars,
           \A t \in Tasks, s \in Snap : Heard(t, s)' => Heard(t, s),
           \A t \in Tasks, j \in Instances, q \in Revisions : Dead(t, j, q)' => Dead(t, j, q)
    PROVE  Credible'
<1>1. instance' = instance /\ revision' = revision /\ tasks' = tasks
  BY DEF serverVars
<1> SUFFICES ASSUME NEW t \in Tasks, NEW s \in Snap, Heard(t, s)'
             PROVE  Past(t, s)' /\ BeforeTheEnd(t, s)'
  BY DEF Credible
<1>2. Past(t, s) /\ BeforeTheEnd(t, s)
  BY DEF Credible
<1> QED  BY <1>1, <1>2 DEF Past, BeforeTheEnd, Snapshot

LEMMA NewsStays ==
    ASSUME UNCHANGED <<serverVars, streamVars>>
    PROVE  /\ LastWord => LastWord'
           /\ Hearing' <=> Hearing
           /\ \A t, w : News(t, w) => News(t, w)'
<1>1. instance' = instance /\ tasks' = tasks /\ stream' = stream /\ connected' = connected
  BY DEF serverVars, streamVars
<1>2. \A event, t : Final(event, t)' <=> Final(event, t)
  BY <1>1 DEF Final, Snapshot
<1> QED  BY <1>1, <1>2 DEF LastWord, Hearing, News

LEMMA AskedStays ==
    ASSUME Inv', AskedFor, list' = list, page' = page, Noticed(client, client', {"list"})
    PROVE  AskedFor'
<1> SUFFICES ASSUME list.state = "asked", NEW t \in DOMAIN client'.mirror,
                    Untouched("list", t)', Shown(t)'
             PROVE  t \in list.tracked
  BY DEF AskedFor
<1>1. t \in Tasks
  BY EntryFields DEF Inv, Proper
<1>2. Untouched("list", t) /\ Same(client, client', t)
  BY <1>1 DEF Noticed, Untouched
<1>3. t \in DOMAIN client.mirror /\ Shown(t)
  BY <1>2 DEF Same, Shown
<1> QED  BY <1>2, <1>3 DEF AskedFor

Prudent(c) == \A t \in DOMAIN c.mirror : c.mirror[t].import = "pending" => c.mirror[t].bound

LEMMA AskAsks ==
    ASSUME NEW c \in Client, Prudent(c), Ask(c)
    PROVE  list'.state = "asked" /\ AskedFor' /\ Marked(c, client', "list")
<1>1. /\ list' = [state |-> "asked", tracked |-> Tracked(c, page')]
      /\ client' = Asking(c, "list") /\ "list" \in Requests
  BY Constants DEF Ask
<1>2. Marked(c, client', "list")
  BY <1>1, AskingMarks
<1>3. client'.mirror = c.mirror
  BY <1>2 DEF Marked
<1>4. ASSUME NEW t \in DOMAIN client'.mirror, Shown(t)'
      PROVE  t \in Tracked(c, page')
  BY <1>3, <1>4 DEF Shown, Tracked, Prudent
<1> QED  BY <1>1, <1>2, <1>4 DEF AskedFor

LEMMA ListTurns ==
    ASSUME NEW c \in Client, Prudent(c), NEW wanted, Refresh(c) \/ EndRefresh(c, wanted)
    PROVE  \/ Refresh(c) /\ list' = list /\ client' = c
           \/ list'.state # "answered" /\ AskedFor' /\ Marked(c, client', "list")
<1>1. CASE Ask(c)
  BY <1>1, AskAsks
<1>2. CASE list' = Idle /\ client' = Over(c, "list")
  BY <1>2, OverMarks, Constants DEF Idle, AskedFor
<1>3. CASE Refresh(c)
  BY <1>1, <1>3 DEF Refresh
<1> QED  BY <1>1, <1>2, <1>3 DEF EndRefresh

(* The list goes on.                                                       *)
LEMMA CountedStays ==
    ASSUME Inv, Inv', Counted, UNCHANGED serverVars, list' = list, page' = page,
           op' = op \/ op'.state # "answered", Noticed(client, client', {"list"}),
           Hearing' /\ "list" \notin client'.outdated => Hearing,
           \A t \in Tasks :
               Counts /\ Since(t) /\ Untouched("list", t)' /\ client'.known = client.known =>
               (News(t, list.rev) => News(t, list.rev)')
    PROVE  Counted'
<1> SUFFICES ASSUME Counts'
             PROVE  Complete' /\ \A t \in Tasks : Untouched("list", t)' => Since(t)'
  BY DEF Counted
<1>1. instance' = instance /\ tasks' = tasks
  BY DEF serverVars
<1>2. /\ Hearing /\ list.state = "answered" /\ "list" \notin client'.outdated
      /\ "list" \notin client.outdated /\ client'.known = client.known
      /\ client'.watermark = client.watermark
  BY DEF Counts, Noticed
<1>3. Counts /\ Complete
  BY <1>2 DEF Counts, Counted
<1>4. Complete'
  BY <1>1, <1>2, <1>3 DEF Complete, Snapshot
<1>5. ASSUME NEW t \in Tasks, Untouched("list", t)'
      PROVE  Since(t)'
  <2>1. Untouched("list", t) /\ Same(client, client', t)
    BY <1>5 DEF Noticed, Untouched
  <2>2. Since(t) /\ (News(t, list.rev) => News(t, list.rev)')
    BY <1>2, <1>3, <1>5, <2>1 DEF Counted
  <2>3. /\ t \in DOMAIN client.mirror <=> t \in DOMAIN client'.mirror
        /\ t \in DOMAIN client.mirror => client'.mirror[t] = client.mirror[t]
        /\ t \in DOMAIN client.deleted <=> t \in DOMAIN client'.deleted
        /\ t \in DOMAIN client.deleted => client'.deleted[t] = client.deleted[t]
    BY <1>2, <2>1 DEF Same
  <2>4. t \in DOMAIN client'.mirror /\ Shown(t)' => Shown(t)
    BY <2>3 DEF Shown
  <2>5. AnswerAfter(t, list.rev)' => AnswerAfter(t, list.rev)
    BY <1>1 DEF AnswerAfter
  <2> QED  BY <1>1, <1>2, <2>2, <2>3, <2>4, <2>5 DEF Since
<1> QED  BY <1>4, <1>5

LEMMA PluginFollows ==
    ASSUME Inv, Inv', InTouch, UNCHANGED serverVars, LastWord', Sober(client)',
           DOMAIN client'.deleted \subseteq buried', StillFailed', Following',
           \A t \in Tasks, s \in Snap : Carried(t, s)' => Carried(t, s),
           \A t \in Tasks, j \in Instances, q \in Revisions : Dead(t, j, q)' => Dead(t, j, q),
           \A t \in DOMAIN client'.mirror : Heard(t, SnapOf(client'.mirror[t])),
           \/ list'.state # "answered" /\ AskedFor'
           \/ /\ list' = list /\ page' = page /\ (op' = op \/ op'.state # "answered")
              /\ Noticed(client, client', {"list"})
              /\ Hearing' /\ "list" \notin client'.outdated => Hearing
              /\ \A t \in Tasks :
                     Counts /\ Since(t) /\ Untouched("list", t)' /\ client'.known = client.known =>
                         (News(t, list.rev) => News(t, list.rev)')
    PROVE  InTouch'
<1>1. list' = list \/ list'.state # "answered"
  OBVIOUS
<1>2. Credible'
  <2>1. \A t \in Tasks, s \in Snap : Heard(t, s)' => Heard(t, s)
    BY <1>1, HeardStays
  <2> QED  BY <2>1, CredibleStays DEF InTouch
<1>3. AskedFor' /\ Counted'
  <2>1. CASE list'.state # "answered" /\ AskedFor'
    BY <2>1 DEF Counted, Counts
  <2>2. CASE /\ list' = list /\ page' = page /\ (op' = op \/ op'.state # "answered")
             /\ Noticed(client, client', {"list"})
             /\ Hearing' /\ "list" \notin client'.outdated => Hearing
             /\ \A t \in Tasks :
                    Counts /\ Since(t) /\ Untouched("list", t)' /\ client'.known = client.known =>
                        (News(t, list.rev) => News(t, list.rev)')
    BY <2>2, AskedStays, CountedStays DEF InTouch
  <2> QED  BY <2>1, <2>2
<1> QED  BY <1>2, <1>3 DEF InTouch

LEMMA StillFailedStays ==
    ASSUME Inv', StillFailed, op' = op \/ op' = Idle, Noticed(client, client', {"op"})
    PROVE  StillFailed'
<1>1. CASE op' = Idle
  BY <1>1 DEF StillFailed, Idle
<1>2. CASE op' = op
  <2> SUFFICES ASSUME op.state \in {"asked", "answered"}, op.kind = "clear",
                      NEW t \in op.victims \cap DOMAIN client'.mirror, Untouched("op", t)'
               PROVE  client'.mirror[t].status = "failed"
    BY <1>2 DEF StillFailed
  <2>1. t \in Tasks
    BY EntryFields DEF Inv, Proper
  <2>2. Untouched("op", t) /\ Same(client, client', t)
    BY <2>1 DEF Noticed, Untouched
  <2> QED  BY <2>2 DEF Same, StillFailed
<1> QED  BY <1>1, <1>2

LEMMA HeardOfMirror == \A t \in DOMAIN client.mirror : Heard(t, SnapOf(client.mirror[t]))
BY DEF Heard

(* The request for the list that follows.                                  *)
LEMMA TurnFollows ==
    ASSUME Inv, Inv', InTouch, UNCHANGED serverVars, LastWord', StillFailed', Following',
           \A t \in Tasks, s \in Snap : Carried(t, s)' => Carried(t, s),
           \A t \in Tasks, j \in Instances, q \in Revisions : Dead(t, j, q)' => Dead(t, j, q),
           op' = op \/ op'.state # "answered",
           NEW c \in Client, Sober(c), DOMAIN c.deleted \subseteq buried',
           \A t \in DOMAIN c.mirror : Heard(t, SnapOf(c.mirror[t])), NEW wanted,
           \/ EndRefresh(c, wanted)
           \/ /\ Refresh(c) /\ page' = page /\ Noticed(client, c, {"list"})
              /\ UNCHANGED streamVars \/ ~(Hearing' /\ "list" \notin c.outdated)
    PROVE  InTouch'
<1>1. instance' = instance /\ revision' = revision
  BY DEF serverVars
<1>2. Prudent(c)
  BY DEF Prudent, Sober
<1>3. \/ Refresh(c) /\ list' = list /\ client' = c
      \/ list'.state # "answered" /\ AskedFor' /\ Marked(c, client', "list")
  BY <1>2, ListTurns
<1>4. /\ client'.mirror = c.mirror /\ client'.known = c.known
      /\ client'.watermark = c.watermark /\ client'.deleted = c.deleted
  BY <1>3 DEF Marked
<1>5. /\ Sober(client)' /\ DOMAIN client'.deleted \subseteq buried'
      /\ \A t \in DOMAIN client'.mirror : Heard(t, SnapOf(client'.mirror[t]))
  BY <1>1, <1>4 DEF Sober
<1>6. CASE list'.state # "answered" /\ AskedFor'
  BY <1>5, <1>6, PluginFollows
<1>7. CASE Refresh(c) /\ list' = list /\ client' = c
  <2>1. CASE list.state # "answered"
    <3>1. CASE EndRefresh(c, wanted)
      BY <1>6, <1>7, <2>1, <3>1, <1>2, AskAsks, Constants DEF EndRefresh, AskedFor, Idle
    <3>2. CASE ~EndRefresh(c, wanted)
      BY <1>6, <1>7, <2>1, <3>2, AskedStays DEF InTouch
    <3> QED  BY <3>1, <3>2
  <2>2. CASE list.state = "answered"
    <3>1. ~EndRefresh(c, wanted)
      BY <1>7, <2>2 DEF EndRefresh, Ask, Idle
    <3>2. /\ page' = page /\ Noticed(client, client', {"list"})
          /\ UNCHANGED streamVars \/ ~(Hearing' /\ "list" \notin client'.outdated)
      BY <1>7, <3>1
    <3>3. CASE UNCHANGED streamVars
      BY <1>5, <1>7, <3>2, <3>3, NewsStays, PluginFollows
    <3>4. CASE ~(Hearing' /\ "list" \notin client'.outdated)
      <4>1. AskedFor' /\ Counted'
        BY <1>7, <2>2, <3>4 DEF AskedFor, Counted, Counts
      <4>2. Credible'
        BY <1>5, <1>7, HeardStays, CredibleStays DEF InTouch
      <4> QED  BY <1>5, <4>1, <4>2 DEF InTouch
    <3> QED  BY <3>2, <3>3, <3>4
  <2> QED  BY <2>1, <2>2
<1> QED  BY <1>3, <1>6, <1>7

(* The plugin listens to the server as it runs, and has settled.           *)
Abreast == settled /\ Hearing /\ client.known = instance

LEMMA StillKnown ==
    ASSUME Inv, NEW j \in Instances, j <= instance, NEW d, NEW Q, Evolved(client, d, j, Q),
           client.known = instance
    PROVE  d.known = instance
<1>1. /\ d.known \in {client.known, j} /\ client.known <= d.known
      /\ j \in Nat /\ instance \in Nat
  BY Here, Constants DEF Evolved
<1> QED  BY <1>1

LEMMA FollowingStays ==
    ASSUME Inv, Following, UNCHANGED serverVars, settled' => settled, Hearing' => Hearing,
           NEW j \in Instances, j <= instance, NEW Q, Evolved(client, client', j, Q),
           Abreast /\ Abreast' => NoHarm' /\ \A t \in Tasks : Required(t)' => Follows(t)'
    PROVE  Following'
<1> SUFFICES ASSUME settled', Hearing'
             PROVE  /\ client'.known = instance' /\ NoHarm'
                    /\ \A t \in Tasks : Required(t)' => Follows(t)'
  BY DEF Following
<1>1. instance' = instance /\ Abreast
  BY DEF serverVars, Following, Abreast
<1>2. client'.known = instance
  BY <1>1, StillKnown DEF Abreast
<1>3. Abreast'
  BY <1>1, <1>2 DEF Abreast
<1> QED  BY <1>1, <1>2, <1>3

(* Nothing but the client changes, and perhaps the operation ends.         *)
LEMMA ClientFollows ==
    ASSUME Inv, Inv', InTouch, UNCHANGED <<serverVars, streamVars, list, page, settled>>,
           op' = op \/ op'.state # "answered",
           NEW j \in Instances, j <= instance, NEW Q, Evolved(client, client', j, Q),
           Noticed(client, client', {"list"}), Sober(client)',
           DOMAIN client'.deleted \subseteq buried', StillFailed',
           \A t \in DOMAIN client'.mirror : Heard(t, SnapOf(client'.mirror[t])),
           Abreast /\ Abreast' => NoHarm' /\ \A t \in Tasks : Required(t)' => Follows(t)'
    PROVE  InTouch'
<1>1. /\ LastWord' /\ (Hearing' <=> Hearing)
      /\ \A t, w : News(t, w) => News(t, w)'
  BY NewsStays DEF InTouch
<1>2. Following'
  BY <1>1, FollowingStays DEF InTouch
<1>3. /\ \A t \in Tasks, s \in Snap : Carried(t, s)' => Carried(t, s)
      /\ \A t \in Tasks, k \in Instances, q \in Revisions : Dead(t, k, q)' => Dead(t, k, q)
  BY DEF Carried, InStream, Dead, DeadInStream, streamVars
<1>4. \A t \in Tasks :
          Counts /\ Since(t) /\ Untouched("list", t)' /\ client'.known = client.known =>
              (News(t, list.rev) => News(t, list.rev)')
  BY <1>1
<1> QED  BY <1>1, <1>2, <1>3, <1>4, PluginFollows

LEMMA FollowsOn ==
    ASSUME UNCHANGED <<serverVars, streamVars>>, client'.watermark = client.watermark,
           NEW t, t \in DOMAIN client.mirror => t \in DOMAIN client'.mirror,
           t \in DOMAIN client.mirror => SnapOf(client'.mirror[t]) = SnapOf(client.mirror[t])
    PROVE  /\ Follows(t) => Follows(t)'
           /\ \A s : /\ Harmless(t, s)
                     /\ Buries(client, t, s.inst, s.rev) => Buries(client', t, s.inst, s.rev)
                     => Harmless(t, s)'
<1>1. instance' = instance /\ tasks' = tasks
  BY DEF serverVars
<1>2. t \in DOMAIN client.mirror =>
          /\ client'.mirror[t].inst = client.mirror[t].inst
          /\ client'.mirror[t].rev = client.mirror[t].rev
          /\ client'.mirror[t].attempt = client.mirror[t].attempt
          /\ client'.mirror[t].status = client.mirror[t].status
  BY DEF SnapOf
<1>3. \A w : News(t, w) => News(t, w)'
  BY NewsStays
<1>4. InPlace(t) => InPlace(t)'
  BY <1>1, <1>2 DEF InPlace, Agrees
<1>5. \A s : t \in DOMAIN tasks /\ s = Snapshot(tasks[t]) =>
                 t \in DOMAIN tasks' /\ s = Snapshot(tasks[t])'
  BY <1>1 DEF Snapshot
<1>6. News(t, client.watermark) => News(t, client.watermark)'
  BY <1>3
<1>7. Follows(t) => Follows(t)'
  BY <1>4, <1>6 DEF Follows
<1>8. ASSUME NEW s, Harmless(t, s),
             Buries(client, t, s.inst, s.rev) => Buries(client', t, s.inst, s.rev)
      PROVE  Harmless(t, s)'
  BY <1>2, <1>5, <1>6, <1>8 DEF Harmless
<1> QED  BY <1>7, <1>8

(* Nothing changes but marks.                                              *)
LEMMA SameFollows ==
    ASSUME Inv, UNCHANGED <<serverVars, streamVars, page>>, NEW j, NEW Q,
           Evolved(client, client', j, Q),
           client'.watermark = client.watermark, client'.mirror = client.mirror,
           op' = op \/ op'.state # "answered",
           Following, Abreast
    PROVE  NoHarm' /\ \A t \in Tasks : Required(t)' => Follows(t)'
<1>1. instance' = instance /\ tasks' = tasks
  BY DEF serverVars
<1>2. \A t : Required(t)' => Required(t)
  BY <1>1 DEF Required, Shown
<1>3. /\ \A t : Follows(t) => Follows(t)'
      /\ \A t, s : /\ Harmless(t, s)
                   /\ Buries(client, t, s.inst, s.rev) => Buries(client', t, s.inst, s.rev)
                   => Harmless(t, s)'
  BY FollowsOn
<1>4. NoHarm'
  <2>1. CASE op'.state # "answered"
    BY <2>1 DEF NoHarm
  <2>2. CASE op' = op
    <3> SUFFICES ASSUME op.state = "answered", op.kind \in {"submit", "retry"},
                        op.snap.inst = instance
                 PROVE  Harmless(op.task, op.snap)'
      BY <1>1, <2>2 DEF NoHarm
    <3>1. Harmless(op.task, op.snap)
      BY DEF Following, Abreast, NoHarm
    <3>2. op.task \in Tasks /\ op.snap.inst \in Instances /\ op.snap.rev \in Revisions
      BY AnsweredFacts DEF Snap
    <3>3. Buries(client, op.task, op.snap.inst, op.snap.rev)
              => Buries(client', op.task, op.snap.inst, op.snap.rev)
      BY <3>2 DEF Evolved
    <3>4. \A t, s : /\ Harmless(t, s)
                    /\ Buries(client, t, s.inst, s.rev) => Buries(client', t, s.inst, s.rev)
                    => Harmless(t, s)'
      BY <1>3
    <3> QED  BY <2>2, <3>1, <3>3, <3>4
  <2> QED  BY <2>1, <2>2
<1> QED  BY <1>2, <1>3, <1>4 DEF Following, Abreast

-----------------------------------------------------------------------------
(* The steps of the plugin that only mark, ask or end a request.           *)

LEMMA OpFollows ==
    ASSUME Inv, Inv', InTouch,
           UNCHANGED <<serverVars, streamVars, list, page, settled, buried>>,
           op'.state # "answered", StillFailed',
           client' = Asking(client, "op") \/ client' = Over(client, "op")
    PROVE  InTouch'
<1>1. /\ client \in Client /\ "op" \in Requests /\ {"list"} \in SUBSET (Requests \ {"op"})
      /\ instance' = instance /\ revision' = revision
  BY Constants DEF Inv, Proper, serverVars
<1>2. Marked(client, client', "op")
  BY <1>1, OverMarks, AskingMarks
<1>3. \E Q : Evolved(client, client', instance, Q)
  <2>1. Proper(client) /\ "op" \in Requests
    BY Here
  <2>2. /\ Evolved(client, Over(client, "op"), instance, Requests)
        /\ Evolved(client, Asking(client, "op"), instance, Requests \ {"op"})
    BY <2>1, OverEvolves, AskingEvolves
  <2>3. CASE client' = Asking(client, "op")
    BY <2>2, <2>3
  <2>4. CASE client' = Over(client, "op")
    BY <2>2, <2>4
  <2> QED  BY <2>3, <2>4
<1>4. Noticed(client, client', {"list"})
  BY <1>1, <1>2, NothingNoticed, StillNoticed
<1>5. /\ Sober(client)' /\ DOMAIN client'.deleted \subseteq buried'
      /\ \A t \in DOMAIN client'.mirror : Heard(t, SnapOf(client'.mirror[t]))
  BY <1>1, <1>2, HeardOfMirror DEF Marked, InTouch, Sober
<1>6. Abreast /\ Abreast' => NoHarm' /\ \A t \in Tasks : Required(t)' => Follows(t)'
  <2>1. client'.watermark = client.watermark /\ client'.mirror = client.mirror
    BY <1>2 DEF Marked
  <2> QED  BY <1>3, <2>1, SameFollows DEF InTouch
<1> QED  BY <1>3, <1>4, <1>5, <1>6, Here, ClientFollows

LEMMA AsksFollow ==
    ASSUME Inv, Inv', InTouch,
           Submit \/ (\E t \in Tasks, kind \in {"retry", "delete"} : Operate(kind, t))
    PROVE  InTouch'
<1>1. /\ UNCHANGED <<serverVars, streamVars, list, page, settled, buried>>
      /\ client' = Asking(client, "op") /\ op'.state = "asked" /\ op'.kind # "clear"
  BY DEF Submit, Operate
<1>2. StillFailed'
  BY <1>1 DEF StillFailed
<1> QED  BY <1>1, <1>2, OpFollows

LEMMA ClearFailedFollows == ASSUME Inv, Inv', InTouch, ClearFailed PROVE InTouch'
<1>1. /\ UNCHANGED <<serverVars, streamVars, list, page, settled, buried>>
      /\ client' = Asking(client, "op") /\ op'.state = "asked"
      /\ op'.victims = {t \in DOMAIN client.mirror : client.mirror[t].status = "failed"}
  BY DEF ClearFailed
<1>2. client'.mirror = client.mirror
  BY <1>1, AskingMarks, Constants DEF Marked, Inv, Proper
<1>3. StillFailed'
  BY <1>1, <1>2 DEF StillFailed
<1> QED  BY <1>1, <1>3, OpFollows

(* An operation is refused or lost.                                        *)
LEMMA RefusedFollows ==
    ASSUME Inv, Inv', InTouch, Refused,
           UNCHANGED <<serverVars, streamVars, list, page, settled, buried>>
    PROVE  InTouch'
<1>1. client' = Over(client, "op") /\ op' = Idle /\ op'.state # "answered" /\ StillFailed'
  BY DEF Refused, StillFailed, Idle
<1> QED  BY <1>1, OpFollows

LEMMA ListFollows ==
    ASSUME Inv, Inv', InTouch, UNCHANGED <<serverVars, streamVars, page, op, settled, buried>>,
           NEW j \in Instances, j <= instance, NEW c, Evolved(client, c, j, Requests),
           Noticed(client, c, Requests), c.mirror = client.mirror, Sober(c),
           DOMAIN c.deleted \subseteq buried, NEW wanted \in BOOLEAN, EndRefresh(c, wanted)
    PROVE  InTouch'
<1>1. /\ c \in Client /\ "list" \in Requests /\ {"op"} \in SUBSET (Requests \ {"list"})
      /\ j \in Nat /\ page' \subseteq Tasks
  BY Constants DEF Evolved, Proper, Inv, PluginTyped
<1>2. client' = c \/ Marked(c, client', "list")
  BY <1>1, ListTurns DEF Prudent, Sober
<1>3. /\ client'.mirror = client.mirror /\ client'.known = c.known
      /\ client'.watermark = c.watermark
  BY <1>2 DEF Marked
<1>4. \E Q \in SUBSET Requests : Evolved(client, client', j, Q)
  BY <1>1, Here, Turning
<1>5. PICK Q \in SUBSET Requests : Evolved(client, client', j, Q)
  BY <1>4
<1>6. Noticed(client, client', {"op"}) /\ Noticed(client, c, {"list"})
  <2>1. Noticed(client, c, {"op"}) /\ Noticed(client, c, {"list"})
    BY Constants DEF Noticed
  <2> QED  BY <1>1, <1>2, <2>1, StillNoticed
<1>7. StillFailed'
  BY <1>6, StillFailedStays DEF InTouch
<1>8. LastWord' /\ (Hearing' <=> Hearing)
  BY NewsStays DEF InTouch
<1>9. Abreast /\ Abreast' => NoHarm' /\ \A t \in Tasks : Required(t)' => Follows(t)'
  <2> SUFFICES ASSUME Abreast, Abreast'
               PROVE  NoHarm' /\ \A t \in Tasks : Required(t)' => Follows(t)'
    OBVIOUS
  <2>1. client'.watermark = client.watermark
    BY <1>3, <1>6 DEF Abreast, Noticed, serverVars
  <2> QED  BY <1>3, <1>5, <2>1, SameFollows DEF InTouch
<1>10. Following'
  BY <1>5, <1>8, <1>9, FollowingStays DEF InTouch
<1>11. /\ \A t \in Tasks, s \in Snap : Carried(t, s)' => Carried(t, s)
       /\ \A t \in Tasks, k \in Instances, q \in Revisions : Dead(t, k, q)' => Dead(t, k, q)
  <2>1. list' = list \/ list'.state # "answered"
    BY <1>1, ListTurns DEF Prudent, Sober
  <2> QED  BY <2>1 DEF Carried, InStream, Dead, DeadInStream, streamVars
<1>12. \A t \in DOMAIN c.mirror : Heard(t, SnapOf(c.mirror[t]))
  BY HeardOfMirror
<1> QED  BY <1>1, <1>7, <1>8, <1>10, <1>11, <1>12, TurnFollows

LEMMA PollFollows == ASSUME Inv, Inv', InTouch, Poll \/ LoseList PROVE InTouch'
<1>1. /\ UNCHANGED <<serverVars, streamVars, page, op, settled, buried>>
      /\ \E wanted \in BOOLEAN : EndRefresh(client, wanted)
  <2>1. CASE Poll
    BY <2>1 DEF Poll, EndRefresh
  <2>2. CASE LoseList
    BY <2>2 DEF LoseList, Inv, PluginTyped
  <2> QED  BY <2>1, <2>2
<1>2. Evolved(client, client, instance, Requests) /\ Noticed(client, client, Requests)
  BY Here, Still, NothingNoticed
<1> QED  BY <1>1, <1>2, Here, ListFollows DEF InTouch

(* The stream breaks, or the plugin is loaded again.                       *)
LEMMA DisconnectFollows == ASSUME Inv, Inv', InTouch, Disconnect PROVE InTouch'
<1>1. /\ UNCHANGED <<serverVars, client, page, requestVars, buried>>
      /\ connected' = FALSE /\ stream' = <<>> /\ settled' = FALSE
      /\ list' = list /\ op' = op /\ client' = client /\ instance' = instance
      /\ revision' = revision
  BY DEF Disconnect, requestVars, serverVars
<1>2. LastWord' /\ Following' /\ ~Hearing'
  BY <1>1 DEF LastWord, Following, Hearing
<1>3. Sober(client)' /\ DOMAIN client'.deleted \subseteq buried'
  BY <1>1 DEF InTouch, Sober
<1>4. StillFailed'
  BY <1>1, NothingNoticed, StillFailedStays DEF InTouch
<1>5. DOMAIN stream' = {}
  BY <1>1, NoMap
<1>6. /\ \A t \in Tasks, s \in Snap : Carried(t, s)' => Carried(t, s)
      /\ \A t \in Tasks, k \in Instances, q \in Revisions : Dead(t, k, q)' => Dead(t, k, q)
  BY <1>1, <1>5 DEF Carried, InStream, Dead, DeadInStream
<1>7. Noticed(client, client', {"list"})
  BY <1>1, NothingNoticed
<1>8. ~Counts'
  BY <1>2 DEF Counts
<1>9. Credible' /\ AskedFor'
  BY <1>1, <1>6, <1>7, HeardOfMirror, HeardStays, CredibleStays, AskedStays DEF InTouch
<1> QED  BY <1>2, <1>3, <1>4, <1>8, <1>9 DEF InTouch, Counted

LEMMA ReloadFollows == ASSUME Inv, Inv', InTouch, Reload PROVE InTouch'
<1> DEFINE bound == {t \in DOMAIN client.mirror : client.mirror[t].bound}
           m == Restrict(client.mirror, bound)
           c == Forget(m)
<1>1. /\ page' = {} /\ settled' = FALSE /\ connected' = FALSE /\ stream' = <<>> /\ op' = Idle
      /\ Ask(c) /\ UNCHANGED <<serverVars, submission, buried>>
      /\ instance' = instance
  BY DEF Reload, serverVars
<1>2. client \in Client /\ bound \in SUBSET DOMAIN client.mirror
  BY DEF Inv, Proper
<1>3. /\ m \in Partial(Entry) /\ DOMAIN m = bound
      /\ \A t \in bound : m[t] = client.mirror[t]
  BY <1>2, ClientFields, RestrictPartial DEF Restrict
<1> HIDE DEF m
<1>4. /\ c \in Client /\ c.mirror = m /\ c.known = None /\ c.watermark = -1 /\ DOMAIN c.deleted = {}
      /\ c.deleted = <<>>
  BY <1>3, NoMap DEF Forget, Client
<1> HIDE DEF c
<1>5. Sober(c) /\ Prudent(c)
  <2>1. None # instance
    BY Here, Constants
  <2> QED  BY <1>3, <1>4, <2>1 DEF Sober, Prudent
<1>6. /\ LastWord' /\ Following' /\ ~Hearing' /\ StillFailed'
  BY <1>1 DEF LastWord, Following, Hearing, StillFailed, Idle
<1>7. list'.state = "asked" /\ AskedFor' /\ Marked(c, client', "list")
  BY <1>1, <1>4, <1>5, AskAsks
<1>8. DOMAIN stream' = {}
  BY <1>1, NoMap
<1>9. /\ \A t \in Tasks, s \in Snap : ~Carried(t, s)'
      /\ \A t \in Tasks, k \in Instances, q \in Revisions : ~Dead(t, k, q)'
  BY <1>1, <1>7, <1>8 DEF Carried, InStream, Dead, DeadInStream, Idle
<1>10. \A t \in DOMAIN client'.mirror : Heard(t, SnapOf(client'.mirror[t]))
  BY <1>3, <1>4, <1>7, HeardOfMirror DEF Marked
<1>11. Credible'
  BY <1>1, <1>7, <1>9, <1>10, HeardStays, CredibleStays DEF InTouch
<1>12. Sober(client)' /\ DOMAIN client'.deleted \subseteq buried'
  BY <1>1, <1>4, <1>5, <1>7 DEF Marked, Sober, serverVars
<1> QED  BY <1>6, <1>7, <1>11, <1>12 DEF InTouch, Counted, Counts

-----------------------------------------------------------------------------
(* The steps that change what the plugin knows of a task.                  *)

LEMMA NoHarmStays ==
    ASSUME Inv, UNCHANGED <<serverVars, streamVars>>, op' = op, NEW j, NEW Q,
           Evolved(client, client', j, Q), client'.watermark = client.watermark,
           \A t \in DOMAIN client.mirror :
               t \in DOMAIN client'.mirror /\ SnapOf(client'.mirror[t]) = SnapOf(client.mirror[t]),
           Following, Abreast
    PROVE  NoHarm'
<1> SUFFICES ASSUME op.state = "answered", op.kind \in {"submit", "retry"},
                    op.snap.inst = instance
             PROVE  Harmless(op.task, op.snap)'
  BY DEF NoHarm, serverVars
<1>1. Harmless(op.task, op.snap)
  BY DEF Following, Abreast, NoHarm
<1>2. op.task \in Tasks /\ op.snap.inst \in Instances /\ op.snap.rev \in Revisions
  BY AnsweredFacts DEF Snap
<1>3. Buries(client, op.task, op.snap.inst, op.snap.rev)
          => Buries(client', op.task, op.snap.inst, op.snap.rev)
  BY <1>2 DEF Evolved
<1>4. \A s : /\ Harmless(op.task, s)
             /\ Buries(client, op.task, s.inst, s.rev) => Buries(client', op.task, s.inst, s.rev)
             => Harmless(op.task, s)'
  BY FollowsOn
<1> QED  BY <1>1, <1>3, <1>4

LEMMA OthersFollow ==
    ASSUME UNCHANGED <<serverVars, streamVars, page>>, client'.watermark = client.watermark,
           NEW t, Others(client, client', t)
    PROVE  \A u \in Tasks \ {t} :
               (Required(u)' => Required(u)) /\ (Follows(u) => Follows(u)')
<1>1. tasks' = tasks
  BY DEF serverVars
<1> TAKE u \in Tasks \ {t}
<1>2. /\ u \in DOMAIN client.mirror <=> u \in DOMAIN client'.mirror
      /\ u \in DOMAIN client.mirror => client'.mirror[u] = client.mirror[u]
  BY DEF Others
<1>3. Follows(u) => Follows(u)'
  BY <1>2, FollowsOn
<1>4. Required(u)' => Required(u)
  BY <1>1, <1>2 DEF Required, Shown
<1> QED  BY <1>3, <1>4

LEMMA ImportFollows ==
    ASSUME Inv, Inv', InTouch, NEW t \in Tasks, Import(t)
    PROVE  InTouch'
<1> DEFINE e == [client.mirror[t] EXCEPT !.import = "imported"]
<1>1. /\ t \in DOMAIN client.mirror /\ client' = Put(client, t, e)
      /\ client.mirror[t].status = "done" /\ client.mirror[t].bound
      /\ UNCHANGED <<serverVars, streamVars, list, page, settled, buried, op>>
      /\ instance' = instance /\ revision' = revision
  BY DEF Import, requestVars, serverVars
<1>2. /\ client \in Client /\ Proper(client) /\ client.mirror[t] \in Entry
      /\ client.mirror[t].inst \in Nat /\ client.mirror[t].rev \in Nat
  BY <1>1, EntryFields DEF Inv, Proper
<1>3. /\ e \in Entry /\ SnapOf(e) = SnapOf(client.mirror[t]) /\ e.bound
      /\ e.import = "imported" /\ e.status = "done"
      /\ e.inst = client.mirror[t].inst /\ e.rev = client.mirror[t].rev
      /\ e.bound = client.mirror[t].bound
  BY <1>1, <1>2 DEF Entry, Imports, SnapOf
<1> HIDE DEF e
<1>4. /\ client'.known = client.known /\ client'.watermark = client.watermark
      /\ client'.deleted = client.deleted
      /\ DOMAIN client'.mirror = DOMAIN client.mirror /\ client'.mirror[t] = e
      /\ \A u \in DOMAIN client.mirror : u # t => client'.mirror[u] = client.mirror[u]
      /\ Noticed(client, client', Requests)
  <2>1. Noticed(client, client, Requests)
    BY NothingNoticed
  <2>2. Noticed(client, client', Requests)
    BY <1>1, <1>2, <1>3, <2>1, PutNoticed
  <2>3. /\ client'.known = client.known /\ client'.watermark = client.watermark
        /\ client'.deleted = client.deleted
        /\ DOMAIN client'.mirror = DOMAIN client.mirror \cup {t} /\ client'.mirror[t] = e
        /\ \A u \in DOMAIN client.mirror : u # t => client'.mirror[u] = client.mirror[u]
    BY <1>1, <1>2, <1>3, PutFields
  <2> QED  BY <1>1, <2>2, <2>3
<1>5. Evolved(client, client', instance, Requests)
  <2>1. \A k \in Instances : UpTo(client, k) => e.inst <= k
    BY <1>1, <1>3 DEF UpTo
  <2>2. e.rev >= client.mirror[t].rev
    BY <1>2, <1>3
  <2> QED  BY <1>1, <1>2, <1>3, <2>1, <2>2, PutEvolves
<1>6. Noticed(client, client', {"list"}) /\ Noticed(client, client', {"op"})
  BY <1>4, Constants DEF Noticed
<1>7. StillFailed' /\ Sober(client)' /\ DOMAIN client'.deleted \subseteq buried'
  BY <1>1, <1>3, <1>4, <1>6, StillFailedStays DEF InTouch, Sober
<1>8. /\ \A u \in DOMAIN client'.mirror : SnapOf(client'.mirror[u]) = SnapOf(client.mirror[u])
      /\ \A u \in DOMAIN client'.mirror : Heard(u, SnapOf(client'.mirror[u]))
  BY <1>3, <1>4, HeardOfMirror
<1>9. ASSUME Abreast, NEW u \in Tasks, Required(u)'
      PROVE  Follows(u)'
  <2>1. Follows(u) => Follows(u)'
    BY <1>1, <1>4, <1>8, FollowsOn
  <2>2. CASE u = t
    <3>1. tasks' = tasks /\ page' = page
      BY <1>1 DEF serverVars
    <3>2. Required(t)
      BY <1>1, <1>3, <1>4, <1>9, <2>2, <3>1 DEF Required, Shown, Live
    <3> QED  BY <1>9, <2>1, <2>2, <3>2 DEF InTouch, Following, Abreast
  <2>3. CASE u # t
    <3>1. Others(client, client', t)
      BY <1>4 DEF Others
    <3>2. Required(u)
      BY <1>1, <1>4, <1>9, <2>3, <3>1, OthersFollow
    <3> QED  BY <1>9, <2>1, <3>2 DEF InTouch, Following, Abreast
  <2> QED  BY <2>2, <2>3
<1>10. Abreast => NoHarm'
  BY <1>1, <1>4, <1>5, <1>8, NoHarmStays DEF InTouch
<1> QED  BY <1>1, <1>5, <1>6, <1>7, <1>8, <1>9, <1>10, Here, ClientFollows

(* What the plugin knows once a snapshot is taken in, or that a task is    *)
(* gone.                                                                   *)
LEMMA UpsertedKnown ==
    ASSUME Inv, InTouch, NEW t \in Tasks, NEW s \in Snap, Carried(t, s), UpTo(client, s.inst),
           NEW bind \in BOOLEAN
    PROVE  LET d == Upserted(client, t, s, FALSE, bind)
           IN /\ Sober(d) /\ DOMAIN d.deleted \subseteq DOMAIN client.deleted
              /\ \A u \in DOMAIN d.mirror : Heard(u, SnapOf(d.mirror[u]))
              /\ d.known = instance /\ client.known = instance =>
                     d.watermark = client.watermark /\ d.deleted = client.deleted
<1> DEFINE a == Accepted(client, s.inst)
           d == Upserted(client, t, s, FALSE, bind)
<1>1. Proper(client) /\ client \in Client /\ s.inst \in Instances /\ revision \in Nat
  BY Constants DEF Inv, Proper, Snap, ServerTyped
<1>2. /\ Others(client, d, t)
      /\ d.known = s.inst /\ d.watermark = a.watermark /\ d.deleted = a.deleted
      /\ Ignored(a, d, t, s) \/ Taken(a, d, t, s) \/ (bind /\ BoundNow(a, d, t))
  BY <1>1, UpsertedFacts
<1>3. /\ a.mirror = client.mirror /\ (s.inst = client.known => a = client)
      /\ s.inst # client.known => a.watermark = -1 /\ a.deleted = <<>>
  BY <1>1, AcceptedFields
<1>4. DOMAIN <<>> = {}
  BY NoMap
<1>5. Evolved(client, d, s.inst, Requests)
  BY TakenIn
<1> HIDE DEF a, d
<1>6. DOMAIN d.deleted \subseteq DOMAIN client.deleted
  BY <1>2, <1>3, <1>4
<1>7. /\ d.known = instance => d.watermark <= revision
      /\ d.known = instance => \A u \in DOMAIN d.deleted : d.deleted[u] <= revision
  <2>1. CASE s.inst = client.known
    BY <1>2, <1>3, <2>1 DEF InTouch, Sober
  <2>2. CASE s.inst # client.known
    BY <1>1, <1>2, <1>3, <1>4, <2>2
  <2> QED  BY <2>1, <2>2
<1>8. ASSUME NEW u \in DOMAIN d.mirror
      PROVE  /\ d.mirror[u].import = "pending" => d.mirror[u].bound
             /\ Heard(u, SnapOf(d.mirror[u]))
  <2>1. u \in Tasks
    BY <1>5, EntryFields DEF Evolved, Proper
  <2>2. CASE u # t
    <3>1. u \in DOMAIN client.mirror /\ d.mirror[u] = client.mirror[u]
      BY <1>2, <2>1, <2>2 DEF Others
    <3> QED  BY <3>1, HeardOfMirror DEF InTouch, Sober
  <2>3. CASE u = t /\ Ignored(a, d, t, s)
    <3>1. u \in DOMAIN client.mirror /\ d.mirror[u] = client.mirror[u]
      BY <1>3, <2>3 DEF Ignored
    <3> QED  BY <3>1, HeardOfMirror DEF InTouch, Sober
  <2>4. CASE u = t /\ Taken(a, d, t, s)
    BY <1>3, <2>4 DEF InTouch, Sober, Taken, Heard
  <2>5. CASE u = t /\ BoundNow(a, d, t)
    BY <1>3, <2>5, HeardOfMirror DEF BoundNow
  <2> QED  BY <1>2, <2>2, <2>3, <2>4, <2>5
<1>9. Sober(d)
  BY <1>7, <1>8 DEF Sober
<1>10. d.known = instance /\ client.known = instance =>
           d.watermark = client.watermark /\ d.deleted = client.deleted
  BY <1>2, <1>3
<1> QED  BY <1>6, <1>8, <1>9, <1>10 DEF d

LEMMA ForgottenKnown ==
    ASSUME Inv, InTouch, NEW t \in Tasks, NEW i \in Instances, NEW r \in Revisions,
           Dead(t, i, r), UpTo(client, i)
    PROVE  LET d == Forgotten(client, t, i, r)
           IN /\ Sober(d)
              /\ DOMAIN d.deleted \subseteq IF DeletionIsNews(client, t, i, r)
                                            THEN buried \cup {t} ELSE buried
              /\ \A u \in DOMAIN d.mirror : Heard(u, SnapOf(d.mirror[u]))
              /\ d.known = instance /\ client.known = instance =>
                     d.watermark = client.watermark
<1> DEFINE a == Accepted(client, i)
           d == Forgotten(client, t, i, r)
           news == DeletionIsNews(client, t, i, r)
<1>1. Proper(client) /\ client \in Client /\ revision \in Nat
  BY Constants DEF Inv, Proper, ServerTyped
<1>2. /\ Others(client, d, t)
      /\ d.known = i /\ d.watermark = a.watermark /\ (~news => d = a)
      /\ news => /\ t \notin DOMAIN d.mirror
                 /\ DOMAIN d.deleted = DOMAIN a.deleted \cup {t} /\ d.deleted[t] = r
                 /\ \A u \in DOMAIN a.deleted \ {t} : d.deleted[u] = a.deleted[u]
  BY <1>1, ForgottenFacts
<1>3. /\ a.mirror = client.mirror /\ (i = client.known => a = client)
      /\ i # client.known => a.watermark = -1 /\ a.deleted = <<>>
  BY <1>1, AcceptedFields
<1>4. DOMAIN <<>> = {}
  BY NoMap
<1>5. Evolved(client, d, i, Requests)
  BY WordOfDeletion
<1>6. i = instance => r <= revision
  BY Constants DEF Inv, Gone, Precedes, ServerTyped
<1> HIDE DEF a, d, news
<1>7. DOMAIN d.deleted \subseteq IF news THEN buried \cup {t} ELSE buried
  BY <1>2, <1>3, <1>4 DEF InTouch
<1>8. /\ i = instance => a.watermark <= revision
      /\ i = instance => \A u \in DOMAIN a.deleted : a.deleted[u] <= revision
  <2>1. CASE i = client.known
    BY <1>3, <2>1 DEF InTouch, Sober
  <2>2. CASE i # client.known
    BY <1>1, <1>3, <1>4, <2>2
  <2> QED  BY <2>1, <2>2
<1>9. /\ d.known = instance => d.watermark <= revision
      /\ d.known = instance => \A u \in DOMAIN d.deleted : d.deleted[u] <= revision
  <2>1. CASE news
    BY <1>2, <1>6, <1>8, <2>1
  <2>2. CASE ~news
    BY <1>2, <1>8, <2>2
  <2> QED  BY <2>1, <2>2
<1>10. ASSUME NEW u \in DOMAIN d.mirror
       PROVE  u \in DOMAIN client.mirror /\ d.mirror[u] = client.mirror[u]
  <2>1. u \in Tasks
    BY <1>5, EntryFields DEF Evolved, Proper
  <2> QED  BY <1>2, <1>3, <2>1 DEF Others
<1>11. Sober(d)
  BY <1>9, <1>10 DEF InTouch, Sober
<1>12. \A u \in DOMAIN d.mirror : Heard(u, SnapOf(d.mirror[u]))
  BY <1>10, HeardOfMirror
<1>13. d.known = instance /\ client.known = instance => d.watermark = client.watermark
  BY <1>2, <1>3
<1> QED  BY <1>7, <1>11, <1>12, <1>13 DEF d, news

(* The answer to an operation is applied.                                  *)
LEMMA OverFollows ==
    ASSUME Inv, Inv', InTouch, UNCHANGED <<serverVars, streamVars, list, page, settled>>,
           op' = Idle, NEW j \in Instances, j <= instance, NEW c,
           Evolved(client, c, j, Requests), Noticed(client, c, Requests), Sober(c),
           DOMAIN c.deleted \subseteq buried',
           \A t \in DOMAIN c.mirror : Heard(t, SnapOf(c.mirror[t])), client' = Over(c, "op"),
           Abreast /\ c.known = instance => \A t \in Tasks : Required(t)' => Follows(t)'
    PROVE  InTouch'
<1>1. /\ c \in Client /\ Proper(c) /\ Proper(client) /\ "op" \in Requests /\ j \in Nat
      /\ {"list"} \in SUBSET (Requests \ {"op"}) /\ instance' = instance /\ revision' = revision
  BY Constants DEF Evolved, Proper, Inv, serverVars
<1>2. Marked(c, client', "op") /\ Evolved(c, client', j, Requests) /\ client'.mirror = c.mirror
  BY <1>1, OverMarks, OverEvolves
<1>3. Evolved(client, client', j, Requests)
  BY <1>1, <1>2, EvolvedTwice
<1>4. Noticed(client, client', {"list"})
  <2>1. Noticed(client, c, {"list"})
    BY Constants DEF Noticed
  <2> QED  BY <1>1, <1>2, <2>1, StillNoticed
<1>5. /\ Sober(client)' /\ DOMAIN client'.deleted \subseteq buried'
      /\ \A t \in DOMAIN client'.mirror : Heard(t, SnapOf(client'.mirror[t]))
      /\ client'.known = c.known
  BY <1>1, <1>2 DEF Marked, Sober
<1>6. StillFailed' /\ NoHarm' /\ op'.state # "answered"
  BY DEF StillFailed, NoHarm, Idle
<1>7. Abreast /\ Abreast' => NoHarm' /\ \A t \in Tasks : Required(t)' => Follows(t)'
  BY <1>1, <1>5, <1>6 DEF Abreast
<1> QED  BY <1>3, <1>4, <1>5, <1>6, <1>7, ClientFollows

LEMMA AnswerFollows ==
    ASSUME Inv, Inv', InTouch, op.state = "answered", op.kind \in {"submit", "retry"},
           op' = Idle, UNCHANGED <<serverVars, streamVars, list, page, settled, buried>>,
           NEW bind \in BOOLEAN, NEW c, client' = Over(c, "op"),
           \/ /\ CanApply(client, op.snap.inst)
              /\ c = Upserted(client, op.task, op.snap, FALSE, bind)
           \/ /\ op.task \in DOMAIN client.mirror /\ ~client.mirror[op.task].bound
              /\ c = Put(client, op.task, Bind(client.mirror[op.task]))
           \/ c = client
    PROVE  InTouch'
<1> DEFINE t == op.task
           s == op.snap
<1>1. t \in Tasks /\ s \in Snap /\ Carried(t, s) /\ AnswerOf = s.inst /\ op.kind # "clear"
  BY AnsweredFacts
<1>2. Proper(client) /\ client \in Client /\ Noticed(client, client, Requests)
  BY NothingNoticed DEF Inv, Proper
<1> DEFINE Fine(j) ==
               /\ Evolved(client, c, j, Requests) /\ Noticed(client, c, Requests) /\ Sober(c)
               /\ DOMAIN c.deleted \subseteq buried
               /\ \A u \in DOMAIN c.mirror : Heard(u, SnapOf(c.mirror[u]))
               /\ Others(client, c, t)
               /\ client.known = instance /\ c.known = instance =>
                      c.watermark = client.watermark
           Known == \/ c.mirror = client.mirror \/ BoundNow(client, c, t)
                    \/ s.inst = instance /\ Taken(client, c, t, s)
           Good == \E j \in Instances :
                       j <= instance /\ Fine(j) /\ (Abreast /\ c.known = instance => Known)
<1>3. ASSUME CanApply(client, s.inst), c = Upserted(client, t, s, FALSE, bind)
      PROVE  Good
  <2>1. UpTo(client, s.inst)
    BY <1>1, <1>3, AnswerHeard
  <2>2. Evolved(client, c, s.inst, Requests) /\ s.inst \in Instances /\ s.inst <= instance
    BY <1>1, <1>3, <2>1, TakenIn
  <2> DEFINE a == Accepted(client, s.inst)
  <2>3. /\ Noticed(client, c, Requests) /\ Others(client, c, t) /\ c.known = s.inst
        /\ Ignored(a, c, t, s) \/ Taken(a, c, t, s) \/ (bind /\ BoundNow(a, c, t))
    BY <1>1, <1>2, <1>3, <2>1, UpsertedFacts
  <2>4. /\ Sober(c) /\ DOMAIN c.deleted \subseteq DOMAIN client.deleted
        /\ \A u \in DOMAIN c.mirror : Heard(u, SnapOf(c.mirror[u]))
        /\ c.known = instance /\ client.known = instance => c.watermark = client.watermark
    BY <1>1, <1>3, <2>1, UpsertedKnown
  <2>5. s.inst = client.known => a = client
    BY <1>2, AcceptedFields
  <2> HIDE DEF a, t, s
  <2>6. Fine(s.inst)
    BY <2>2, <2>3, <2>4 DEF InTouch
  <2>7. Abreast /\ c.known = instance => Known
    BY <2>3, <2>5 DEF Abreast, Ignored
  <2> HIDE DEF Fine, Known
  <2> QED  BY <2>2, <2>6, <2>7
<1>4. ASSUME t \in DOMAIN client.mirror, ~client.mirror[t].bound,
             c = Put(client, t, Bind(client.mirror[t]))
      PROVE  Good
  <2>1. /\ Noticed(client, c, Requests) /\ Others(client, c, t) /\ BoundNow(client, c, t)
        /\ c.known = client.known /\ c.watermark = client.watermark
        /\ c.deleted = client.deleted
    BY <1>2, <1>4, BoundFacts
  <2>2. Evolved(client, c, instance, Requests)
    BY <1>4, Unmoved
  <2> HIDE DEF t, s
  <2>3. \A u \in DOMAIN c.mirror :
            /\ u \in DOMAIN client.mirror /\ SnapOf(c.mirror[u]) = SnapOf(client.mirror[u])
            /\ c.mirror[u].import = "pending" => c.mirror[u].bound
    <3> TAKE u \in DOMAIN c.mirror
    <3>1. u \in Tasks
      BY <2>2, EntryFields DEF Evolved, Proper
    <3> QED  BY <2>1, <3>1 DEF Others, BoundNow, InTouch, Sober
  <2>4. Sober(c) /\ \A u \in DOMAIN c.mirror : Heard(u, SnapOf(c.mirror[u]))
    BY <2>1, <2>3, HeardOfMirror DEF InTouch, Sober
  <2>5. Fine(instance)
    BY <2>1, <2>2, <2>4 DEF InTouch
  <2>6. Known
    BY <2>1
  <2> HIDE DEF Fine, Known
  <2> QED  BY <2>5, <2>6, Here
<1>5. ASSUME c = client PROVE Good
  <2>1. Evolved(client, c, instance, Requests) /\ Others(client, c, t)
    BY <1>5, Here, Still DEF Others
  <2>2. Fine(instance)
    BY <1>2, <1>5, <2>1, HeardOfMirror DEF InTouch
  <2>3. Known
    BY <1>5
  <2> HIDE DEF Fine, Known
  <2> QED  BY <2>2, <2>3, Here
<1>6. Good
  <2> HIDE DEF Good
  <2> QED  BY <1>3, <1>4, <1>5
<1>7. PICK j \in Instances : j <= instance /\ Fine(j) /\ (Abreast /\ c.known = instance => Known)
  <2> HIDE DEF Fine, Known
  <2> QED  BY <1>6
<1> HIDE DEF t, s
<1>8. ASSUME Abreast, c.known = instance, NEW u \in Tasks, Required(u)'
      PROVE  Follows(u)'
  <2>1. /\ client'.mirror = c.mirror /\ client'.watermark = client.watermark
        /\ instance' = instance /\ tasks' = tasks /\ page' = page
    <3>1. c \in Client /\ "op" \in Requests
      BY <1>7, Constants DEF Evolved, Proper
    <3>2. client'.mirror = c.mirror /\ client'.watermark = c.watermark
      BY <3>1, OverMarks DEF Marked
    <3> QED  BY <1>7, <1>8, <3>2 DEF Abreast, serverVars
  <2>2. CASE u # t
    <3>1. Others(client, client', t)
      BY <1>7, <2>1 DEF Others
    <3>2. (Required(u)' => Required(u)) /\ (Follows(u) => Follows(u)')
      BY <2>1, <2>2, <3>1, OthersFollow
    <3> QED  BY <1>8, <3>2 DEF InTouch, Following, Abreast
  <2>3. CASE u = t /\ c.mirror = client.mirror
    <3>1. Required(u)
      BY <1>8, <2>1, <2>3 DEF Required, Shown
    <3>2. Follows(u) => Follows(u)'
      BY <2>1, <2>3, FollowsOn
    <3> QED  BY <1>8, <3>1, <3>2 DEF InTouch, Following, Abreast
  <2>4. CASE u = t /\ BoundNow(client, c, t)
    <3>1. Required(u)
      BY <2>4 DEF Required, BoundNow
    <3>2. Follows(u) => Follows(u)'
      BY <2>1, <2>4, FollowsOn DEF BoundNow
    <3> QED  BY <1>8, <3>1, <3>2 DEF InTouch, Following, Abreast
  <2>5. CASE u = t /\ s.inst = instance /\ Taken(client, c, t, s)
    <3>1. NoHarm /\ client.known = instance
      BY <1>8 DEF InTouch, Following, Abreast
    <3>2. Harmless(t, s)
      BY <2>5, <3>1 DEF NoHarm, t, s
    <3>3. ~Burying(client, t, s) /\ ~Stale(client, t, s, FALSE) /\ t \in DOMAIN client'.mirror
          /\ SnapOf(client'.mirror[t]) = s
      BY <2>1, <2>5 DEF Taken
    <3>4. ~Buries(client, t, s.inst, s.rev)
      BY <2>5, <3>1, <3>3, Here DEF Burying, Stale, Buries
    <3>5. t \in DOMAIN client.mirror /\ client.mirror[t].inst = s.inst =>
              ~(client.mirror[t].rev >= s.rev)
      <4>1. s.rev \in Nat
        BY <1>1, Constants DEF Snap
      <4>2. \A v \in DOMAIN client.mirror : client.mirror[v].rev \in Nat
        BY <1>2, EntryFields
      <4> QED  BY <3>3, <4>1, <4>2 DEF Stale
    <3>6. CASE t \in DOMAIN tasks /\ s = Snapshot(tasks[t])
      <4>1. /\ client'.mirror[t].inst = instance /\ client'.mirror[t].rev = tasks[t].rev
            /\ client'.mirror[t].attempt = tasks[t].attempt
            /\ client'.mirror[t].status = tasks[t].status
        BY <3>3, <3>6 DEF SnapOf, Snapshot
      <4> QED  BY <2>1, <2>5, <3>3, <3>6, <4>1 DEF Follows, InPlace, Agrees
    <3>7. CASE News(t, client.watermark)
      BY <2>1, <2>5, <3>7, NewsStays DEF Follows
    <3> QED  BY <3>2, <3>4, <3>5, <3>6, <3>7 DEF Harmless
  <2> QED  BY <1>7, <1>8, <2>2, <2>3, <2>4, <2>5
<1>9. DOMAIN c.deleted \subseteq buried'
  BY <1>7
<1> QED  BY <1>7, <1>8, <1>9, OverFollows

LEMMA SubmitAppliedFollows == ASSUME Inv, Inv', InTouch, SubmitApplied PROVE InTouch'
<1> DEFINE t == op.task
           c == IF CanApply(client, op.snap.inst)
                THEN Upserted(client, t, op.snap, FALSE, TRUE)
                ELSE IF t \in DOMAIN client.mirror /\ ~client.mirror[t].bound
                THEN Put(client, t, Bind(client.mirror[t]))
                ELSE client
<1>1. /\ op.state = "answered" /\ op.kind = "submit"
      /\ client' = Over(c, "op") /\ op' = Idle
      /\ UNCHANGED <<serverVars, streamVars, list, page, settled, buried>>
  BY DEF SubmitApplied
<1>2. \/ CanApply(client, op.snap.inst) /\ c = Upserted(client, t, op.snap, FALSE, TRUE)
      \/ /\ t \in DOMAIN client.mirror /\ ~client.mirror[t].bound
         /\ c = Put(client, t, Bind(client.mirror[t]))
      \/ c = client
  OBVIOUS
<1> HIDE DEF c
<1> QED  BY <1>1, <1>2, AnswerFollows

LEMMA RetryAppliedFollows == ASSUME Inv, Inv', InTouch, RetryApplied PROVE InTouch'
<1> DEFINE c == IF CanApply(client, op.snap.inst)
                THEN Upserted(client, op.task, op.snap, FALSE, FALSE) ELSE client
<1>1. /\ op.state = "answered" /\ op.kind = "retry"
      /\ client' = Over(c, "op") /\ op' = Idle
      /\ UNCHANGED <<serverVars, streamVars, list, page, settled, buried>>
  BY DEF RetryApplied
<1>2. \/ CanApply(client, op.snap.inst) /\ c = Upserted(client, op.task, op.snap, FALSE, FALSE)
      \/ c = client
  OBVIOUS
<1> HIDE DEF c
<1> QED  BY <1>1, <1>2, AnswerFollows

LEMMA DeleteAppliedFollows == ASSUME Inv, Inv', InTouch, DeleteApplied PROVE InTouch'
<1> DEFINE t == op.task
           i == op.inst
           r == op.rev
           d == Forgotten(client, t, i, r)
           news == DeletionIsNews(client, t, i, r)
<1>1. /\ op.state = "answered" /\ op.kind = "delete" /\ op' = Idle
      /\ UNCHANGED <<serverVars, streamVars, list, page, settled>>
      /\ instance' = instance /\ tasks' = tasks
  BY DEF DeleteApplied, serverVars
<1>2. /\ t \in Tasks /\ i \in Instances /\ r \in Revisions /\ Dead(t, i, r)
      /\ AnswerOf = i /\ Proper(client) /\ client \in Client
  BY <1>1 DEF Inv, PluginTyped, OpState, Idle, Dead, AnswerOf, Proper
<1>3. CASE CanApply(client, i)
  <2>1. UpTo(client, i)
    BY <1>1, <1>2, <1>3, AnswerHeard
  <2>2. client' = Over(d, "op") /\ buried' = IF news THEN buried \cup {t} ELSE buried
    BY <1>3 DEF DeleteApplied
  <2>3. /\ Evolved(client, d, i, Requests) /\ i <= instance /\ t \notin DOMAIN tasks
    BY <1>2, <2>1, WordOfDeletion
  <2>4. /\ Sober(d) /\ DOMAIN d.deleted \subseteq buried'
        /\ \A u \in DOMAIN d.mirror : Heard(u, SnapOf(d.mirror[u]))
        /\ d.known = instance /\ client.known = instance => d.watermark = client.watermark
    BY <1>2, <2>1, <2>2, ForgottenKnown
  <2>5. /\ Noticed(client, d, Requests) /\ Others(client, d, t) /\ d.known = i
        /\ ~news => d = Accepted(client, i)
        /\ news => t \notin DOMAIN d.mirror
        /\ i = client.known => Accepted(client, i) = client
    BY <1>2, <2>1, ForgottenFacts, AcceptedFields
  <2> HIDE DEF d, news, t, i, r
  <2>6. ASSUME Abreast, d.known = instance, NEW u \in Tasks, Required(u)'
        PROVE  Follows(u)'
    <3>1. client'.mirror = d.mirror /\ client'.watermark = client.watermark
      <4>1. d \in Client /\ "op" \in Requests
        BY <2>3, Constants DEF Evolved, Proper
      <4>2. client'.mirror = d.mirror /\ client'.watermark = d.watermark
        BY <2>2, <4>1, OverMarks DEF Marked
      <4> QED  BY <2>4, <2>6, <4>2 DEF Abreast
    <3>2. u # t \/ d = client
      BY <1>1, <2>3, <2>5, <2>6, <3>1 DEF Required, Abreast
    <3>3. CASE u # t
      <4>1. Others(client, client', t)
        BY <2>5, <3>1 DEF Others
      <4>2. (Required(u)' => Required(u)) /\ (Follows(u) => Follows(u)')
        BY <1>1, <3>1, <3>3, <4>1, OthersFollow
      <4> QED  BY <2>6, <4>2 DEF InTouch, Following, Abreast
    <3>4. CASE d = client
      <4>1. Required(u)
        BY <1>1, <2>6, <3>1, <3>4 DEF Required, Shown
      <4>2. Follows(u) => Follows(u)'
        BY <1>1, <3>1, <3>4, FollowsOn
      <4> QED  BY <2>6, <4>1, <4>2 DEF InTouch, Following, Abreast
    <3> QED  BY <3>2, <3>3, <3>4
  <2> QED  BY <1>1, <1>2, <2>2, <2>3, <2>4, <2>5, <2>6, OverFollows
<1>4. CASE ~CanApply(client, i)
  <2>1. client' = Over(client, "op") /\ UNCHANGED buried /\ Refused
    BY <1>1, <1>4 DEF DeleteApplied, Refused
  <2> QED  BY <1>1, <2>1, RefusedFollows
<1> QED  BY <1>3, <1>4

LEMMA ClearAppliedFollows == ASSUME Inv, Inv', InTouch, ClearApplied PROVE InTouch'
<1> DEFINE forgotten == IF Void(client, "op") THEN {}
                        ELSE {t \in op.victims : <<"op", t>> \notin client.touched}
           T == DOMAIN client.mirror \ forgotten
           c0 == [client EXCEPT !.mirror = Restrict(@, DOMAIN @ \ forgotten),
                                !.touched = @ \cup Requests \X forgotten]
           c == Over(c0, "op")
<1>1. /\ op.state = "answered" /\ op.kind = "clear" /\ op' = Idle /\ page' = page
      /\ Refresh(c) /\ instance' = instance /\ tasks' = tasks
      /\ UNCHANGED <<serverVars, streamVars, submission, faults, settled, buried>>
  BY DEF ClearApplied, serverVars
<1>2. forgotten \subseteq op.victims /\ \A t \in forgotten : Untouched("op", t)
  BY DEF Untouched
<1>3. op.victims \subseteq Tasks
  BY <1>1 DEF Inv, PluginTyped, OpState, Idle
<1> HIDE DEF forgotten
<1>4. /\ Restrict(client.mirror, T) \in Partial(Entry)
      /\ Requests \X forgotten \subseteq Requests \X Tasks /\ client \in Client
      /\ Proper(client) /\ "op" \in Requests /\ {"list"} \in SUBSET (Requests \ {"op"})
  BY <1>2, <1>3, ClientFields, RestrictPartial, Constants DEF Inv, Proper
<1>5. /\ c0.known = client.known /\ c0.retired = client.retired
      /\ c0.mirror = Restrict(client.mirror, T) /\ c0.outdated = client.outdated
      /\ c0.touched = client.touched \cup Requests \X forgotten
      /\ c0.watermark = client.watermark /\ c0.deleted = client.deleted
      /\ c0 \in Client
  BY <1>4 DEF Client
<1> HIDE DEF c0
<1>6. DOMAIN c0.mirror = T /\ \A t \in T : c0.mirror[t] = client.mirror[t]
  BY <1>5 DEF Restrict
<1>7. Evolved(client, c0, instance, Requests)
  <2>1. \A t \in Tasks, i \in Instances, r \in Revisions :
            Buries(client, t, i, r) => Buries(c0, t, i, r)
    BY <1>5 DEF Buries
  <2> QED  BY <1>4, <1>5, <2>1, Forgetting
<1>8. Noticed(client, c0, {"list"})
  <2>1. \A t \in Tasks : <<"list", t>> \notin c0.touched => t \notin forgotten
    BY <1>4, <1>5
  <2>2. \A t \in Tasks \ forgotten : Same(client, c0, t)
    BY <1>5, <1>6 DEF Same
  <2> QED  BY <1>5, <2>1, <2>2 DEF Noticed
<1>9. /\ Evolved(c0, c, instance, Requests) /\ c.mirror = c0.mirror /\ Marked(c0, c, "op")
  <2>1. Proper(c0) /\ c0 \in Client /\ "op" \in Requests
    BY <1>4, <1>5, <1>7 DEF Evolved
  <2>2. Evolved(c0, c, instance, Requests) /\ c.mirror = c0.mirror
    BY <2>1, OverEvolves
  <2> QED  BY <2>1, <2>2, OverMarks
<1> HIDE DEF c
<1>10. Evolved(client, c, instance, Requests) /\ Noticed(client, c, {"list"}) /\ c \in Client
  BY <1>4, <1>7, <1>8, <1>9, Here, EvolvedTwice, StillNoticed DEF Evolved, Proper
<1>11. /\ c.known = client.known /\ c.watermark = client.watermark
       /\ c.deleted = client.deleted
       /\ DOMAIN c.mirror = T /\ \A t \in T : c.mirror[t] = client.mirror[t]
  BY <1>5, <1>6, <1>9 DEF Marked
<1>12. /\ Sober(c) /\ DOMAIN c.deleted \subseteq buried'
       /\ \A t \in DOMAIN c.mirror : Heard(t, SnapOf(c.mirror[t]))
  BY <1>1, <1>11, HeardOfMirror DEF InTouch, Sober
<1>13. /\ StillFailed' /\ NoHarm' /\ op'.state # "answered" /\ LastWord'
       /\ (Hearing' <=> Hearing)
  BY <1>1, NewsStays DEF StillFailed, NoHarm, Idle, InTouch
<1>14. DOMAIN c.mirror \subseteq 1..created /\ page' \subseteq Tasks /\ instance \in Nat
  BY <1>1, <1>11, Here DEF Inv, PluginTyped
<1>15. /\ client'.mirror = c.mirror /\ (list' = list \/ list'.state # "answered")
       /\ \E Q \in SUBSET Requests : Evolved(client, client', instance, Q)
  <2>1. FALSE \in BOOLEAN
    OBVIOUS
  <2>2. /\ client'.mirror = c.mirror
        /\ \/ list' = list \/ list' = Idle
           \/ list'.state = "asked" /\ list'.tracked \subseteq 1..created
        /\ \E Q \in SUBSET Requests : Evolved(client, client', instance, Q)
    BY <1>1, <1>10, <1>11, <1>14, <2>1, Turning
  <2> QED  BY <2>2 DEF Idle
<1>16. client'.watermark = client.watermark /\ client'.known = client.known
  <2>1. client' = c \/ Marked(c, client', "list")
    BY <1>1, <1>10, <1>12, ListTurns DEF Prudent, Sober
  <2> QED  BY <1>11, <2>1 DEF Marked
<1>17. ASSUME Abreast, NEW u \in Tasks, Required(u)'
       PROVE  Follows(u)'
  <2>1. CASE u \in forgotten /\ u \in DOMAIN client.mirror
    <3>1. u \in DOMAIN tasks /\ Live(tasks[u])
      BY <1>1, <1>11, <1>15, <1>17, <2>1 DEF Required
    <3>2. client.mirror[u].status = "failed"
      BY <1>1, <1>2, <2>1 DEF InTouch, StillFailed
    <3>3. Follows(u) /\ ~InPlace(u)
      BY <1>17, <3>1, <3>2 DEF InTouch, Following, Abreast, Required, InPlace, Agrees, Live
    <3> QED  BY <1>1, <1>16, <3>3, NewsStays DEF Follows
  <2>2. CASE ~(u \in forgotten /\ u \in DOMAIN client.mirror)
    <3>1. /\ u \in DOMAIN client.mirror <=> u \in DOMAIN client'.mirror
          /\ u \in DOMAIN client.mirror => client'.mirror[u] = client.mirror[u]
      BY <1>11, <1>15, <2>2
    <3>2. Required(u)
      BY <1>1, <1>17, <3>1 DEF Required, Shown
    <3>3. Follows(u) => Follows(u)'
      BY <1>1, <1>16, <3>1, FollowsOn
    <3> QED  BY <1>17, <3>2, <3>3 DEF InTouch, Following, Abreast
  <2> QED  BY <2>1, <2>2
<1>18. Following'
  BY <1>1, <1>13, <1>15, <1>17, Here, FollowingStays DEF InTouch
<1>19. /\ \A t \in Tasks, s \in Snap : Carried(t, s)' => Carried(t, s)
       /\ \A t \in Tasks, k \in Instances, q \in Revisions : Dead(t, k, q)' => Dead(t, k, q)
  BY <1>1, <1>13, <1>15 DEF Carried, InStream, Dead, DeadInStream, streamVars
<1> QED  BY <1>1, <1>10, <1>12, <1>13, <1>18, <1>19, TurnFollows

-----------------------------------------------------------------------------
(* The event stream is read.                                               *)

LEMMA Shift ==
    ASSUME Inv, stream # <<>>, stream' = Tail(stream)
    PROVE  /\ 1 \in DOMAIN stream /\ stream[1] = Head(stream)
           /\ \A n \in DOMAIN stream' :
                  /\ n \in Nat /\ n + 1 \in DOMAIN stream /\ stream'[n] = stream[n + 1]
           /\ \A n \in DOMAIN stream :
                  /\ n \in Nat
                  /\ n # 1 => n - 1 \in DOMAIN stream' /\ stream'[n - 1] = stream[n]
BY DEF Inv, ServerTyped

LEMMA NextWord ==
    ASSUME Inv, stream # <<>>, stream' = Tail(stream), connected' = connected,
           UNCHANGED serverVars
    PROVE  LET event == Head(stream)
           IN /\ LastWord => LastWord'
              /\ Hearing' /\ event.type # "open" => Hearing
              /\ LastWord /\ event.type = "resync" => ~connected
              /\ \A t, w : News(t, w) => News(t, w)' \/ (Final(event, t) /\ EventRev(event) > w)
              /\ \A t : LastWord /\ connected /\ event.type = "task" /\ event.task = t =>
                     \/ Final(event, t)
                     \/ \E n \in DOMAIN stream :
                            /\ Final(stream[n], t)
                            /\ \A w : EventRev(stream[n]) > w => News(t, w)'
<1> DEFINE event == Head(stream)
<1>1. /\ 1 \in DOMAIN stream /\ stream[1] = event
      /\ \A n \in DOMAIN stream' :
             /\ n \in Nat /\ n + 1 \in DOMAIN stream /\ stream'[n] = stream[n + 1]
      /\ \A n \in DOMAIN stream :
             /\ n \in Nat
             /\ n # 1 => n - 1 \in DOMAIN stream' /\ stream'[n - 1] = stream[n]
  BY Shift
<1> HIDE DEF event
<1>2. \A e, t : Final(e, t)' <=> Final(e, t)
  BY DEF Final, Snapshot, serverVars
<1>3. LastWord => LastWord'
  <2> SUFFICES ASSUME LastWord, connected, NEW n \in DOMAIN stream'
               PROVE  /\ stream'[n].type # "resync"
                      /\ stream'[n].type = "task" =>
                             \E m \in DOMAIN stream' :
                                 m >= n /\ Final(stream'[m], stream'[n].task)
    BY <1>2 DEF LastWord
  <2>1. n + 1 \in DOMAIN stream /\ stream'[n] = stream[n + 1] /\ n \in Nat
    BY <1>1
  <2>2. stream[n + 1].type # "resync"
    BY <2>1 DEF LastWord
  <2>3. ASSUME stream[n + 1].type = "task"
        PROVE  \E m \in DOMAIN stream' : m >= n /\ Final(stream'[m], stream'[n].task)
    <3>1. PICK m \in DOMAIN stream : m >= n + 1 /\ Final(stream[m], stream[n + 1].task)
      BY <2>1, <2>3 DEF LastWord
    <3>2. m \in Nat /\ m # 1 /\ m - 1 >= n
      <4>1. m \in Nat
        BY <1>1
      <4> QED  BY <2>1, <3>1, <4>1
    <3>3. m - 1 \in DOMAIN stream' /\ stream'[m - 1] = stream[m]
      BY <1>1, <3>2
    <3> QED  BY <2>1, <3>1, <3>2, <3>3
  <2> QED  BY <2>1, <2>2, <2>3
<1>4. Hearing' /\ event.type # "open" => Hearing
  <2> SUFFICES ASSUME Hearing', event.type # "open", NEW n \in DOMAIN stream
               PROVE  connected /\ stream[n].type # "open"
    BY <1>1 DEF Hearing
  <2> QED  BY <1>1 DEF Hearing
<1>5. LastWord /\ event.type = "resync" => ~connected
  BY <1>1 DEF LastWord
<1>6. ASSUME NEW t, NEW w, News(t, w)
      PROVE  News(t, w)' \/ (Final(event, t) /\ EventRev(event) > w)
  <2>1. PICK n \in DOMAIN stream : Final(stream[n], t) /\ EventRev(stream[n]) > w
    BY <1>6 DEF News
  <2>2. CASE n = 1
    BY <1>1, <2>1, <2>2
  <2>3. CASE n # 1
    BY <1>1, <1>2, <2>1, <2>3 DEF News
  <2> QED  BY <2>2, <2>3
<1>7. ASSUME LastWord, connected, event.type = "task", NEW t, t = event.task
      PROVE  \/ Final(event, t)
             \/ \E n \in DOMAIN stream :
                    Final(stream[n], t) /\ \A w : EventRev(stream[n]) > w => News(t, w)'
  <2>1. PICK m \in DOMAIN stream : m >= 1 /\ Final(stream[m], t)
    BY <1>1, <1>7 DEF LastWord
  <2>2. CASE m = 1
    BY <1>1, <2>1, <2>2
  <2>3. CASE m # 1
    BY <1>1, <1>2, <2>1, <2>3 DEF News
  <2> QED  BY <2>2, <2>3
<1> QED  BY <1>3, <1>4, <1>5, <1>6, <1>7 DEF event

(* Instance i is accepted.                                                 *)
LEMMA AcceptedKnown ==
    ASSUME Inv, InTouch, NEW i \in Instances, UpTo(client, i)
    PROVE  LET c == Accepted(client, i)
           IN /\ Evolved(client, c, i, Requests) /\ Noticed(client, c, Requests) /\ Sober(c)
              /\ c \in Client /\ c.mirror = client.mirror
              /\ DOMAIN c.deleted \subseteq DOMAIN client.deleted
              /\ \A t \in DOMAIN c.mirror : Heard(t, SnapOf(c.mirror[t]))
<1> DEFINE c == Accepted(client, i)
<1>1. Proper(client) /\ client \in Client /\ revision \in Nat
  BY Constants DEF Inv, Proper, ServerTyped
<1>2. Evolved(client, c, i, Requests) /\ Noticed(client, c, Requests)
  BY <1>1, AcceptedEvolves, AcceptedNoticed
<1>3. /\ c.mirror = client.mirror /\ c.known = i /\ (i = client.known => c = client)
      /\ i # client.known => c.watermark = -1 /\ c.deleted = <<>>
  BY <1>1, AcceptedFields
<1>4. DOMAIN <<>> = {}
  BY NoMap
<1> HIDE DEF c
<1>5. c \in Client
  BY <1>2 DEF Evolved, Proper
<1>6. CASE i = client.known
  BY <1>2, <1>3, <1>5, <1>6, HeardOfMirror DEF InTouch, c
<1>7. CASE i # client.known
  <2>1. Sober(c) /\ DOMAIN c.deleted \subseteq DOMAIN client.deleted
    BY <1>1, <1>3, <1>4, <1>7 DEF InTouch, Sober
  <2> QED  BY <1>2, <1>3, <1>5, <2>1, HeardOfMirror DEF c
<1> QED  BY <1>6, <1>7

(* A list is asked for because of an event.                                *)
LEMMA CallFollows ==
    ASSUME Inv, Inv', InTouch, stream # <<>>, stream' = Tail(stream), connected' = connected,
           UNCHANGED <<serverVars, page, op, buried>>,
           NEW c, Evolved(client, c, instance, Requests), Noticed(client, c, Requests),
           Sober(c), DOMAIN c.deleted \subseteq buried, c.mirror = client.mirror, Refresh(c),
           ~(Hearing' /\ "list" \notin c.outdated), ~(settled' /\ Hearing')
    PROVE  InTouch'
<1>1. c \in Client /\ {"op"} \in SUBSET (Requests \ {"list"}) /\ "list" \in Requests
  BY Constants DEF Evolved, Proper
<1>2. Noticed(client, c, {"op"}) /\ Noticed(client, c, {"list"})
  BY Constants DEF Noticed
<1>3. (list' = list \/ list'.state # "answered") /\ (client' = c \/ Marked(c, client', "list"))
  BY <1>1, ListTurns DEF Prudent, Sober
<1>4. Noticed(client, client', {"op"})
  BY <1>1, <1>2, <1>3, StillNoticed
<1>5. StillFailed' /\ LastWord' /\ Following'
  BY <1>4, StillFailedStays, NextWord DEF InTouch, Following
<1>6. /\ \A t \in Tasks, s \in Snap : Carried(t, s)' => Carried(t, s)
      /\ \A t \in Tasks, k \in Instances, q \in Revisions : Dead(t, k, q)' => Dead(t, k, q)
  BY <1>3, Reading DEF Carried, Dead
<1>7. \A t \in DOMAIN c.mirror : Heard(t, SnapOf(c.mirror[t]))
  BY HeardOfMirror
<1>8. DOMAIN c.deleted \subseteq buried' /\ page' = page /\ op' = op
  OBVIOUS
<1> QED  BY <1>1, <1>2, <1>5, <1>6, <1>7, <1>8, TurnFollows

(* The stream tells of a task.                                             *)
LEMMA WordFollows ==
    ASSUME Inv, Inv', InTouch, stream # <<>>, stream' = Tail(stream), connected' = connected,
           UNCHANGED <<serverVars, page, op, list, settled>>,
           Head(stream).type \in {"task", "deleted"},
           Evolved(client, client', instance, Requests), Noticed(client, client', Requests),
           Sober(client)', DOMAIN client'.deleted \subseteq buried',
           \A t \in DOMAIN client'.mirror : Heard(t, SnapOf(client'.mirror[t])),
           \A t \in Tasks :
               Counts /\ Since(t) /\ Untouched("list", t)' /\ client'.known = client.known =>
                   (News(t, list.rev) => News(t, list.rev)'),
           Abreast /\ Abreast' => NoHarm' /\ \A t \in Tasks : Required(t)' => Follows(t)'
    PROVE  InTouch'
<1>1. LastWord' /\ (Hearing' => Hearing)
  BY NextWord DEF InTouch
<1>2. Noticed(client, client', {"op"}) /\ Noticed(client, client', {"list"})
  BY Constants DEF Noticed
<1>3. StillFailed'
  BY <1>2, StillFailedStays DEF InTouch
<1>4. Following'
  BY <1>1, Here, FollowingStays DEF InTouch
<1>5. /\ \A t \in Tasks, s \in Snap : Carried(t, s)' => Carried(t, s)
      /\ \A t \in Tasks, k \in Instances, q \in Revisions : Dead(t, k, q)' => Dead(t, k, q)
  BY Reading DEF Carried, Dead
<1> QED  BY <1>1, <1>2, <1>3, <1>4, <1>5, PluginFollows

(* What the plugin hears of a task is no later than the final word.        *)
LEMMA FinalIsLast ==
    ASSUME Inv, Credible, NEW t \in Tasks, NEW s \in Snap, Heard(t, s), s.inst = instance,
           NEW n \in DOMAIN stream, Final(stream[n], t)
    PROVE  s.rev <= EventRev(stream[n])
<1>1. Past(t, s) /\ BeforeTheEnd(t, s)
  BY DEF Credible
<1>2. stream[n] \in Event /\ EventNow(stream[n])
  BY DEF Inv, ServerTyped, StreamNow
<1>3. CASE stream[n].type = "task"
  BY <1>1, <1>3 DEF Final, EventRev, Past, Snapshot
<1>4. CASE stream[n].type = "deleted"
  <2>1. stream[n].inst = instance /\ stream[n].rev \in Revisions /\ instance \in Instances
    BY <1>2, <1>4 DEF Event, EventNow, Inv, ServerTyped
  <2>2. Dead(t, instance, stream[n].rev)
    BY <1>4, <2>1 DEF Final, Dead, DeadInStream
  <2> QED  BY <1>1, <1>4, <2>1, <2>2, Here DEF BeforeTheEnd, Precedes, EventRev
<1> QED  BY <1>3, <1>4 DEF Final

(* What the plugin knows of a task that is there.                          *)
LEMMA MirrorFacts ==
    ASSUME Inv, Credible, NEW t \in DOMAIN client.mirror, t \in DOMAIN tasks
    PROVE  /\ client.mirror[t].attempt <= tasks[t].attempt
           /\ client.mirror[t].inst = instance =>
                  /\ client.mirror[t].rev <= tasks[t].rev
                  /\ client.mirror[t].rev >= tasks[t].rev => InPlace(t)
<1>1. t \in Tasks /\ client.mirror[t] \in Entry /\ client.mirror[t].rev \in Nat
  BY EntryFields DEF Inv, Proper
<1> DEFINE s == SnapOf(client.mirror[t])
<1>2. s \in Snap /\ Heard(t, s)
  BY <1>1, SnapOfType, HeardOfMirror
<1>3. /\ s.inst = client.mirror[t].inst /\ s.rev = client.mirror[t].rev
      /\ s.attempt = client.mirror[t].attempt /\ s.status = client.mirror[t].status
  BY DEF SnapOf
<1> HIDE DEF s
<1>4. Past(t, s)
  BY <1>1, <1>2 DEF Credible
<1>5. tasks[t].rev \in Nat
  BY RecordFacts, Constants DEF Inv, ServerTyped
<1>6. ASSUME s.inst = instance, s.rev >= tasks[t].rev
      PROVE  InPlace(t)
  <2>1. s.rev = tasks[t].rev
    BY <1>1, <1>3, <1>4, <1>5, <1>6 DEF Past
  <2>2. s = Snapshot(tasks[t])
    BY <1>4, <1>6, <2>1 DEF Past
  <2> QED  BY <1>3, <2>2 DEF Snapshot, InPlace, Agrees
<1> QED  BY <1>3, <1>4, <1>6 DEF Past

(* The state of a task is ignored only when the plugin knows it.           *)
LEMMA IgnoredIsKnown ==
    ASSUME Inv, InTouch, NEW t \in DOMAIN tasks, client.known = instance,
           client.watermark < tasks[t].rev,
           Burying(client, t, Snapshot(tasks[t])) \/ Stale(client, t, Snapshot(tasks[t]), FALSE)
    PROVE  InPlace(t)
<1>1. /\ Snapshot(tasks[t]).rev = tasks[t].rev /\ Snapshot(tasks[t]).inst = instance
      /\ Snapshot(tasks[t]).attempt = tasks[t].attempt
  BY DEF Snapshot
<1>2. tasks[t].rev \in Nat /\ tasks[t].attempt \in Nat
  BY RecordFacts, Constants DEF Record, Attempts
<1>3. client.watermark \in Int /\ \A u \in DOMAIN client.mirror : client.mirror[u] \in Entry
  BY EntryFields DEF Inv, Proper
<1>4. t \notin DOMAIN client.deleted
  BY DEF InTouch, Inv, Buried
<1>5. ~(tasks[t].rev <= client.watermark)
  BY <1>2, <1>3
<1>6. /\ t \in DOMAIN client.mirror /\ client.mirror[t].inst = instance
      /\ tasks[t].rev <= client.mirror[t].rev \/ tasks[t].attempt < client.mirror[t].attempt
  BY <1>1, <1>4, <1>5 DEF Burying, Stale
<1>7. /\ client.mirror[t].attempt <= tasks[t].attempt
      /\ client.mirror[t].rev >= tasks[t].rev => InPlace(t)
  BY <1>6, MirrorFacts DEF InTouch
<1>8. client.mirror[t].attempt \in Nat /\ client.mirror[t].rev \in Nat
  BY <1>3, <1>6, Constants DEF Entry, Attempts
<1> QED  BY <1>2, <1>6, <1>7, <1>8

(* The answer that is awaited stays harmless.                              *)
LEMMA HarmlessAnswer ==
    ASSUME Inv, op' = op \/ op'.state # "answered", instance' = instance,
           \A t \in Tasks, s \in Snap :
               /\ Carried(t, s) /\ s.inst = instance
               /\ op.state = "answered" /\ op.kind \in {"submit", "retry"}
               /\ op.task = t /\ op.snap = s
               => Harmless(t, s)'
    PROVE  NoHarm'
<1> SUFFICES ASSUME op'.state = "answered", op'.kind \in {"submit", "retry"},
                    op'.snap.inst = instance
             PROVE  Harmless(op.task, op.snap)'
  BY DEF NoHarm
<1>1. op' = op
  OBVIOUS
<1>2. op.task \in Tasks /\ op.snap \in Snap /\ Carried(op.task, op.snap)
  BY <1>1, AnsweredFacts
<1> QED  BY <1>1, <1>2

LEMMA HarmlessStays ==
    ASSUME Inv, op' = op \/ op'.state # "answered", instance' = instance, NoHarm,
           \A t \in Tasks, s \in Snap :
               Carried(t, s) /\ s.inst = instance /\ Harmless(t, s) => Harmless(t, s)'
    PROVE  NoHarm'
<1>1. ASSUME NEW t \in Tasks, NEW s \in Snap, Carried(t, s), s.inst = instance,
             op.state = "answered", op.kind \in {"submit", "retry"},
             op.task = t, op.snap = s
      PROVE  Harmless(t, s)'
  <2>1. Harmless(t, s)
    BY <1>1 DEF NoHarm
  <2> QED  BY <1>1, <2>1
<1> QED  BY <1>1, HarmlessAnswer

(* What makes an answer harmless stays so, but for the news that is read.  *)
LEMMA HarmlessMoves ==
    ASSUME Inv, Inv', UNCHANGED serverVars, client.known = instance,
           client'.watermark = client.watermark, NEW Q, Evolved(client, client', instance, Q),
           NEW t \in Tasks, NEW s \in Snap, s.inst = instance,
           t \in DOMAIN client.mirror =>
               t \in DOMAIN client'.mirror \/ Buries(client', t, s.inst, s.rev),
           Harmless(t, s), ~News(t, client.watermark) \/ News(t, client.watermark)'
    PROVE  Harmless(t, s)'
<1>1. /\ s.inst \in Instances /\ s.rev \in Revisions /\ s.rev \in Nat /\ instance \in Nat
      /\ tasks' = tasks /\ instance' = instance /\ client \in Client /\ client' \in Client
      /\ UpTo(client', instance)
  BY Constants, Here DEF Snap, serverVars, Inv, Proper, Ages
<1>2. CASE Buries(client, t, s.inst, s.rev) \/ Buries(client', t, s.inst, s.rev)
  <2>1. Buries(client', t, s.inst, s.rev)
    BY <1>1, <1>2 DEF Evolved
  <2> QED  BY <2>1 DEF Harmless
<1>3. CASE /\ t \in DOMAIN client.mirror /\ t \in DOMAIN client'.mirror
           /\ client.mirror[t].inst = s.inst /\ client.mirror[t].rev >= s.rev
  <2>1. \/ client'.mirror[t].inst > client.mirror[t].inst
        \/ client'.mirror[t].inst = client.mirror[t].inst
               /\ client'.mirror[t].rev >= client.mirror[t].rev
    BY <1>3 DEF Evolved, Onward
  <2>2. /\ client'.mirror[t].inst <= instance /\ client'.mirror[t].inst \in Nat
        /\ client'.mirror[t].rev \in Nat /\ client.mirror[t].rev \in Nat
        /\ client.mirror[t].inst = instance
    BY <1>1, <1>3, EntryFields DEF UpTo
  <2>3. client'.mirror[t].inst = instance /\ client'.mirror[t].rev >= client.mirror[t].rev
    BY <1>1, <2>1, <2>2
  <2>4. client'.mirror[t].rev >= s.rev
    BY <1>1, <1>3, <2>2, <2>3
  <2> QED  BY <1>3, <2>3, <2>4 DEF Harmless
<1>4. CASE t \in DOMAIN tasks /\ s = Snapshot(tasks[t])
  BY <1>1, <1>4 DEF Harmless, Snapshot
<1>5. CASE News(t, client.watermark)
  BY <1>5 DEF Harmless
<1> QED  BY <1>2, <1>3, <1>4, <1>5 DEF Harmless

LEMMA SnapFields ==
    ASSUME NEW e, NEW s, SnapOf(e) = s
    PROVE  s.inst = e.inst /\ s.rev = e.rev /\ s.attempt = e.attempt /\ s.status = e.status
BY DEF SnapOf

(* What the plugin knows once the stream has told of a task.               *)
Word(d, t, s) ==
    /\ Evolved(client, d, instance, Requests) /\ Noticed(client, d, Requests)
    /\ DOMAIN client.mirror \subseteq DOMAIN d.mirror /\ Others(client, d, t)
    /\ d.known = instance /\ Sober(d) /\ DOMAIN d.deleted \subseteq DOMAIN client.deleted
    /\ \A u \in DOMAIN d.mirror : Heard(u, SnapOf(d.mirror[u]))
    /\ client.known = instance =>
           /\ d.watermark = client.watermark
           /\ Ignored(client, d, t, s) \/ Taken(client, d, t, s)

LEMMA WordIsTaken ==
    ASSUME Inv, InTouch, NEW t \in Tasks, NEW s \in Snap, Carried(t, s), s.inst = instance,
           NEW bind \in BOOLEAN, ~bind
    PROVE  Word(Upserted(client, t, s, FALSE, bind), t, s)
<1> DEFINE d == Upserted(client, t, s, FALSE, bind)
           a == Accepted(client, s.inst)
<1>1. UpTo(client, s.inst) /\ Proper(client) /\ client \in Client
  BY Here DEF Proper
<1>2. Evolved(client, d, s.inst, Requests) /\ DOMAIN client.mirror \subseteq DOMAIN d.mirror
  BY <1>1, TakenIn
<1>3. /\ Noticed(client, d, Requests) /\ Others(client, d, t)
      /\ d.known = s.inst /\ d.watermark = a.watermark
      /\ Ignored(a, d, t, s) \/ Taken(a, d, t, s)
  BY <1>1, UpsertedFacts
<1>4. /\ Sober(d) /\ DOMAIN d.deleted \subseteq DOMAIN client.deleted
      /\ \A u \in DOMAIN d.mirror : Heard(u, SnapOf(d.mirror[u]))
  BY <1>1, UpsertedKnown
<1>5. client.known = s.inst => a = client
  BY <1>1, AcceptedFields
<1> HIDE DEF a, d
<1>6. client.known = s.inst =>
          /\ d.known = s.inst /\ d.watermark = client.watermark
          /\ Ignored(client, d, t, s) \/ Taken(client, d, t, s)
  BY <1>3, <1>5
<1> QED  BY <1>2, <1>3, <1>4, <1>6 DEF Word, d

LEMMA TaskEventFollows ==
    ASSUME Inv, Inv', InTouch, stream # <<>>, stream' = Tail(stream), connected' = connected,
           UNCHANGED <<serverVars, page, op, list, settled, buried>>,
           NEW t \in Tasks, NEW s \in Snap, Head(stream).type = "task",
           Head(stream).task = t, Head(stream).snap = s, Word(client', t, s)
    PROVE  InTouch'
<1> DEFINE event == Head(stream)
<1>1. /\ s.inst = instance /\ Carried(t, s) /\ EventRev(event) = s.rev
      /\ \A u : Final(event, u) => u = t
      /\ Final(event, t) => t \in DOMAIN tasks /\ s = Snapshot(tasks[t])
      /\ 1 \in DOMAIN stream /\ UpTo(client, instance)
  BY Reading, Shift, Here DEF Event, EventNow, Carried, EventRev, Final
<1>3. /\ \A u, w : News(u, w) => News(u, w)' \/ (Final(event, u) /\ EventRev(event) > w)
      /\ LastWord /\ connected =>
             \/ Final(event, t)
             \/ \E n \in DOMAIN stream :
                    /\ Final(stream[n], t)
                    /\ \A w : EventRev(stream[n]) > w => News(t, w)'
  BY NextWord
<1> HIDE DEF event
<1>4. \A u, w : News(u, w) => News(u, w)' \/ (u = t /\ s.rev > w /\ Final(event, t))
  BY <1>1, <1>3
<1>5. /\ Proper(client) /\ client \in Client /\ instance \in Instances
      /\ s.rev \in Nat /\ client.watermark \in Int
  BY <1>1, Here, EntryFields, Constants DEF Proper, Snap
<1>6. /\ Evolved(client, client', instance, Requests)
      /\ DOMAIN client.mirror \subseteq DOMAIN client'.mirror
  BY DEF Word
<1>7. Noticed(client, client', Requests) /\ Others(client, client', t)
  BY DEF Word
<1>8. /\ Sober(client') /\ DOMAIN client'.deleted \subseteq DOMAIN client.deleted
      /\ \A u \in DOMAIN client'.mirror : Heard(u, SnapOf(client'.mirror[u]))
  BY DEF Word
<1>9. client'.known = instance /\ (client.known = instance => client'.watermark = client.watermark)
  BY DEF Word
<1>10. client.known = instance =>
          Ignored(client, client', t, s) \/ Taken(client, client', t, s)
  BY DEF Word
<1>11. ASSUME client.known = instance, Final(event, t), client.watermark < s.rev,
             Ignored(client, client', t, s)
      PROVE  InPlace(t) /\ client.mirror[t].rev = s.rev
  <2>1. t \in DOMAIN tasks /\ s = Snapshot(tasks[t]) /\ s.rev = tasks[t].rev
    BY <1>1, <1>3, <1>4, <1>11 DEF Snapshot
  <2>2. InPlace(t)
    BY <1>11, <2>1, IgnoredIsKnown DEF Ignored
  <2> QED  BY <2>1, <2>2 DEF InPlace, Agrees
<1>12. ASSUME client.known = instance, Taken(client, client', t, s)
      PROVE  /\ s.rev > client.watermark
             /\ t \in DOMAIN client'.mirror /\ SnapOf(client'.mirror[t]) = s
             /\ client'.mirror[t].rev = s.rev /\ client'.mirror[t].inst = instance
             /\ t \in DOMAIN client.mirror => client.mirror[t] # client'.mirror[t]
  <2>1. t \in DOMAIN client'.mirror /\ SnapOf(client'.mirror[t]) = s /\ ~Stale(client, t, s, FALSE)
    BY <1>12 DEF Taken
  <2>2. client'.mirror[t].rev = s.rev /\ client'.mirror[t].inst = s.inst
    BY <2>1, SnapFields
  <2>3. s.rev > client.watermark /\ s.rev <= s.rev
    BY <1>5, <2>1 DEF Stale
  <2>4. t \in DOMAIN client.mirror => client.mirror[t] # client'.mirror[t]
    BY <2>1, <2>2, <2>3 DEF Stale
  <2> QED  BY <1>1, <2>1, <2>2, <2>3, <2>4
<1>13. ASSUME Counts, NEW u \in Tasks, Since(u), Untouched("list", u)',
              client'.known = client.known, News(u, list.rev)
       PROVE  News(u, list.rev)'
  <2> SUFFICES ASSUME u = t, s.rev > list.rev, Final(event, t)
               PROVE  FALSE
    BY <1>1, <1>3, <1>4, <1>13
  <2>1. client.known = instance /\ client.watermark <= list.rev /\ list.rev \in Nat
    BY <1>9, <1>13, ListedFacts, Constants DEF InTouch, Counted, Counts, Complete
  <2>2. client.watermark < s.rev
    BY <1>5, <2>1
  <2>3. CASE Ignored(client, client', t, s)
    <3>1. InPlace(t) /\ client.mirror[t].rev = s.rev
      BY <1>11, <2>1, <2>2, <2>3
    <3>2. s.rev <= list.rev
      BY <1>13, <3>1 DEF Since, InPlace, Agrees
    <3> QED  BY <1>5, <2>1, <3>2
  <2>4. CASE Taken(client, client', t, s)
    <3>1. "list" \in Requests
      BY Constants
    <3>2. Same(client, client', t)
      BY <1>1, <1>7, <1>13, <3>1 DEF Noticed, Untouched
    <3> QED  BY <1>12, <2>1, <2>4, <3>2 DEF Same
  <2> QED  BY <1>10, <2>1, <2>3, <2>4
<1>14. ASSUME Abreast
       PROVE  client.known = instance /\ client'.watermark = client.watermark /\ connected
  BY <1>9, <1>14 DEF Abreast, Hearing
<1>15. ASSUME NEW u \in Tasks, InPlace(u), u # t \/ Ignored(client, client', t, s),
              client.known = instance
       PROVE  InPlace(u)'
  <2>1. tasks' = tasks /\ instance' = instance
    BY DEF serverVars
  <2>2. u \in DOMAIN client.mirror
    BY <1>15 DEF InPlace, Agrees
  <2>3. u \in DOMAIN client'.mirror /\ client'.mirror[u] = client.mirror[u]
    BY <1>7, <1>15, <2>2 DEF Others, Ignored
  <2> QED  BY <1>15, <2>1, <2>3 DEF InPlace, Agrees
<1>16. ASSUME Abreast, NEW u \in Tasks, Required(u)'
       PROVE  Follows(u)'
  <2>1. /\ client.known = instance /\ client'.watermark = client.watermark /\ connected
        /\ tasks' = tasks /\ instance' = instance /\ page' = page
    BY <1>14, <1>16 DEF serverVars
  <2>2. CASE u # t
    <3>1. Required(u)
      BY <1>7, <1>16, <2>1, <2>2 DEF Required, Shown, Others
    <3>2. Follows(u)
      BY <1>16, <3>1 DEF InTouch, Following, Abreast
    <3>3. News(u, client.watermark) => News(u, client.watermark)'
      BY <1>1, <1>3, <1>4, <2>1, <2>2
    <3> QED  BY <1>15, <2>1, <2>2, <3>2, <3>3 DEF Follows
  <2>3. CASE u = t /\ Ignored(client, client', t, s) /\ s.rev <= client.watermark
    <3>1. client' = client
      BY <2>3 DEF Ignored
    <3>2. Required(u)
      BY <1>16, <2>1, <3>1 DEF Required, Shown
    <3>3. Follows(u)
      BY <1>16, <3>2 DEF InTouch, Following, Abreast
    <3>4. ~(s.rev > client.watermark)
      BY <1>5, <2>3
    <3>5. News(u, client.watermark) => News(u, client.watermark)'
      BY <1>1, <1>3, <1>4, <2>1, <3>4
    <3> QED  BY <1>15, <2>1, <2>3, <3>3, <3>5 DEF Follows
  <2>4. CASE u = t /\ ~(s.rev <= client.watermark)
    <3>1. client.watermark < s.rev
      BY <1>5, <2>4
    <3>2. CASE Final(event, t)
      <4>1. CASE Ignored(client, client', t, s)
        BY <1>11, <1>15, <2>1, <2>4, <3>1, <3>2, <4>1 DEF Follows
      <4>2. CASE Taken(client, client', t, s)
        <5>1. /\ t \in DOMAIN tasks /\ s = Snapshot(tasks[t])
              /\ t \in DOMAIN client'.mirror /\ SnapOf(client'.mirror[t]) = s
          BY <1>1, <1>3, <1>4, <1>12, <2>1, <3>2, <4>2
        <5>2. /\ client'.mirror[t].inst = instance /\ client'.mirror[t].rev = tasks[t].rev
              /\ client'.mirror[t].attempt = tasks[t].attempt
              /\ client'.mirror[t].status = tasks[t].status
          BY <5>1, SnapFields DEF Snapshot
        <5> QED  BY <2>1, <2>4, <5>1, <5>2 DEF Follows, InPlace, Agrees
      <4> QED  BY <1>10, <2>1, <4>1, <4>2
    <3>3. CASE ~Final(event, t)
      <4>1. PICK n \in DOMAIN stream :
                /\ Final(stream[n], t)
                /\ \A w : EventRev(stream[n]) > w => News(t, w)'
        BY <1>1, <1>3, <1>4, <2>1, <3>3 DEF InTouch
      <4>2. s.rev <= EventRev(stream[n])
        <5>1. Heard(t, s)
          BY <1>1 DEF Heard
        <5> QED  BY <1>1, <4>1, <5>1, FinalIsLast DEF InTouch
      <4>3. EventRev(stream[n]) \in Nat
        <5>1. stream[n] \in Event
          BY DEF Inv, ServerTyped
        <5> QED  BY <4>1, <5>1, Constants DEF Event, EventRev, Final, Snap
      <4>4. EventRev(stream[n]) > client.watermark
        BY <1>5, <3>1, <4>2, <4>3
      <4> QED  BY <2>1, <2>4, <4>1, <4>4 DEF Follows
    <3> QED  BY <3>2, <3>3
  <2>5. CASE u = t /\ s.rev <= client.watermark
    <3>1. ~Taken(client, client', t, s)
      BY <2>5 DEF Taken, Stale
    <3> QED  BY <1>10, <2>1, <2>3, <2>5, <3>1
  <2> QED  BY <2>2, <2>4, <2>5
<1>17. ASSUME Abreast PROVE NoHarm'
  <2> SUFFICES ASSUME NEW v \in Tasks, NEW sn \in Snap, Carried(v, sn), sn.inst = instance,
                      Harmless(v, sn)
               PROVE  Harmless(v, sn)'
    <3>1. op' = op /\ instance' = instance /\ NoHarm
      BY <1>17 DEF InTouch, Following, Abreast, serverVars
    <3> QED  BY <3>1, HarmlessStays
  <2>1. v \in Tasks /\ sn \in Snap /\ Carried(v, sn) /\ sn.inst = instance
    OBVIOUS
  <2>2. Harmless(v, sn)
    OBVIOUS
  <2>4. sn.inst \in Instances /\ sn.rev \in Revisions /\ sn.rev \in Nat
    BY <2>1, Constants DEF Snap
  <2>5. /\ client.known = instance /\ client'.watermark = client.watermark /\ connected
        /\ tasks' = tasks /\ instance' = instance
    BY <1>14, <1>17 DEF serverVars
  <2>6. CASE ~News(v, client.watermark) \/ News(v, client.watermark)'
    BY <1>6, <2>1, <2>2, <2>5, <2>6, HarmlessMoves
  <2>9. CASE News(v, client.watermark)
    <3>1. CASE News(v, client.watermark)'
      BY <2>5, <3>1 DEF Harmless
    <3>2. CASE v = t /\ s.rev > client.watermark /\ Final(event, t)
      <4>1. t \in DOMAIN tasks /\ s = Snapshot(tasks[t]) /\ s.rev = tasks[t].rev
        BY <1>1, <1>3, <1>4, <3>2 DEF Snapshot
      <4>2. sn.rev <= s.rev
        <5>1. Heard(v, sn)
          BY <2>1 DEF Heard
        <5> QED  BY <2>1, <3>2, <4>1, <5>1 DEF InTouch, Credible, Past
      <4>3. /\ t \in DOMAIN client'.mirror /\ client'.mirror[t].inst = instance
            /\ client'.mirror[t].rev = s.rev
        <5>1. CASE Ignored(client, client', t, s)
          <6>1. client.watermark < s.rev
            BY <1>5, <3>2
          <6> QED  BY <1>11, <2>5, <3>2, <5>1, <6>1 DEF Ignored, InPlace, Agrees
        <5>2. CASE Taken(client, client', t, s)
          BY <1>12, <2>5, <5>2
        <5> QED  BY <1>10, <2>5, <5>1, <5>2
      <4>4. client'.mirror[v].rev >= sn.rev /\ client'.mirror[v].inst = sn.inst
        BY <1>5, <2>1, <2>4, <3>2, <4>2, <4>3
      <4> QED  BY <3>2, <4>3, <4>4 DEF Harmless
    <3> QED  BY <1>4, <2>5, <2>9, <3>1, <3>2
  <2> QED  BY <2>6, <2>9
<1>18. Sober(client)' /\ DOMAIN client'.deleted \subseteq buried'
  BY <1>8 DEF Sober, serverVars, InTouch
<1>19. Head(stream).type \in {"task", "deleted"}
  OBVIOUS
<1> QED  BY <1>6, <1>7, <1>8, <1>13, <1>16, <1>17, <1>18, <1>19, WordFollows

(* What the plugin knows once the stream has told that a task is gone.     *)
WordGone(d, t, r, news) ==
    /\ Evolved(client, d, instance, Requests) /\ Noticed(client, d, Requests)
    /\ Others(client, d, t) /\ DOMAIN d.mirror \subseteq DOMAIN client.mirror
    /\ d.known = instance /\ Sober(d)
    /\ DOMAIN d.deleted \subseteq IF news THEN buried \cup {t} ELSE buried
    /\ \A u \in DOMAIN d.mirror : Heard(u, SnapOf(d.mirror[u]))
    /\ client.known = instance => d.watermark = client.watermark /\ (news \/ d = client)
    /\ news => /\ t \notin DOMAIN d.mirror /\ t \in DOMAIN d.deleted /\ d.deleted[t] = r
               /\ \A s \in Snap : Carried(t, s) => Buries(d, t, s.inst, s.rev)

LEMMA GoneIsTaken ==
    ASSUME Inv, InTouch, NEW t \in Tasks, NEW r \in Revisions, Dead(t, instance, r)
    PROVE  WordGone(Forgotten(client, t, instance, r), t, r, DeletionIsNews(client, t, instance, r))
<1> DEFINE d == Forgotten(client, t, instance, r)
           a == Accepted(client, instance)
           news == DeletionIsNews(client, t, instance, r)
<1>1. UpTo(client, instance) /\ Proper(client) /\ client \in Client /\ instance \in Instances
  BY Here DEF Proper
<1>2. /\ Evolved(client, d, instance, Requests) /\ DOMAIN d.mirror \subseteq DOMAIN client.mirror
      /\ news => \A s \in Snap : Carried(t, s) => Buries(d, t, s.inst, s.rev)
  BY <1>1, WordOfDeletion
<1>3. /\ Noticed(client, d, Requests) /\ Others(client, d, t)
      /\ d.known = instance /\ d.watermark = a.watermark
      /\ ~news => d = a
      /\ news => /\ t \notin DOMAIN d.mirror
                 /\ DOMAIN d.deleted = DOMAIN a.deleted \cup {t} /\ d.deleted[t] = r
  BY <1>1, ForgottenFacts
<1>4. /\ Sober(d) /\ DOMAIN d.deleted \subseteq IF news THEN buried \cup {t} ELSE buried
      /\ \A u \in DOMAIN d.mirror : Heard(u, SnapOf(d.mirror[u]))
  BY <1>1, ForgottenKnown
<1>5. client.known = instance => a = client
  BY <1>1, AcceptedFields
<1> HIDE DEF a, d, news
<1> QED  BY <1>2, <1>3, <1>4, <1>5 DEF WordGone, d, news

(* A deletion is ignored when its task is forgotten, or the list was later. *)
LEMMA OldDeletion ==
    ASSUME Inv, InTouch, client.known = instance, NEW t \in Tasks, NEW r \in Revisions,
           Dead(t, instance, r), ~DeletionIsNews(client, t, instance, r), client.watermark < r
    PROVE  t \in buried
<1>1. /\ client \in Client /\ instance \notin client.retired /\ instance \in Nat /\ r \in Nat
      /\ client.watermark \in Int /\ instance \in Instances
  BY Here, EntryFields, Constants DEF Proper, Current
<1>2. Accepted(client, instance) = client
  BY DEF Accepted
<1>3. \/ t \in DOMAIN client.deleted
      \/ /\ t \in DOMAIN client.mirror /\ client.mirror[t].inst = instance
         /\ ~(r >= client.mirror[t].rev)
  BY <1>1, <1>2 DEF DeletionIsNews
<1>4. CASE t \in DOMAIN client.mirror /\ client.mirror[t].inst = instance
  <2> DEFINE s == SnapOf(client.mirror[t])
  <2>1. s \in Snap /\ Heard(t, s) /\ s.inst = instance /\ s.rev = client.mirror[t].rev
    BY <1>1, <1>4, EntryFields, SnapOfType, HeardOfMirror DEF SnapOf
  <2> HIDE DEF s
  <2>2. Precedes(s.inst, s.rev, instance, r)
    BY <1>1, <2>1 DEF InTouch, Credible, BeforeTheEnd
  <2>3. client.mirror[t].rev <= r /\ client.mirror[t].rev \in Nat
    BY <1>1, <1>4, <2>1, <2>2, EntryFields DEF Precedes
  <2> QED  BY <1>1, <1>3, <2>3 DEF InTouch
<1> QED  BY <1>3, <1>4 DEF InTouch

LEMMA DeletedEventFollows ==
    ASSUME Inv, Inv', InTouch, stream # <<>>, stream' = Tail(stream), connected' = connected,
           UNCHANGED <<serverVars, page, op, list, settled>>,
           NEW t \in Tasks, NEW r \in Revisions, Head(stream).type = "deleted",
           Head(stream).task = t, Head(stream).inst = instance, Head(stream).rev = r,
           NEW news \in BOOLEAN, news <=> DeletionIsNews(client, t, instance, r),
           WordGone(client', t, r, news), buried' = IF news THEN buried \cup {t} ELSE buried
    PROVE  InTouch'
<1> DEFINE event == Head(stream)
<1>1. Dead(t, instance, r) /\ EventRev(event) = r /\ \A u : Final(event, u) => u = t
  BY Reading DEF Dead, EventRev, Final
<1>2. t \notin DOMAIN tasks /\ r \in Nat /\ client \in Client /\ client.watermark \in Int
  BY <1>1, Here, EntryFields, Constants DEF Inv, Gone, Proper
<1>3. \A u, w : News(u, w) => News(u, w)' \/ (Final(event, u) /\ EventRev(event) > w)
  BY NextWord
<1> HIDE DEF event
<1>4. \A u, w : News(u, w) => News(u, w)' \/ (u = t /\ r > w)
  BY <1>1, <1>3
<1>5. Noticed(client, client', Requests) /\ Others(client, client', t)
  BY DEF WordGone
<1>6. client.known = instance => client'.watermark = client.watermark /\ (news \/ client' = client)
  BY DEF WordGone
<1>7. client'.known = instance /\ Evolved(client, client', instance, Requests)
  BY DEF WordGone
<1>8. news => /\ t \notin DOMAIN client'.mirror /\ t \in DOMAIN client'.deleted
              /\ client'.deleted[t] = r
              /\ \A s \in Snap : Carried(t, s) => Buries(client', t, s.inst, s.rev)
  BY DEF WordGone
<1>9. /\ Sober(client)' /\ DOMAIN client'.deleted \subseteq buried'
      /\ \A u \in DOMAIN client'.mirror : Heard(u, SnapOf(client'.mirror[u]))
  BY DEF WordGone, Sober, serverVars
<1>10. client.known = instance /\ client.watermark < r /\ ~news => t \in buried
  BY <1>1, OldDeletion
<1>11. ASSUME Counts, NEW u \in Tasks, Since(u), Untouched("list", u)',
              client'.known = client.known, News(u, list.rev)
       PROVE  News(u, list.rev)'
  <2> SUFFICES ASSUME u = t, r > list.rev
               PROVE  FALSE
    BY <1>4, <1>11
  <2>1. client.known = instance /\ client.watermark <= list.rev /\ list.rev \in Nat
    BY <1>7, <1>11, ListedFacts, Constants DEF InTouch, Counted, Counts, Complete
  <2>2. client.watermark < r
    BY <1>2, <2>1
  <2>3. t \in DOMAIN client.deleted => client.deleted[t] <= list.rev
    BY <1>11, <2>1 DEF Since
  <2>4. CASE news
    <3>1. "list" \in Requests
      BY Constants
    <3>2. Same(client, client', t)
      BY <1>5, <1>11, <3>1 DEF Noticed, Untouched
    <3>3. t \in DOMAIN client.deleted /\ client.deleted[t] = r
      BY <1>8, <1>11, <2>4, <3>2 DEF Same
    <3> QED  BY <1>2, <2>1, <2>3, <3>3
  <2>5. CASE ~news
    <3>1. instance \notin client.retired /\ instance \in Nat
      BY <2>1, Here, EntryFields DEF Proper, Current
    <3>2. Accepted(client, instance) = client
      BY <2>1 DEF Accepted
    <3>3. t \in DOMAIN client.mirror /\ client.mirror[t].inst = instance =>
              client.mirror[t].rev <= list.rev /\ client.mirror[t].rev \in Nat
      BY <1>2, <1>11, EntryFields DEF Since
    <3>4. t \in DOMAIN client.deleted => r > client.deleted[t]
      BY <1>2, <2>1, <2>3, EntryFields
    <3>5. t \in DOMAIN client.mirror /\ client.mirror[t].inst = instance =>
              r >= client.mirror[t].rev
      BY <1>2, <2>1, <3>3
    <3>6. r > client.watermark
      BY <1>2, <2>2
    <3> QED  BY <2>5, <3>1, <3>2, <3>4, <3>5, <3>6 DEF DeletionIsNews
  <2> QED  BY <2>4, <2>5
<1>12. ASSUME Abreast PROVE client.known = instance /\ client'.watermark = client.watermark
  BY <1>6, <1>12 DEF Abreast
<1>13. ASSUME Abreast, NEW u \in Tasks, Required(u)'
       PROVE  Follows(u)'
  <2>1. /\ client.known = instance /\ client'.watermark = client.watermark
        /\ tasks' = tasks /\ instance' = instance /\ page' = page
    BY <1>12, <1>13 DEF serverVars
  <2>2. CASE u # t
    <3>1. /\ u \in DOMAIN client.mirror <=> u \in DOMAIN client'.mirror
          /\ u \in DOMAIN client.mirror => client'.mirror[u] = client.mirror[u]
      BY <1>5, <2>2 DEF Others
    <3>2. Required(u)
      BY <1>13, <2>1, <3>1 DEF Required, Shown
    <3>3. Follows(u)
      BY <1>13, <3>2 DEF InTouch, Following, Abreast
    <3>4. News(u, client.watermark) => News(u, client.watermark)'
      BY <1>4, <2>1, <2>2
    <3>5. InPlace(u) => InPlace(u)'
      BY <2>1, <3>1 DEF InPlace, Agrees
    <3> QED  BY <3>3, <3>4, <3>5 DEF Follows
  <2>3. CASE u = t
    <3>1. t \in DOMAIN client'.mirror
      BY <1>2, <1>13, <2>1, <2>3 DEF Required
    <3>2. ~news /\ client' = client
      BY <1>6, <1>8, <2>1, <3>1
    <3>3. Required(t)
      BY <1>13, <2>1, <2>3, <3>2 DEF Required, Shown
    <3>4. News(t, client.watermark)
      BY <1>2, <1>13, <3>3 DEF InTouch, Following, Abreast, Follows, InPlace
    <3>5. ~(r > client.watermark)
      <4>1. t \notin buried
        BY <3>1, <3>2 DEF Inv, Buried
      <4> QED  BY <1>2, <1>10, <2>1, <3>2, <4>1
    <3>6. News(t, client.watermark)'
      BY <1>4, <2>1, <3>4, <3>5
    <3> QED  BY <2>3, <3>6 DEF Follows
  <2> QED  BY <2>2, <2>3
<1>14. ASSUME Abreast PROVE NoHarm'
  <2> SUFFICES ASSUME NEW v \in Tasks, NEW s \in Snap, Carried(v, s), s.inst = instance,
                      Harmless(v, s)
               PROVE  Harmless(v, s)'
    <3>1. op' = op /\ instance' = instance /\ NoHarm
      BY <1>14 DEF InTouch, Following, Abreast, serverVars
    <3> QED  BY <3>1, HarmlessStays
  <2>1. client.known = instance /\ client'.watermark = client.watermark /\ instance' = instance
    BY <1>12, <1>14 DEF serverVars
  <2>2. CASE v = t /\ (news \/ r > client.watermark)
    <3>1. s.inst \in Instances /\ s.rev \in Revisions
      BY DEF Snap
    <3>2. CASE news
      BY <1>8, <2>2, <3>2 DEF Harmless
    <3>3. CASE ~news /\ r > client.watermark
      <4>1. client.watermark < r
        BY <1>2, <3>3
      <4>2. Buries(client, t, s.inst, s.rev)
        BY <1>10, <2>1, <2>2, <3>3, <4>1 DEF Inv, Buried
      <4>3. Buries(client', t, s.inst, s.rev)
        BY <1>7, <3>1, <4>2 DEF Evolved
      <4> QED  BY <2>2, <4>3 DEF Harmless
    <3> QED  BY <2>2, <3>2, <3>3
  <2>3. CASE ~(v = t /\ (news \/ r > client.watermark))
    <3>1. ~News(v, client.watermark) \/ News(v, client.watermark)'
      BY <1>4, <2>1, <2>3
    <3>2. v \in DOMAIN client.mirror => v \in DOMAIN client'.mirror
      BY <1>5, <1>6, <2>1, <2>3 DEF Others
    <3> QED  BY <1>7, <2>1, <3>1, <3>2, HarmlessMoves
  <2> QED  BY <2>2, <2>3
<1>15. Head(stream).type \in {"task", "deleted"}
  OBVIOUS
<1> QED  BY <1>5, <1>7, <1>9, <1>11, <1>13, <1>14, <1>15, WordFollows

LEMMA ReceiveFollows == ASSUME Inv, Inv', InTouch, Receive PROVE InTouch'
<1>1. /\ stream # <<>> /\ stream' = Tail(stream) /\ connected' = connected
      /\ UNCHANGED <<serverVars, page, op>>
  BY DEF Receive
<1> DEFINE event == Head(stream)
<1>2. /\ event \in Event /\ EventNow(event)
      /\ event.type = "task" => InStream(event.task, event.snap)
      /\ event.type = "deleted" => DeadInStream(event.task, event.inst, event.rev)
  BY <1>1, Reading
<1>3. /\ client \in Client /\ Proper(client) /\ UpTo(client, instance) /\ instance \in Instances
      /\ instance \notin client.retired
  BY Here, EntryFields DEF Proper, Current, UpTo
<1>4. CASE event.type = "open"
  <2> DEFINE c == NextGeneration(client)
  <2>1. Refresh(c) /\ settled' = FALSE /\ buried' = buried
    BY <1>4 DEF Receive
  <2>2. /\ Evolved(client, c, instance, Requests) /\ Noticed(client, c, Requests)
        /\ c.mirror = client.mirror /\ c.deleted = client.deleted
        /\ c.known = client.known /\ c.watermark = client.watermark
    BY <1>3, GenerationEvolves, GenerationNoticed
  <2>3. "list" \in c.outdated
    BY <1>3, Constants DEF NextGeneration, Client
  <2> HIDE DEF c
  <2>4. Sober(c) /\ DOMAIN c.deleted \subseteq buried
    BY <2>2 DEF InTouch, Sober
  <2> QED  BY <1>1, <2>1, <2>2, <2>3, <2>4, CallFollows
<1>5. CASE event.type = "task"
  <2> DEFINE d == Upserted(client, event.task, event.snap, FALSE, FALSE)
  <2>1. /\ event.task \in Tasks /\ event.snap \in Snap /\ event.snap.inst = instance
        /\ Carried(event.task, event.snap)
    BY <1>2, <1>5 DEF Event, EventNow, Carried
  <2>2. client' = d /\ UNCHANGED <<list, settled, buried>>
    BY <1>5 DEF Receive
  <2>3. Word(d, event.task, event.snap)
    <3>1. FALSE \in BOOLEAN
      OBVIOUS
    <3> HIDE DEF event
    <3> QED  BY <2>1, <3>1, WordIsTaken
  <2> HIDE DEF d
  <2>4. Word(client', event.task, event.snap)
    BY <2>2, <2>3
  <2> QED  BY <1>1, <1>5, <2>1, <2>2, <2>4, TaskEventFollows
<1>6. CASE event.type = "deleted"
  <2> DEFINE news == DeletionIsNews(client, event.task, instance, event.rev)
             d == Forgotten(client, event.task, instance, event.rev)
  <2>1. /\ event.task \in Tasks /\ event.rev \in Revisions /\ event.inst = instance
    BY <1>2, <1>6 DEF Event, EventNow
  <2>2. Dead(event.task, instance, event.rev)
    BY <1>2, <1>6, <2>1 DEF Dead
  <2>3. /\ client' = d /\ UNCHANGED <<list, settled>>
        /\ buried' = IF news THEN buried \cup {event.task} ELSE buried
    BY <1>6, <2>1 DEF Receive
  <2>4. WordGone(d, event.task, event.rev, news) /\ news \in BOOLEAN
    BY <2>1, <2>2, GoneIsTaken DEF DeletionIsNews
  <2> HIDE DEF d
  <2>5. WordGone(client', event.task, event.rev, news)
    BY <2>3, <2>4
  <2>6. news <=> DeletionIsNews(client, event.task, instance, event.rev)
    OBVIOUS
  <2> HIDE DEF news
  <2> QED  BY <1>1, <1>6, <2>1, <2>3, <2>4, <2>5, <2>6, DeletedEventFollows
<1>7. CASE event.type = "resync"
  <2> DEFINE c == Accepted(client, instance)
  <2>1. event.inst = instance
    BY <1>2, <1>7 DEF EventNow
  <2>2. Refresh(c) /\ settled' = settled /\ buried' = buried
    BY <1>3, <1>7, <2>1 DEF Receive
  <2>3. /\ Evolved(client, c, instance, Requests) /\ Noticed(client, c, Requests) /\ Sober(c)
        /\ c.mirror = client.mirror /\ DOMAIN c.deleted \subseteq DOMAIN client.deleted
    BY <1>3, AcceptedKnown
  <2>4. ~connected
    BY <1>1, <1>7, NextWord DEF InTouch
  <2> HIDE DEF c
  <2>5. ~Hearing' /\ DOMAIN c.deleted \subseteq buried
    BY <1>1, <2>3, <2>4 DEF Hearing, InTouch
  <2> QED  BY <1>1, <2>2, <2>3, <2>5, CallFollows
<1> QED  BY <1>4, <1>5, <1>6, <1>7 DEF Receive

-----------------------------------------------------------------------------
(* The list is applied.                                                    *)

TakenOf(c, snaps) ==
    {t \in DOMAIN snaps :
        /\ t \in DOMAIN c.mirror \/ <<"list", t>> \notin c.touched
        /\ ~Burying(c, t, snaps[t]) /\ ~Stale(c, t, snaps[t], TRUE)}

LEMMA SnapshotsFacts ==
    ASSUME NEW c, Proper(c), NEW snaps \in Partial(Snap)
    PROVE  LET d == WithSnapshots(c, snaps)
               taken == TakenOf(c, snaps)
           IN /\ d.known = c.known /\ d.deleted = c.deleted
              /\ d.touched = c.touched \cup Requests \X taken
              /\ DOMAIN d.mirror = DOMAIN c.mirror \cup taken /\ taken \subseteq Tasks
              /\ \A t \in taken :
                     /\ SnapOf(d.mirror[t]) = snaps[t]
                     /\ Prudent(c) => (d.mirror[t].import = "pending" => d.mirror[t].bound)
              /\ \A t \in DOMAIN c.mirror \ taken : d.mirror[t] = c.mirror[t]
<1> DEFINE taken == TakenOf(c, snaps)
           m == [t \in DOMAIN c.mirror \cup taken |->
                    IF t \in taken THEN Merged(c, t, snaps[t], FALSE) ELSE c.mirror[t]]
           d == WithSnapshots(c, snaps)
<1>1. c \in Client
  BY DEF Proper
<1>2. taken \subseteq Tasks /\ \A t \in taken : snaps[t] \in Snap
  BY PartialFunctions DEF TakenOf
<1>3. d = [c EXCEPT !.mirror = m, !.touched = @ \cup Requests \X taken]
  BY DEF WithSnapshots, TakenOf
<1>4. /\ DOMAIN m = DOMAIN c.mirror \cup taken
      /\ \A t \in taken : m[t] = Merged(c, t, snaps[t], FALSE)
      /\ \A t \in DOMAIN c.mirror \ taken : m[t] = c.mirror[t]
  OBVIOUS
<1> HIDE DEF m, d, taken
<1>5. /\ d.known = c.known /\ d.deleted = c.deleted /\ d.mirror = m
      /\ d.touched = c.touched \cup Requests \X taken
  BY <1>1, <1>3 DEF Client
<1>6. ASSUME NEW t \in taken
      PROVE  /\ SnapOf(d.mirror[t]) = snaps[t]
             /\ Prudent(c) => (d.mirror[t].import = "pending" => d.mirror[t].bound)
  <2> DEFINE e == Merged(c, t, snaps[t], FALSE)
  <2>1. t \in Tasks /\ snaps[t] \in Snap /\ FALSE \in BOOLEAN
    BY <1>2
  <2>2. /\ SnapOf(e) = snaps[t]
        /\ (t \in DOMAIN c.mirror /\ c.mirror[t].import = "pending" => c.mirror[t].bound)
              => (e.import = "pending" => e.bound)
    BY <2>1, MergedSnap
  <2>3. d.mirror[t] = e
    BY <1>4, <1>5
  <2> HIDE DEF e
  <2>4. Prudent(c) => (t \in DOMAIN c.mirror /\ c.mirror[t].import = "pending" => c.mirror[t].bound)
    BY DEF Prudent
  <2>5. Prudent(c) => (e.import = "pending" => e.bound)
    BY <2>2, <2>4
  <2> QED  BY <2>2, <2>3, <2>5
<1> QED  BY <1>2, <1>4, <1>5, <1>6 DEF d, taken

LEMMA ReconciledFacts ==
    ASSUME NEW c, Proper(c), NEW R, R.snaps \in Partial(Snap), R.rev \in Revisions
    PROVE  LET a == WithSnapshots(c, R.snaps)
               d == Reconciled(c, R)
               gone == Missing(a, R)
           IN /\ d.known = a.known /\ d.watermark = R.rev
              /\ DOMAIN d.deleted \subseteq DOMAIN a.deleted
              /\ \A t \in DOMAIN d.deleted : d.deleted[t] = a.deleted[t]
              /\ DOMAIN d.mirror = {t \in DOMAIN a.mirror \ gone :
                                       a.mirror[t].bound \/ t \in R.visible \/ Live(a.mirror[t])}
              /\ \A t \in DOMAIN d.mirror : d.mirror[t] = a.mirror[t]
              /\ a.touched \subseteq d.touched
<1> DEFINE a == WithSnapshots(c, R.snaps)
           gone == Missing(a, R)
           left == DOMAIN a.mirror \ gone
           kept == {t \in left : a.mirror[t].bound \/ t \in R.visible \/ Live(a.mirror[t])}
           lasting == {t \in DOMAIN a.deleted : a.deleted[t] > R.rev}
           c2 == [a EXCEPT !.mirror = Restrict(@, DOMAIN @ \ gone),
                           !.touched = @ \cup Requests \X gone,
                           !.watermark = R.rev,
                           !.deleted = Restrict(@, {t \in DOMAIN @ : @[t] > R.rev})]
           d == Reconciled(c, R)
<1>1. a = [c EXCEPT !.mirror = a.mirror, !.touched = a.touched]
  <2>1. c \in Client
    BY DEF Proper
  <2> QED  BY <2>1 DEF WithSnapshots, Client
<1>2. /\ DOMAIN a = DOMAIN c
      /\ DOMAIN c = {"known", "watermark", "deleted", "retired", "mirror", "outdated", "touched"}
  <2>1. c \in Client
    BY DEF Proper
  <2> HIDE DEF a
  <2> QED  BY <1>1, <2>1 DEF Client
<1>3. d = [c2 EXCEPT !.mirror = Restrict(@, Kept(c2, R.visible))]
  BY DEF Reconciled
<1>4. a = [f \in DOMAIN a |-> a[f]]
  <2> HIDE DEF a
  <2> QED  BY <1>1
<1> HIDE DEF a, gone
<1>5. /\ c2.known = a.known /\ c2.touched = a.touched \cup Requests \X gone
      /\ c2.watermark = R.rev /\ c2.deleted = Restrict(a.deleted, lasting)
      /\ c2.mirror = Restrict(a.mirror, left)
      /\ DOMAIN c2 = DOMAIN a
  BY <1>2, <1>4
<1> HIDE DEF c2, d
<1>6. Kept(c2, R.visible) = kept /\ kept \subseteq left
  BY <1>5 DEF Kept, Restrict
<1>7. /\ d.known = a.known /\ d.touched = a.touched \cup Requests \X gone
      /\ d.watermark = R.rev /\ d.deleted = Restrict(a.deleted, lasting)
      /\ d.mirror = Restrict(c2.mirror, kept)
  BY <1>2, <1>3, <1>5, <1>6
<1>8. /\ DOMAIN d.mirror = kept
      /\ \A t \in kept : d.mirror[t] = a.mirror[t]
  BY <1>5, <1>6, <1>7 DEF Restrict
<1>9. DOMAIN d.deleted = lasting /\ \A t \in lasting : d.deleted[t] = a.deleted[t]
  BY <1>7 DEF Restrict
<1> QED  BY <1>7, <1>8, <1>9 DEF d, a, gone

(* An operation that clears sees what is touched.                          *)
LEMMA StillFailedUntouched ==
    ASSUME Inv', StillFailed, op' = op,
           \A t \in Tasks : Untouched("op", t)' =>
               /\ Untouched("op", t)
               /\ t \in DOMAIN client'.mirror =>
                      t \in DOMAIN client.mirror /\ client'.mirror[t] = client.mirror[t]
    PROVE  StillFailed'
<1> SUFFICES ASSUME op.state \in {"asked", "answered"}, op.kind = "clear",
                    NEW t \in op.victims \cap DOMAIN client'.mirror, Untouched("op", t)'
             PROVE  client'.mirror[t].status = "failed"
  BY DEF StillFailed
<1>1. t \in Tasks
  BY EntryFields DEF Inv, Proper
<1> QED  BY <1>1 DEF StillFailed

(* What the plugin knows once it has applied the list.                     *)
Applied(d, taken, gone) ==
    /\ Evolved(client, d, list.inst, Requests)
    /\ d.known = list.inst /\ d.watermark = list.rev /\ Sober(d)
    /\ DOMAIN d.deleted \subseteq DOMAIN client.deleted
    /\ taken \subseteq DOMAIN list.snaps
    /\ \A t \in DOMAIN list.snaps \ taken :
           \/ <<"list", t>> \in client.touched
           \/ t \in DOMAIN client.deleted
           \/ Stale(client, t, list.snaps[t], TRUE)
    /\ \A t \in DOMAIN d.mirror :
           /\ t \in taken \/ t \in DOMAIN client.mirror
           /\ t \notin gone
           /\ d.mirror[t].bound \/ t \in list.visible \/ Live(d.mirror[t])
           /\ t \in taken => SnapOf(d.mirror[t]) = list.snaps[t]
           /\ t \notin taken => d.mirror[t] = client.mirror[t]
    /\ \A t \in Tasks \ DOMAIN d.mirror :
           /\ t \in taken =>
                  t \in gone \/ ~(t \in list.visible \/ Live(list.snaps[t]))
           /\ t \in DOMAIN client.mirror \ taken =>
                  t \in gone \/ ~(t \in list.visible \/ Live(client.mirror[t]))
    /\ gone \subseteq list.missing
    /\ \A t \in (DOMAIN client.mirror \cap list.missing) \ taken :
           \/ t \in gone
           \/ client.mirror[t].inst = list.inst /\ ~(client.mirror[t].rev <= list.rev)
           \/ <<"list", t>> \in client.touched
    /\ \A t \in Tasks, q \in Requests :
           <<q, t>> \notin d.touched => <<q, t>> \notin client.touched /\ t \notin taken

LEMMA ListIsApplied ==
    ASSUME Inv, InTouch, list.state = "answered", UpTo(client, list.inst),
           ~(list.rev < Accepted(client, list.inst).watermark)
    PROVE  LET c == Accepted(client, list.inst)
           IN Applied(Reconciled(c, list), TakenOf(c, list.snaps),
                      Missing(WithSnapshots(c, list.snaps), list))
<1> DEFINE c == Accepted(client, list.inst)
           a == WithSnapshots(c, list.snaps)
           taken == TakenOf(c, list.snaps)
           gone == Missing(a, list)
           d == Reconciled(c, list)
<1>1. /\ list.inst \in Instances /\ list.rev \in Revisions /\ list.snaps \in Partial(Snap)
      /\ list.inst \in Nat /\ list.rev \in Nat
      /\ \A t \in DOMAIN list.snaps : list.snaps[t].inst = list.inst
      /\ Proper(client) /\ client \in Client
      /\ Precedes(list.inst, list.rev, instance, revision)
      /\ revision \in Nat
  BY ListedFacts, Constants DEF Inv, Proper, Listed, ServerTyped
<1>2. /\ Evolved(client, c, list.inst, Requests) /\ c.mirror = client.mirror
      /\ c.known = list.inst /\ c.touched = client.touched
  BY <1>1, AcceptedEvolves
<1>3. Sober(c) /\ DOMAIN c.deleted \subseteq DOMAIN client.deleted
  BY <1>1, AcceptedKnown
<1>4. Proper(c) /\ c \in Client
  BY <1>2 DEF Evolved, Proper
<1>5. taken \subseteq DOMAIN list.snaps
      /\ \A t \in DOMAIN list.snaps \ taken :
             \/ <<"list", t>> \in client.touched
             \/ t \in DOMAIN client.deleted
             \/ Stale(client, t, list.snaps[t], TRUE)
  <2> HIDE DEF c
  <2> QED  BY <1>2, <1>3 DEF TakenOf, Burying, Stale
<1>6. ~(list.rev < c.watermark)
  OBVIOUS
<1> HIDE DEF c
<1>7. list.rev >= c.watermark
  BY <1>1, <1>4, <1>6, EntryFields
<1>8. Evolved(c, d, list.inst, Requests)
  BY <1>1, <1>2, <1>4, <1>7, ReconciledEvolves
<1>9. /\ a.known = c.known /\ a.deleted = c.deleted
      /\ a.touched = c.touched \cup Requests \X taken
      /\ DOMAIN a.mirror = DOMAIN c.mirror \cup taken /\ taken \subseteq Tasks
      /\ \A t \in taken :
             /\ SnapOf(a.mirror[t]) = list.snaps[t]
             /\ Prudent(c) => (a.mirror[t].import = "pending" => a.mirror[t].bound)
      /\ \A t \in DOMAIN c.mirror \ taken : a.mirror[t] = c.mirror[t]
  BY <1>1, <1>4, SnapshotsFacts
<1>10. /\ d.known = a.known /\ d.watermark = list.rev
       /\ DOMAIN d.deleted \subseteq DOMAIN a.deleted
       /\ \A t \in DOMAIN d.deleted : d.deleted[t] = a.deleted[t]
       /\ DOMAIN d.mirror = {t \in DOMAIN a.mirror \ gone :
                                a.mirror[t].bound \/ t \in list.visible \/ Live(a.mirror[t])}
       /\ \A t \in DOMAIN d.mirror : d.mirror[t] = a.mirror[t]
       /\ a.touched \subseteq d.touched
  BY <1>1, <1>4, ReconciledFacts
<1>11. /\ gone \subseteq list.missing
       /\ \A t \in (DOMAIN a.mirror \cap list.missing) \ gone :
              \/ a.mirror[t].inst = list.inst /\ ~(a.mirror[t].rev <= list.rev)
              \/ <<"list", t>> \in a.touched
  BY DEF Missing
<1> HIDE DEF a, d, taken, gone
<1>12. Sober(d)
  <2>1. Prudent(c)
    BY <1>3 DEF Sober, Prudent
  <2>2. ASSUME NEW t \in DOMAIN d.mirror
        PROVE  d.mirror[t].import = "pending" => d.mirror[t].bound
    <3>1. d.mirror[t] = a.mirror[t] /\ t \in DOMAIN c.mirror \cup taken
      BY <1>9, <1>10
    <3>2. CASE t \in taken
      BY <1>9, <2>1, <3>1, <3>2
    <3>3. CASE t \notin taken
      BY <1>9, <2>1, <3>1, <3>3 DEF Prudent
    <3> QED  BY <3>2, <3>3
  <2>3. ASSUME d.known = instance
        PROVE  /\ d.watermark <= revision
               /\ \A t \in DOMAIN d.deleted : d.deleted[t] <= revision
    <3>1. list.inst = instance /\ c.known = instance
      BY <1>2, <1>9, <1>10, <2>3
    <3>2. d.watermark <= revision
      BY <1>1, <1>10, <3>1 DEF Precedes
    <3>3. \A t \in DOMAIN d.deleted : t \in DOMAIN c.deleted /\ d.deleted[t] = c.deleted[t]
      BY <1>9, <1>10
    <3> QED  BY <1>3, <3>1, <3>2, <3>3 DEF Sober
  <2> QED  BY <2>2, <2>3 DEF Sober
<1>13. Evolved(client, d, list.inst, Requests)
  <2>1. DOMAIN client.mirror \cap DOMAIN d.mirror \subseteq DOMAIN c.mirror
    BY <1>2
  <2> QED  BY <1>1, <1>2, <1>8, <2>1, EvolvedTwice
<1>14. ASSUME NEW t \in DOMAIN d.mirror
       PROVE  /\ t \in taken \/ t \in DOMAIN client.mirror
              /\ t \notin gone
              /\ d.mirror[t].bound \/ t \in list.visible \/ Live(d.mirror[t])
              /\ t \in taken => SnapOf(d.mirror[t]) = list.snaps[t]
              /\ t \notin taken => d.mirror[t] = client.mirror[t]
  BY <1>2, <1>9, <1>10
<1>15. ASSUME NEW t \in Tasks \ DOMAIN d.mirror
       PROVE  /\ t \in taken => t \in gone \/ ~(t \in list.visible \/ Live(list.snaps[t]))
              /\ t \in DOMAIN client.mirror \ taken =>
                     t \in gone \/ ~(t \in list.visible \/ Live(client.mirror[t]))
  <2>1. t \in DOMAIN a.mirror => t \in gone \/ ~(t \in list.visible \/ Live(a.mirror[t]))
    BY <1>10
  <2>2. t \in taken => (Live(a.mirror[t]) <=> Live(list.snaps[t]))
    BY <1>9, SnapFields DEF Live
  <2> QED  BY <1>2, <1>9, <2>1, <2>2
<1>16. ASSUME NEW t \in (DOMAIN client.mirror \cap list.missing) \ taken
       PROVE  \/ t \in gone
              \/ client.mirror[t].inst = list.inst /\ ~(client.mirror[t].rev <= list.rev)
              \/ <<"list", t>> \in client.touched
  <2>1. t \in DOMAIN a.mirror /\ a.mirror[t] = client.mirror[t]
    BY <1>2, <1>9
  <2>2. <<"list", t>> \in a.touched => <<"list", t>> \in client.touched
    BY <1>2, <1>9
  <2> QED  BY <1>11, <2>1, <2>2
<1>17. \A t \in Tasks, q \in Requests :
           <<q, t>> \notin d.touched => <<q, t>> \notin client.touched /\ t \notin taken
  BY <1>2, <1>9, <1>10
<1>18. /\ d.known = list.inst /\ d.watermark = list.rev
       /\ DOMAIN d.deleted \subseteq DOMAIN client.deleted
  BY <1>2, <1>3, <1>9, <1>10
<1>19. Applied(d, taken, gone)
  BY <1>5, <1>11, <1>12, <1>13, <1>14, <1>15, <1>16, <1>17, <1>18 DEF Applied
<1> QED  BY <1>19 DEF d, taken, gone, a, c

(* A list that tells of all tasks: the plugin follows those it must.       *)
LEMMA AppliedFollows ==
    ASSUME Inv, InTouch, UNCHANGED <<serverVars, streamVars>>, Counts,
           NEW taken, NEW gone, NEW d, Applied(d, taken, gone), client'.mirror = d.mirror,
           client'.watermark = list.rev, page' = list.visible,
           NEW t \in Tasks, Untouched("list", t), Required(t)'
    PROVE  Follows(t)'
<1>1. /\ instance' = instance /\ tasks' = tasks /\ Complete /\ Since(t)
      /\ list.inst = instance /\ list.visible \subseteq DOMAIN list.snaps
  BY DEF serverVars, InTouch, Counted, Complete
<1>2. /\ list.state = "answered" /\ list.rev \in Nat
      /\ t \notin gone \/ t \notin DOMAIN tasks
      /\ \A u \in DOMAIN list.snaps : list.snaps[u].inst = instance
  <2>1. list.state = "answered"
    BY DEF Counts
  <2> QED  BY <1>1, <2>1, ListedFacts, Constants DEF Applied
<1>3. News(t, list.rev) => Follows(t)'
  <2>1. News(t, list.rev) => News(t, client.watermark)'
    BY NewsStays
  <2> QED  BY <2>1 DEF Follows
<1>4. /\ <<"list", t>> \notin client.touched
      /\ t \in DOMAIN d.mirror =>
           /\ t \in taken \/ t \in DOMAIN client.mirror
           /\ t \notin gone
           /\ d.mirror[t].bound \/ t \in list.visible \/ Live(d.mirror[t])
           /\ t \in taken => SnapOf(d.mirror[t]) = list.snaps[t]
           /\ t \notin taken => d.mirror[t] = client.mirror[t]
      /\ t \notin DOMAIN d.mirror =>
           /\ t \in taken =>
                  t \in gone \/ ~(t \in list.visible \/ Live(list.snaps[t]))
           /\ t \in DOMAIN client.mirror \ taken =>
                  t \in gone \/ ~(t \in list.visible \/ Live(client.mirror[t]))
      /\ t \in DOMAIN list.snaps \ taken =>
           t \in DOMAIN client.deleted \/ Stale(client, t, list.snaps[t], TRUE)
      /\ taken \subseteq DOMAIN list.snaps
  BY DEF Applied, Untouched
<1>5. \/ t \in DOMAIN tasks /\ Live(tasks[t])
      \/ t \in DOMAIN d.mirror /\ (Shown(t)' \/ ~d.mirror[t].bound)
  BY <1>1 DEF Required
<1>6. CASE t \in DOMAIN tasks /\ tasks[t].rev > list.rev
  BY <1>1, <1>3, <1>6 DEF Since
<1>7. CASE t \notin DOMAIN list.snaps /\ ~(t \in DOMAIN tasks /\ tasks[t].rev > list.rev)
  <2>1. t \in DOMAIN tasks => ~Live(tasks[t])
    <3> SUFFICES ASSUME t \in DOMAIN tasks PROVE ~Live(tasks[t])
      OBVIOUS
    <3>1. tasks[t].rev \in Nat
      BY RecordFacts, Constants
    <3>2. tasks[t].rev <= list.rev
      BY <1>2, <1>7, <3>1
    <3> QED  BY <1>1, <1>7, <3>2 DEF Complete
  <2>2. /\ t \in DOMAIN d.mirror /\ (Shown(t)' \/ ~d.mirror[t].bound)
        /\ t \in DOMAIN client.mirror /\ d.mirror[t] = client.mirror[t] /\ t \notin taken
        /\ t \notin list.visible
    BY <1>1, <1>4, <1>5, <1>7, <2>1
  <2>3. Shown(t)
    BY <1>4, <2>2 DEF Shown
  <2>4. t \in list.missing
    BY <1>1, <1>7, <2>2, <2>3 DEF Since
  <2>5. \/ t \in gone
        \/ client.mirror[t].inst = list.inst /\ ~(client.mirror[t].rev <= list.rev)
    BY <1>4, <2>2, <2>4 DEF Applied
  <2> QED  BY <1>1, <1>4, <2>2, <2>5 DEF Since
<1>8. CASE t \notin DOMAIN tasks /\ t \in DOMAIN list.snaps
  BY <1>1, <1>3, <1>8 DEF Since
<1>9. CASE t \in DOMAIN tasks /\ t \in DOMAIN list.snaps /\ ~(tasks[t].rev > list.rev)
  <2>1. tasks[t].rev \in Nat /\ tasks[t].attempt \in Nat
    BY <1>9, RecordFacts, Constants DEF Record, Attempts
  <2>2. list.snaps[t] = Snapshot(tasks[t])
    BY <1>1, <1>2, <1>9, <2>1 DEF Complete
  <2>3. /\ list.snaps[t].inst = instance /\ list.snaps[t].rev = tasks[t].rev
        /\ list.snaps[t].attempt = tasks[t].attempt /\ list.snaps[t].status = tasks[t].status
    BY <2>2 DEF Snapshot
  <2>4. t \notin gone
    BY <1>2, <1>9
  <2>5. CASE t \in taken
    <3>1. t \in DOMAIN d.mirror
      BY <1>4, <1>5, <2>3, <2>4, <2>5 DEF Live
    <3>2. SnapOf(d.mirror[t]) = list.snaps[t]
      BY <1>4, <2>5, <3>1
    <3>3. InPlace(t)'
      BY <1>1, <1>9, <2>3, <3>1, <3>2, SnapFields DEF InPlace, Agrees
    <3> QED  BY <3>3 DEF Follows
  <2>6. CASE t \notin taken
    <3>1. t \notin DOMAIN client.deleted
      BY <1>9 DEF InTouch, Inv, Buried
    <3>2. /\ t \in DOMAIN client.mirror /\ client.mirror[t].inst = instance
          /\ tasks[t].rev <= client.mirror[t].rev \/ tasks[t].attempt < client.mirror[t].attempt
      BY <1>4, <1>9, <2>3, <2>6, <3>1 DEF Stale
    <3>3. /\ client.mirror[t].attempt <= tasks[t].attempt
          /\ client.mirror[t].rev >= tasks[t].rev => InPlace(t)
      BY <1>9, <3>2, MirrorFacts DEF InTouch
    <3>4. client.mirror[t].attempt \in Nat /\ client.mirror[t].rev \in Nat
      BY <3>2, EntryFields, Constants DEF Inv, Proper, Entry, Attempts
    <3>5. InPlace(t)
      BY <2>1, <3>2, <3>3, <3>4
    <3>6. client.mirror[t].status = tasks[t].status
      BY <3>5 DEF InPlace, Agrees
    <3>7. t \in DOMAIN d.mirror /\ d.mirror[t] = client.mirror[t]
      BY <1>4, <1>5, <2>4, <2>6, <3>2, <3>6 DEF Live
    <3>8. InPlace(t)'
      BY <1>1, <3>5, <3>7 DEF InPlace, Agrees
    <3> QED  BY <3>8 DEF Follows
  <2> QED  BY <2>5, <2>6
<1> QED  BY <1>6, <1>7, <1>8, <1>9

LEMMA AppliedIsHarmless ==
    ASSUME Inv, InTouch, UNCHANGED <<serverVars, streamVars, op>>, Counts,
           client'.watermark = list.rev, client'.known = list.inst,
           \A t \in Tasks : Untouched("list", t)
    PROVE  NoHarm'
<1>1. /\ instance' = instance /\ tasks' = tasks /\ Complete
      /\ list.inst = instance /\ list.state = "answered" /\ list.rev \in Nat
  BY ListedFacts, Constants DEF serverVars, InTouch, Counted, Complete, Counts
<1> SUFFICES ASSUME NEW t \in Tasks, NEW s \in Snap, Carried(t, s), s.inst = instance,
                    op.state = "answered", op.kind \in {"submit", "retry"},
                    op.task = t, op.snap = s
             PROVE  Harmless(t, s)'
  BY <1>1, HarmlessAnswer
<1>2. s.rev \in Nat /\ Since(t)
  BY <1>1, Constants DEF Snap, InTouch, Counted
<1>3. CASE s.rev <= list.rev
  <2>1. Buries(client', t, s.inst, s.rev)
    BY <1>1, <1>3 DEF Buries
  <2> QED  BY <2>1 DEF Harmless
<1>4. CASE s.rev > list.rev
  <2>1. News(t, list.rev)
    <3>1. CASE t \in DOMAIN tasks
      <4>1. Heard(t, s)
        BY DEF Heard
      <4>2. s.rev <= tasks[t].rev /\ tasks[t].rev \in Nat
        BY <3>1, <4>1, RecordFacts, Constants DEF InTouch, Credible, Past
      <4> QED  BY <1>1, <1>2, <1>4, <3>1, <4>2 DEF Since
    <3>2. CASE t \notin DOMAIN tasks
      <4>1. AnswerAfter(t, list.rev)
        BY <1>4 DEF AnswerAfter
      <4> QED  BY <1>2, <3>2, <4>1 DEF Since
    <3> QED  BY <3>1, <3>2
  <2>2. News(t, client.watermark)'
    BY <2>1, NewsStays
  <2> QED  BY <2>2 DEF Harmless
<1> QED  BY <1>1, <1>2, <1>3, <1>4

LEMMA AppliedKeepsInTouch ==
    ASSUME Inv, Inv', InTouch, list.state = "answered", "list" \notin client.outdated,
           UNCHANGED <<serverVars, streamVars, op>>,
           NEW taken, NEW gone, NEW d, Applied(d, taken, gone), page' = list.visible,
           settled' = ({"list"} \X Tasks \cap client.touched = {}),
           buried' = buried \cup gone, NEW wanted \in BOOLEAN, EndRefresh(d, wanted)
    PROVE  InTouch'
<1>1. /\ d \in Client /\ Prudent(d) /\ Sober(d) /\ d.known = list.inst /\ d.watermark = list.rev
      /\ DOMAIN d.deleted \subseteq DOMAIN client.deleted
      /\ Evolved(client, d, list.inst, Requests)
  BY DEF Applied, Evolved, Proper, Sober, Prudent
<1>2. /\ client'.mirror = d.mirror /\ client'.known = list.inst /\ client'.watermark = list.rev
      /\ \A t \in Tasks : <<"op", t>> \notin client'.touched => <<"op", t>> \notin d.touched
      /\ list'.state # "answered"
  <2>1. list'.state # "answered"
    BY DEF EndRefresh, Ask, Idle
  <2>2. client' = d \/ Marked(d, client', "list")
    BY <1>1, ListTurns
  <2>3. "op" \in Requests \ {"list"}
    BY Constants
  <2> QED  BY <1>1, <2>1, <2>2, <2>3 DEF Marked
<1>3. \A t \in DOMAIN d.mirror : Heard(t, SnapOf(d.mirror[t]))
  <2> SUFFICES ASSUME NEW t \in DOMAIN d.mirror PROVE Heard(t, SnapOf(d.mirror[t]))
    OBVIOUS
  <2>1. CASE t \in taken
    <3>1. t \in DOMAIN list.snaps /\ SnapOf(d.mirror[t]) = list.snaps[t]
      BY <2>1 DEF Applied
    <3> QED  BY <3>1 DEF Heard
  <2>2. CASE t \notin taken
    <3>1. t \in DOMAIN client.mirror /\ d.mirror[t] = client.mirror[t]
      BY <2>2 DEF Applied
    <3> QED  BY <3>1 DEF Heard
  <2> QED  BY <2>1, <2>2
<1>4. StillFailed'
  <2> SUFFICES ASSUME NEW t \in Tasks, Untouched("op", t)'
               PROVE  /\ Untouched("op", t)
                      /\ t \in DOMAIN client'.mirror =>
                           t \in DOMAIN client.mirror /\ client'.mirror[t] = client.mirror[t]
    BY StillFailedUntouched DEF InTouch
  <2>1. <<"op", t>> \notin d.touched /\ "op" \in Requests
    BY <1>2, Constants DEF Untouched
  <2>2. <<"op", t>> \notin client.touched /\ t \notin taken
    BY <2>1 DEF Applied
  <2> QED  BY <1>2, <2>2 DEF Applied, Untouched
<1>5. LastWord' /\ (Hearing' <=> Hearing)
  BY NewsStays DEF InTouch
<1>6. Following'
  <2> SUFFICES ASSUME settled', Hearing'
               PROVE  /\ client'.known = instance'
                      /\ NoHarm' /\ \A t \in Tasks : Required(t)' => Follows(t)'
    BY DEF Following
  <2>1. Counts
    BY <1>5 DEF Counts
  <2>2. \A t \in Tasks : Untouched("list", t)
    BY DEF Untouched
  <2>3. client'.known = instance'
    BY <1>2, <2>1 DEF InTouch, Counted, Complete, serverVars
  <2>4. NoHarm'
    BY <1>2, <2>1, <2>2, AppliedIsHarmless
  <2>5. \A t \in Tasks : Required(t)' => Follows(t)'
    BY <1>2, <2>1, <2>2, AppliedFollows
  <2> QED  BY <2>3, <2>4, <2>5
<1>7. /\ \A t \in Tasks, s \in Snap : Carried(t, s)' => Carried(t, s)
      /\ \A t \in Tasks, k \in Instances, q \in Revisions : Dead(t, k, q)' => Dead(t, k, q)
  BY <1>2 DEF Carried, InStream, Dead, DeadInStream, streamVars
<1>8. DOMAIN d.deleted \subseteq buried'
  BY <1>1 DEF InTouch
<1> QED  BY <1>1, <1>3, <1>4, <1>5, <1>6, <1>7, <1>8, TurnFollows

LEMMA ListAppliedFollows == ASSUME Inv, Inv', InTouch, ListApplied PROVE InTouch'
<1>1. /\ list.state = "answered" /\ again \in BOOLEAN
      /\ UNCHANGED <<serverVars, streamVars, op>>
      /\ list.inst \in Instances /\ list.inst <= instance
  BY ListedFacts DEF ListApplied, Inv, PluginTyped
<1>2. ASSUME UNCHANGED <<page, settled, buried>>, NEW wanted \in BOOLEAN,
             EndRefresh(client, wanted)
      PROVE  InTouch'
  <2>1. Evolved(client, client, instance, Requests) /\ Noticed(client, client, Requests)
    BY Here, Still, NothingNoticed
  <2>2. UNCHANGED <<serverVars, streamVars, page, op, settled, buried>>
    BY <1>1, <1>2
  <2> QED  BY <1>2, <2>1, <2>2, Here, ListFollows DEF InTouch
<1> DEFINE c == Accepted(client, list.inst)
           taken == TakenOf(c, list.snaps)
           gone == Missing(WithSnapshots(c, list.snaps), list)
           d == Reconciled(c, list)
<1>3. CASE ~Void(client, "list")
  <2>1. "list" \notin client.outdated /\ UpTo(client, list.inst)
    BY <1>1, <1>3 DEF Void, Inv, Listed
  <2>2. ASSUME UNCHANGED <<page, settled, buried>>, EndRefresh(c, again)
        PROVE  InTouch'
    <3>1. /\ Evolved(client, c, list.inst, Requests) /\ Noticed(client, c, Requests) /\ Sober(c)
          /\ c.mirror = client.mirror /\ DOMAIN c.deleted \subseteq DOMAIN client.deleted
      BY <1>1, <2>1, AcceptedKnown
    <3>2. UNCHANGED <<serverVars, streamVars, page, op, settled, buried>>
      BY <1>1, <2>2
    <3>3. DOMAIN c.deleted \subseteq buried /\ EndRefresh(c, again)
      BY <2>2, <3>1 DEF InTouch
    <3> HIDE DEF c
    <3> QED  BY <1>1, <3>1, <3>2, <3>3, ListFollows
  <2>3. ASSUME ~(list.rev < c.watermark), page' = list.visible,
               settled' = ({"list"} \X Tasks \cap client.touched = {}),
               buried' = buried \cup gone, EndRefresh(d, again)
        PROVE  InTouch'
    <3>1. Applied(d, taken, gone)
      BY <1>1, <2>1, <2>3, ListIsApplied
    <3> HIDE DEF d, taken, gone
    <3> QED  BY <1>1, <2>1, <2>3, <3>1, AppliedKeepsInTouch
  <2>4. ListApplied => \/ UNCHANGED <<page, settled, buried>> /\ EndRefresh(client, again)
                       \/ UNCHANGED <<page, settled, buried>> /\ EndRefresh(c, again)
                       \/ /\ ~(list.rev < c.watermark) /\ page' = list.visible
                          /\ settled' = ({"list"} \X Tasks \cap client.touched = {})
                          /\ buried' = buried \cup gone /\ EndRefresh(d, again)
    BY <1>3 DEF ListApplied
  <2> HIDE DEF c, d, gone
  <2> QED  BY <1>1, <1>2, <2>2, <2>3, <2>4
<1>4. CASE Void(client, "list")
  <2>1. UNCHANGED <<page, settled, buried>> /\ EndRefresh(client, TRUE) /\ TRUE \in BOOLEAN
    BY <1>4 DEF ListApplied
  <2> QED  BY <1>2, <2>1
<1> QED  BY <1>3, <1>4

-----------------------------------------------------------------------------
(* The steps of the server.                                                *)

(* Only the tasks in T move on, or come into being, or are deleted.        *)
Moved(T) ==
    /\ instance' = instance /\ revision <= revision'
    /\ \A t \in Tasks \ T : /\ t \in DOMAIN tasks' <=> t \in DOMAIN tasks
                            /\ t \in DOMAIN tasks => tasks'[t] = tasks[t]
    /\ \A t \in T : t \in DOMAIN tasks' =>
           /\ tasks'[t].rev > revision
           /\ t \in 1..created => t \in DOMAIN tasks
           /\ t \in DOMAIN tasks => tasks[t].attempt <= tasks'[t].attempt

LEMMA HeardFacts ==
    ASSUME Inv, NEW t \in Tasks, NEW s \in Snap, Heard(t, s)
    PROVE  t \in 1..created
<1>1. CASE Carried(t, s)
  BY <1>1 DEF Inv, Told
<1>2. CASE list.state = "answered" /\ t \in DOMAIN list.snaps
  BY <1>2, ListedFacts
<1>3. CASE t \in DOMAIN client.mirror
  BY <1>3, Here
<1> QED  BY <1>1, <1>2, <1>3 DEF Heard

LEMMA CredibleMoves ==
    ASSUME Inv, Inv', Credible, NEW T \in SUBSET Tasks, Moved(T),
           \A t \in Tasks, s \in Snap :
               Heard(t, s)' => \/ Heard(t, s)
                               \/ t \in DOMAIN tasks' /\ s = Snapshot(tasks[t])',
           \A t \in Tasks, j \in Instances, q \in Revisions :
               Dead(t, j, q)' => Dead(t, j, q) \/ (j = instance /\ revision <= q)
    PROVE  Credible'
<1> SUFFICES ASSUME NEW t \in Tasks, NEW s \in Snap, Heard(t, s)'
             PROVE  Past(t, s)' /\ BeforeTheEnd(t, s)'
  BY DEF Credible
<1>1. /\ instance' = instance /\ revision <= revision' /\ revision \in Nat /\ revision' \in Nat
      /\ s.inst \in Nat /\ s.rev \in Nat /\ s.attempt \in Nat /\ instance \in Nat
  BY Constants DEF Moved, Inv, ServerTyped, Snap, Attempts
<1>2. t \in DOMAIN tasks' => /\ tasks'[t].rev \in 1..revision' /\ tasks'[t].rev \in Nat
                             /\ tasks'[t].attempt \in Nat
  BY Constants DEF Inv, ServerTyped, Record, Attempts
<1>3. CASE Heard(t, s)
  <2>1. Past(t, s) /\ BeforeTheEnd(t, s) /\ t \in 1..created
    BY <1>3, HeardFacts DEF Credible
  <2>2. Precedes(s.inst, s.rev, instance, revision)
    BY <2>1 DEF Past
  <2>3. Precedes(s.inst, s.rev, instance', revision')
    BY <1>1, <2>2 DEF Precedes
  <2>4. CASE t \notin T
    <3>1. /\ t \in DOMAIN tasks' <=> t \in DOMAIN tasks
          /\ t \in DOMAIN tasks => tasks'[t] = tasks[t]
      BY <2>4 DEF Moved
    <3>2. Past(t, s)'
      BY <1>1, <2>1, <2>3, <3>1 DEF Past, Snapshot
    <3>3. BeforeTheEnd(t, s)'
      BY <1>1, <2>1, <2>2, Constants DEF BeforeTheEnd, Precedes
    <3> QED  BY <3>2, <3>3
  <2>5. CASE t \in T
    <3>1. t \in DOMAIN tasks' => /\ tasks'[t].rev > revision /\ t \in DOMAIN tasks
                                 /\ tasks[t].attempt <= tasks'[t].attempt
      BY <2>1, <2>5 DEF Moved
    <3>2. t \in DOMAIN tasks => tasks[t].attempt \in Nat /\ s.attempt <= tasks[t].attempt
      BY <2>1, RecordFacts DEF Past, Record, Attempts
    <3>3. t \in DOMAIN tasks' => s.attempt <= tasks'[t].attempt
      BY <1>1, <1>2, <3>1, <3>2
    <3>4. t \in DOMAIN tasks' /\ s.inst = instance => s.rev < tasks'[t].rev
      BY <1>1, <1>2, <2>2, <3>1 DEF Precedes
    <3>5. Past(t, s)'
      BY <1>1, <1>2, <2>3, <3>3, <3>4 DEF Past
    <3>6. BeforeTheEnd(t, s)'
      BY <1>1, <2>1, <2>2, Constants DEF BeforeTheEnd, Precedes
    <3> QED  BY <3>5, <3>6
  <2> QED  BY <2>4, <2>5
<1>4. CASE t \in DOMAIN tasks' /\ s = Snapshot(tasks[t])'
  <2>1. /\ s.inst = instance' /\ s.rev = tasks'[t].rev /\ s.attempt = tasks'[t].attempt
    BY <1>4 DEF Snapshot
  <2>2. Past(t, s)'
    BY <1>1, <1>2, <1>4, <2>1 DEF Past, Precedes
  <2>3. \A j \in Instances, q \in Revisions : ~Dead(t, j, q)'
    BY <1>4 DEF Inv, Gone
  <2> QED  BY <2>2, <2>3 DEF BeforeTheEnd
<1> QED  BY <1>3, <1>4

(* What the stream gains tells of each task in T.                          *)
Tells(T, events) ==
    /\ connected' => connected /\ stream' = stream \o events
    /\ \A n \in DOMAIN events : EventRev(events[n]) > revision /\ events[n].task \in T
    /\ \A n \in DOMAIN events : Final(events[n], events[n].task)'
    /\ \A t \in T : \E n \in DOMAIN events : events[n].task = t

LEMMA Longer ==
    ASSUME Inv, NEW events \in Seq(Event), stream' = stream \o events
    PROVE  /\ \A n \in DOMAIN stream : n \in DOMAIN stream' /\ stream'[n] = stream[n] /\ n \in Nat
           /\ \A n \in DOMAIN events :
                  /\ Len(stream) + n \in DOMAIN stream' /\ stream'[Len(stream) + n] = events[n]
                  /\ \A m \in DOMAIN stream : m <= Len(stream) + n
           /\ \A n \in DOMAIN stream' :
                  \/ n \in DOMAIN stream
                  \/ /\ n - Len(stream) \in DOMAIN events /\ n \in Nat
                     /\ stream'[n] = events[n - Len(stream)]
BY DEF Inv, ServerTyped

LEMMA NewsMoves ==
    ASSUME Inv, LastWord, NEW T \in SUBSET Tasks, Moved(T), NEW events \in Seq(Event),
           Tells(T, events), connected'
    PROVE  /\ Hearing' => Hearing
           /\ \A t \in Tasks \ T : \A w : News(t, w) => News(t, w)'
           /\ \A t \in T, w \in Int : w <= revision => News(t, w)'
<1>1. /\ connected /\ stream' = stream \o events /\ revision \in Nat
  BY Constants DEF Tells, Inv, ServerTyped
<1>2. /\ \A n \in DOMAIN stream : n \in DOMAIN stream' /\ stream'[n] = stream[n] /\ n \in Nat
      /\ \A n \in DOMAIN events :
             /\ Len(stream) + n \in DOMAIN stream' /\ stream'[Len(stream) + n] = events[n]
             /\ \A m \in DOMAIN stream : m <= Len(stream) + n
      /\ \A n \in DOMAIN stream' :
             \/ n \in DOMAIN stream
             \/ /\ n - Len(stream) \in DOMAIN events /\ n \in Nat
                /\ stream'[n] = events[n - Len(stream)]
  BY <1>1, Longer
<1>3. \A e : \A t \in Tasks \ T : Final(e, t) => Final(e, t)'
  BY DEF Moved, Final, Snapshot
<1>4. Hearing' => Hearing
  BY <1>1, <1>2 DEF Hearing
<1>5. ASSUME NEW t \in Tasks \ T, NEW w, News(t, w)
      PROVE  News(t, w)'
  <2>1. PICK n \in DOMAIN stream : Final(stream[n], t) /\ EventRev(stream[n]) > w
    BY <1>5 DEF News
  <2>2. Final(stream[n], t)'
    BY <1>2, <1>3, <2>1
  <2> QED  BY <1>2, <2>1, <2>2 DEF News
<1>6. ASSUME NEW t \in T, NEW w \in Int, w <= revision
      PROVE  News(t, w)'
  <2>1. PICK n \in DOMAIN events : events[n].task = t
    BY DEF Tells
  <2>2. EventRev(events[n]) > revision /\ Final(events[n], t)'
    BY <2>1 DEF Tells
  <2>3. EventRev(events[n]) \in Int
    <3>1. events[n] \in Event /\ events[n].type \in {"task", "deleted"}
      BY <2>2 DEF Final
    <3>2. CASE events[n].type = "task"
      <4>1. events[n].snap \in Snap
        BY <3>1, <3>2 DEF Event
      <4>2. events[n].snap.rev \in Int
        BY <4>1, BoundsAssumption DEF Snap, Revisions
      <4> QED  BY <3>2, <4>2 DEF EventRev
    <3>3. CASE events[n].type = "deleted"
      <4>1. events[n].rev \in Revisions
        BY <3>1, <3>3 DEF Event
      <4>2. events[n].rev \in Int
        BY <4>1, BoundsAssumption DEF Revisions
      <4> QED  BY <3>3, <4>2 DEF EventRev
    <3> QED  BY <3>1, <3>2, <3>3
  <2>4. /\ Len(stream) + n \in DOMAIN stream' /\ stream'[Len(stream) + n] = events[n]
        /\ EventRev(events[n]) > w
    BY <1>1, <1>2, <1>6, <2>2, <2>3
  <2> QED  BY <2>2, <2>4 DEF News, EventRev
<1> QED  BY <1>4, <1>5, <1>6

(* The server answers the operation that it was asked for.                 *)
Replied ==
    /\ op.state = "asked" /\ op'.state = "answered" /\ op'.kind = op.kind
    /\ op.kind = "clear" => op'.victims = op.victims
    /\ op.kind = "delete" => op'.inst = instance /\ revision <= op'.rev
    /\ op.kind \in {"submit", "retry"} =>
           op'.task \in DOMAIN tasks' /\ op'.snap = Snapshot(tasks[op.task])'

LEMMA ServerCounted ==
    ASSUME Inv, Inv', LastWord, Counted, NEW T \in SUBSET Tasks, Moved(T),
           NEW events \in Seq(Event), Tells(T, events),
           UNCHANGED <<client, page, list>>, op' = op \/ Replied
    PROVE  Counted'
<1> SUFFICES ASSUME Counts'
             PROVE  Complete' /\ \A t \in Tasks : Untouched("list", t)' => Since(t)'
  BY DEF Counted
<1>1. connected'
  BY DEF Counts, Hearing
<1>2. /\ Hearing' => Hearing
      /\ \A t \in Tasks \ T : \A w : News(t, w) => News(t, w)'
      /\ \A t \in T, w \in Int : w <= revision => News(t, w)'
  BY <1>1, NewsMoves
<1>3. Counts
  BY <1>2 DEF Counts
<1>4. /\ list.inst = instance /\ instance' = instance /\ list.rev \in Int
      /\ list.rev <= revision /\ revision \in Nat
  <2>1. list.inst = instance /\ list.state = "answered"
    BY <1>3 DEF Counted, Complete, Counts
  <2>2. Precedes(list.inst, list.rev, instance, revision) /\ list.rev \in Revisions
    BY <2>1, ListedFacts DEF Inv, Listed
  <2>3. revision \in Revisions /\ instance \in Instances
    BY DEF Inv, ServerTyped
  <2>4. list.rev \in Int /\ revision \in Nat /\ instance \in Nat
    BY <2>2, <2>3, BoundsAssumption DEF Revisions, Instances
  <2> QED  BY <2>1, <2>2, <2>4 DEF Precedes, Moved
<1>5. \A t \in Tasks \ T : /\ t \in DOMAIN tasks' <=> t \in DOMAIN tasks
                           /\ t \in DOMAIN tasks => tasks'[t] = tasks[t]
  BY DEF Moved
<1>6. \A t \in DOMAIN tasks' : t \in Tasks /\ tasks'[t].rev \in Nat
  <2>1. \A t \in DOMAIN tasks' : t \in 1..created' /\ tasks'[t].rev \in 1..revision'
    BY DEF Inv, ServerTyped
  <2>2. created' \in 0..MaxTasks
    BY DEF Inv, ServerTyped
  <2> QED  BY <2>1, <2>2, BoundsAssumption DEF Tasks
<1>7. ASSUME NEW t \in DOMAIN tasks', tasks'[t].rev <= list.rev
      PROVE  t \in Tasks \ T
  BY <1>4, <1>6, <1>7 DEF Moved
<1>8. Complete'
  <2>1. Complete
    BY <1>3 DEF Counted
  <2>2. ASSUME NEW t \in DOMAIN tasks', tasks'[t].rev <= list.rev
        PROVE  /\ t \in DOMAIN list.snaps => list.snaps[t] = Snapshot(tasks[t])'
               /\ Live(tasks[t])' => t \in DOMAIN list.snaps
    <3>1. t \in DOMAIN tasks /\ tasks'[t] = tasks[t]
      BY <1>5, <1>7, <2>2
    <3>2. /\ t \in DOMAIN list.snaps => list.snaps[t] = Snapshot(tasks[t])
          /\ Live(tasks[t]) => t \in DOMAIN list.snaps
      BY <2>1, <2>2, <3>1 DEF Complete
    <3> QED  BY <1>4, <3>1, <3>2 DEF Snapshot, Live
  <2> QED  BY <1>4, <2>1, <2>2 DEF Complete
<1>9. ASSUME NEW t \in Tasks, Untouched("list", t)'
      PROVE  Since(t)'
  <2>1. Untouched("list", t) /\ Since(t)
    BY <1>3, <1>9 DEF Untouched, Counted
  <2>2. CASE t \in T
    <3>1. News(t, list.rev)'
      BY <1>2, <1>4, <2>2
    <3> QED  BY <1>4, <2>1, <3>1 DEF Since, Shown
  <2>3. CASE t \notin T
    <3>1. News(t, list.rev) => News(t, list.rev)'
      BY <1>2, <2>3
    <3>2. /\ t \in DOMAIN tasks' <=> t \in DOMAIN tasks
          /\ t \in DOMAIN tasks => tasks'[t] = tasks[t]
      BY <1>5, <2>3
    <3>3. t \notin DOMAIN tasks' /\ AnswerAfter(t, list.rev)' => AnswerAfter(t, list.rev)
      BY <1>4 DEF AnswerAfter, Replied
    <3> QED  BY <1>4, <2>1, <3>1, <3>2, <3>3 DEF Since, Shown
  <2> QED  BY <2>2, <2>3
<1> QED  BY <1>8, <1>9

LEMMA ServerFollowing ==
    ASSUME Inv, Inv', LastWord, Sober(client), Following, NEW T \in SUBSET Tasks, Moved(T),
           NEW events \in Seq(Event), Tells(T, events),
           UNCHANGED <<client, page, settled>>, op' = op \/ Replied
    PROVE  Following'
<1> SUFFICES ASSUME settled', Hearing'
             PROVE  /\ client'.known = instance' /\ NoHarm'
                    /\ \A t \in Tasks : Required(t)' => Follows(t)'
  BY DEF Following
<1>1. connected'
  BY DEF Hearing
<1>2. /\ Hearing' => Hearing
      /\ \A t \in Tasks \ T : \A w : News(t, w) => News(t, w)'
      /\ \A t \in T, w \in Int : w <= revision => News(t, w)'
  BY <1>1, NewsMoves
<1>3. client.known = instance /\ NoHarm /\ \A t \in Tasks : Required(t) => Follows(t)
  BY <1>2 DEF Following
<1>4. instance' = instance /\ client' = client /\ page' = page
  BY DEF Moved
<1>5. client.watermark \in Int /\ client.watermark <= revision
  <2>1. client.watermark \in Revisions \cup {-1}
    BY DEF Inv, Proper, Client
  <2> QED  BY <1>3, <2>1, BoundsAssumption DEF Revisions, Sober
<1>6. \A t \in Tasks : News(t, client.watermark) => News(t, client.watermark)'
  BY <1>2, <1>4, <1>5
<1>7. \A t \in T : News(t, client.watermark)'
  BY <1>2, <1>4, <1>5
<1>8. \A t \in Tasks \ T : /\ t \in DOMAIN tasks' <=> t \in DOMAIN tasks
                           /\ t \in DOMAIN tasks => tasks'[t] = tasks[t]
  BY DEF Moved
<1>9. ASSUME NEW t \in Tasks, Required(t)'
      PROVE  Follows(t)'
  <2>1. CASE t \in T
    BY <1>7, <2>1 DEF Follows
  <2>2. CASE t \notin T
    <3>1. /\ t \in DOMAIN tasks' <=> t \in DOMAIN tasks
          /\ t \in DOMAIN tasks => tasks'[t] = tasks[t]
      BY <1>8, <2>2
    <3>2. Required(t)
      BY <1>4, <1>9, <3>1 DEF Required, Shown, Live
    <3>3. InPlace(t) \/ News(t, client.watermark)
      BY <1>3, <3>2 DEF Follows
    <3>4. InPlace(t) => InPlace(t)'
      BY <1>4, <3>1 DEF InPlace, Agrees
    <3> QED  BY <1>6, <3>3, <3>4 DEF Follows
  <2> QED  BY <2>1, <2>2
<1>10. NoHarm'
  <2> SUFFICES ASSUME op'.state = "answered", op'.kind \in {"submit", "retry"},
                      op'.snap.inst = instance
               PROVE  Harmless(op.task, op.snap)'
    BY <1>4 DEF NoHarm
  <2>1. CASE op' = op
    <3>1. Harmless(op.task, op.snap) /\ op.task \in Tasks
      BY <1>3, <2>1, AnsweredFacts DEF NoHarm
    <3>2. CASE op.task \in T
      BY <1>7, <2>1, <3>2 DEF Harmless
    <3>3. CASE op.task \notin T
      <4>1. /\ op.task \in DOMAIN tasks' <=> op.task \in DOMAIN tasks
            /\ op.task \in DOMAIN tasks => tasks'[op.task] = tasks[op.task]
        BY <1>8, <3>1, <3>3
      <4>2. News(op.task, client.watermark) => News(op.task, client.watermark)'
        BY <1>6, <2>1, <3>1
      <4> QED  BY <1>4, <2>1, <3>1, <4>1, <4>2 DEF Harmless, Buries, Snapshot
    <3> QED  BY <3>2, <3>3
  <2>2. CASE Replied
    BY <2>2 DEF Replied, Harmless
  <2> QED  BY <2>1, <2>2
<1> QED  BY <1>3, <1>4, <1>9, <1>10

LEMMA ServerLastWord ==
    ASSUME Inv, LastWord, NEW T \in SUBSET Tasks, Moved(T), NEW events \in Seq(Event),
           Tells(T, events)
    PROVE  LastWord'
<1> SUFFICES ASSUME connected', NEW n \in DOMAIN stream'
             PROVE  /\ stream'[n].type # "resync"
                    /\ stream'[n].type = "task" =>
                           \E m \in DOMAIN stream' :
                               m >= n /\ Final(stream[m], stream[n].task)'
  BY DEF LastWord
<1>1. /\ connected /\ stream' = stream \o events
      /\ \A m \in DOMAIN events : Final(events[m], events[m].task)'
      /\ \A t \in T : \E m \in DOMAIN events : events[m].task = t
  BY DEF Tells
<1>2. /\ \A m \in DOMAIN stream : m \in DOMAIN stream' /\ stream'[m] = stream[m] /\ m \in Nat
      /\ \A m \in DOMAIN events :
             /\ Len(stream) + m \in DOMAIN stream' /\ stream'[Len(stream) + m] = events[m]
             /\ \A k \in DOMAIN stream : k <= Len(stream) + m
      /\ \A m \in DOMAIN stream' :
             \/ m \in DOMAIN stream
             \/ /\ m - Len(stream) \in DOMAIN events /\ m \in Nat
                /\ stream'[m] = events[m - Len(stream)]
  BY <1>1, Longer
<1>3. \A e : \A t \in Tasks \ T : Final(e, t) => Final(e, t)'
  BY DEF Moved, Final, Snapshot
<1>4. CASE n \in DOMAIN stream
  <2>1. stream'[n] = stream[n] /\ stream[n].type # "resync"
    BY <1>1, <1>2, <1>4 DEF LastWord
  <2>2. ASSUME stream[n].type = "task"
        PROVE  \E m \in DOMAIN stream' : m >= n /\ Final(stream[m], stream[n].task)'
    <3>1. stream[n].task \in Tasks
      BY <1>4, <2>2 DEF Inv, ServerTyped, Event
    <3>2. CASE stream[n].task \in T
      <4>1. PICK m \in DOMAIN events : events[m].task = stream[n].task
        BY <1>1, <3>2
      <4>2. Final(events[m], events[m].task)'
        BY <1>1
      <4>3. Len(stream) + m \in DOMAIN stream' /\ stream'[Len(stream) + m] = events[m]
            /\ Len(stream) + m >= n
        BY <1>2, <1>4
      <4> QED  BY <2>1, <4>1, <4>2, <4>3 DEF Final
    <3>3. CASE stream[n].task \notin T
      <4>1. PICK m \in DOMAIN stream : m >= n /\ Final(stream[m], stream[n].task)
        BY <1>1, <1>4, <2>2 DEF LastWord
      <4>2. Final(stream[m], stream[n].task)'
        BY <1>2, <1>3, <2>1, <3>1, <3>3, <4>1 DEF Final
      <4> QED  BY <1>2, <4>1, <4>2
    <3> QED  BY <3>2, <3>3
  <2> QED  BY <2>1, <2>2
<1>5. CASE n \notin DOMAIN stream
  <2>1. PICK m \in DOMAIN events : stream'[n] = events[m] /\ n \in Nat
    BY <1>2, <1>5
  <2>2. Final(events[m], events[m].task)'
    BY <1>1
  <2>3. Final(stream[n], stream[n].task)' /\ n >= n
    BY <2>1, <2>2 DEF Final
  <2> QED  BY <2>3 DEF Final
<1> QED  BY <1>4, <1>5

(* A subscription that is still in place holds what was published.         *)
LEMMA Published ==
    ASSUME NEW events \in Seq(Event), stream \in Seq(Event), connected \in BOOLEAN,
           Publish(events)
    PROVE  connected' => connected /\ stream' = stream \o events
<1>1. CASE ~connected
  BY <1>1 DEF Publish, streamVars
<1>2. CASE connected /\ events = <<>>
  <2>1. connected' = connected /\ stream' = stream
    BY <1>2 DEF Publish, streamVars
  <2>2. stream \o events = stream
    BY <1>2
  <2> QED  BY <1>2, <2>1, <2>2
<1>3. CASE connected /\ events # <<>> /\ Len(stream) + Len(events) <= QueueSize
  BY <1>3 DEF Publish
<1>4. CASE connected /\ events # <<>> /\ ~(Len(stream) + Len(events) <= QueueSize)
  <2>1. connected' = FALSE
    BY <1>4 DEF Publish
  <2> QED  BY <2>1
<1> QED  BY <1>1, <1>2, <1>3, <1>4

(* The server does something to the tasks in T.                            *)
LEMMA ServerFollows ==
    ASSUME Inv, Inv', InTouch, NEW T \in SUBSET Tasks, Moved(T),
           NEW events \in Seq(Event), Tells(T, events),
           UNCHANGED <<client, page, list, settled, buried>>, op' = op \/ Replied,
           \A t \in Tasks, s \in Snap :
               InStream(t, s)' => \/ InStream(t, s)
                                  \/ t \in DOMAIN tasks' /\ s = Snapshot(tasks[t])',
           \A t \in Tasks, j \in Instances, q \in Revisions :
               DeadInStream(t, j, q)' =>
                   DeadInStream(t, j, q) \/ (j = instance /\ revision <= q)
    PROVE  InTouch'
<1>1. /\ Credible /\ LastWord /\ Sober(client) /\ DOMAIN client.deleted \subseteq buried
      /\ StillFailed /\ AskedFor /\ Counted /\ Following
  BY DEF InTouch
<1>2. instance' = instance /\ revision <= revision' /\ client' = client /\ list' = list
  BY DEF Moved
<1>3. Credible'
  <2>1. ASSUME NEW t \in Tasks, NEW s \in Snap, Heard(t, s)'
        PROVE  Heard(t, s) \/ (t \in DOMAIN tasks' /\ s = Snapshot(tasks[t])')
    <3>1. CASE InStream(t, s)'
      BY <3>1 DEF Heard, Carried
    <3>2. CASE /\ op'.state = "answered" /\ op'.kind \in {"submit", "retry"}
               /\ op'.task = t /\ op'.snap = s
      BY <3>2 DEF Heard, Carried, Replied
    <3>3. CASE ~Carried(t, s)'
      BY <1>2, <2>1, <3>3 DEF Heard
    <3> QED  BY <3>1, <3>2, <3>3 DEF Carried
  <2>2. ASSUME NEW t \in Tasks, NEW j \in Instances, NEW q \in Revisions, Dead(t, j, q)'
        PROVE  Dead(t, j, q) \/ (j = instance /\ revision <= q)
    <3>1. CASE DeadInStream(t, j, q)'
      BY <3>1 DEF Dead
    <3>2. CASE /\ op'.state = "answered" /\ op'.kind = "delete"
               /\ op'.task = t /\ op'.inst = j /\ op'.rev = q
      BY <3>2 DEF Dead, Replied
    <3>3. CASE list.state = "answered" /\ t \in list.missing /\ j = list.inst /\ q = list.rev
      BY <3>3 DEF Dead
    <3> QED  BY <1>2, <2>2, <3>1, <3>2, <3>3 DEF Dead
  <2> QED  BY <1>1, <2>1, <2>2, CredibleMoves
<1>4. LastWord'
  BY <1>1, ServerLastWord
<1>5. Sober(client)'
  <2>1. ASSUME client.known = instance
        PROVE  /\ client.watermark <= revision'
               /\ \A t \in DOMAIN client.deleted : client.deleted[t] <= revision'
    <3>1. revision \in Nat /\ revision' \in Nat
      BY Constants DEF Inv, ServerTyped
    <3>2. client.watermark \in Int /\ client.watermark <= revision
      <4>1. client.watermark \in Revisions \cup {-1}
        BY DEF Inv, Proper, Client
      <4> QED  BY <1>1, <2>1, <4>1, BoundsAssumption DEF Revisions, Sober
    <3>3. ASSUME NEW t \in DOMAIN client.deleted
          PROVE  client.deleted[t] \in Int /\ client.deleted[t] <= revision
      <4>1. client.deleted \in Partial(Revisions)
        BY DEF Inv, Proper, Client
      <4>2. client.deleted[t] \in Revisions
        BY <4>1, PartialFunctions
      <4> QED  BY <1>1, <2>1, <4>2, BoundsAssumption DEF Revisions, Sober
    <3> QED  BY <1>2, <3>1, <3>2, <3>3
  <2> QED  BY <1>1, <1>2, <2>1 DEF Sober
<1>6. StillFailed'
  BY <1>1, <1>2 DEF StillFailed, Replied, Untouched
<1>7. AskedFor'
  BY <1>1, <1>2 DEF AskedFor, Untouched, Shown, Live
<1>8. Counted' /\ Following'
  BY <1>1, ServerCounted, ServerFollowing
<1>9. DOMAIN client'.deleted \subseteq buried'
  BY <1>1
<1> QED  BY <1>3, <1>4, <1>5, <1>6, <1>7, <1>8, <1>9 DEF InTouch

(* An answer that tells of a task as it is.                                *)
LEMMA AnsweredFollows ==
    ASSUME Inv, Inv', InTouch, NEW t \in DOMAIN tasks, op.state = "asked",
           op.kind \in {"submit", "retry"}, Answer(t, Snapshot(tasks[t])),
           UNCHANGED <<serverVars, streamVars, client, page, list, settled, buried>>
    PROVE  InTouch'
<1> DEFINE events == <<>>
<1>1. events \in Seq(Event) /\ DOMAIN events = {}
  OBVIOUS
<1>2. stream \in Seq(Event) => stream \o events = stream
  OBVIOUS
<1> HIDE DEF events
<1>3. /\ UNCHANGED <<instance, revision, tasks, connected, stream>>
      /\ stream \in Seq(Event) /\ revision \in Nat
  BY Constants DEF serverVars, streamVars, Inv, ServerTyped
<1>4. Moved({})
  BY <1>3 DEF Moved
<1>5. Tells({}, events)
  BY <1>1, <1>2, <1>3 DEF Tells
<1>6. Replied
  <2>1. op'.state = "answered" /\ op'.kind = op.kind /\ op'.task = t
        /\ op'.snap = Snapshot(tasks[t])
    BY DEF Answer
  <2> QED  BY <1>3, <2>1 DEF Replied, Snapshot
<1>7. /\ \A u, s : InStream(u, s)' => InStream(u, s)
      /\ \A u, j, q : DeadInStream(u, j, q)' => DeadInStream(u, j, q)
  BY <1>3 DEF InStream, DeadInStream
<1> QED  BY <1>1, <1>4, <1>5, <1>6, <1>7, ServerFollows

(* A change of one task, by itself or with an answer that tells of it.     *)
LEMMA ChangeFollows ==
    ASSUME Inv, Inv', InTouch, NEW t \in Tasks, NEW record \in Record, Changed(t, record),
           \/ t \in DOMAIN tasks /\ created' = created /\ tasks[t].attempt <= record.attempt
           \/ t = created + 1 /\ created' = created + 1,
           UNCHANGED <<instance, client, page, list, settled, buried>>,
           \/ op' = op
           \/ op.kind \in {"submit", "retry"} /\ op.state = "asked"
              /\ Answer(t, [Snapshot(record) EXCEPT !.rev = revision + 1])
    PROVE  InTouch'
<1>1. PICK event : event = TaskEvent(t, record, revision + 1)
  OBVIOUS
<1>2. PICK events : events = <<event>>
  OBVIOUS
<1>3. /\ instance \in Instances /\ revision \in Nat /\ created \in Nat
      /\ stream \in Seq(Event) /\ connected \in BOOLEAN
      /\ revision' = revision + 1 /\ revision' \in Revisions
      /\ DOMAIN tasks \subseteq 1..created
      /\ tasks' = With(tasks, t, [record EXCEPT !.rev = revision + 1])
      /\ Publish(events)
  <2>1. /\ instance \in Instances /\ revision \in Nat /\ created \in 0..MaxTasks
        /\ stream \in Seq(Event) /\ connected \in BOOLEAN
        /\ DOMAIN tasks \subseteq 1..created
    BY Constants DEF Inv, ServerTyped
  <2>2. revision < MaxRevision /\ revision' = revision + 1
    BY DEF Changed
  <2> QED  BY <1>1, <1>2, <2>1, <2>2, Constants DEF Changed, Revisions
<1>4. PICK r : r = [record EXCEPT !.rev = revision + 1]
  OBVIOUS
<1>5. r \in Record /\ r.rev = revision + 1 /\ r.attempt = record.attempt
      /\ r.status = record.status
  BY <1>3, <1>4 DEF Record
<1>6. /\ DOMAIN tasks' = DOMAIN tasks \cup {t} /\ tasks'[t] = r
      /\ \A u \in DOMAIN tasks : u # t => tasks'[u] = tasks[u]
  BY <1>3, <1>4 DEF With
<1>7. /\ event.type = "task" /\ event.task = t /\ event \in Event
      /\ event.snap = Snapshot(r)
  BY <1>1, <1>3, <1>5 DEF TaskEvent, Event, Snap, Record, Snapshot
<1>8. events \in Seq(Event) /\ DOMAIN events = {1} /\ events[1] = event
  BY <1>2, <1>7
<1>9. Snapshot(tasks[t])' = Snapshot(r)
  BY <1>6 DEF Snapshot
<1>10. Final(event, t)'
  BY <1>6, <1>7, <1>9 DEF Final
<1>11. Moved({t})
  <2>1. t \in 1..created => t \in DOMAIN tasks
    BY <1>3
  <2>2. t \in DOMAIN tasks => tasks[t].attempt <= tasks'[t].attempt
    BY <1>3, <1>5, <1>6
  <2> QED  BY <1>3, <1>5, <1>6, <2>1, <2>2 DEF Moved
<1>12. connected' => connected /\ stream' = stream \o events
  BY <1>3, <1>8, Published
<1>13. EventRev(event) > revision
  BY <1>3, <1>5, <1>7 DEF EventRev, Snapshot
<1>14. Tells({t}, events)
  BY <1>7, <1>8, <1>10, <1>12, <1>13 DEF Tells
<1>15. op' = op \/ Replied
  <2> SUFFICES ASSUME op.kind \in {"submit", "retry"}, op.state = "asked",
                      Answer(t, [Snapshot(record) EXCEPT !.rev = revision + 1])
               PROVE  Replied
    OBVIOUS
  <2>1. [Snapshot(record) EXCEPT !.rev = revision + 1] = Snapshot(r)
    BY <1>3, <1>5 DEF Snapshot
  <2>2. op'.state = "answered" /\ op'.kind = op.kind /\ op'.task = t
        /\ op'.snap = Snapshot(r)
    BY <2>1 DEF Answer
  <2>3. op'.snap = Snapshot(tasks[op.task])'
    BY <1>9, <2>2
  <2> QED  BY <1>6, <2>2, <2>3 DEF Replied
<1>16. /\ \A u, s : InStream(u, s)' => InStream(u, s) \/ (u = t /\ s = Snapshot(r))
       /\ \A u, j, q : DeadInStream(u, j, q)' => DeadInStream(u, j, q)
  <2>1. \A n \in DOMAIN events :
            events[n].type \in {"task", "deleted"} /\ EventNow(events[n])
    BY <1>7, <1>8 DEF EventNow, Snapshot
  <2>2. /\ \A u, s : InStream(u, s)' =>
               \/ InStream(u, s)
               \/ \E n \in DOMAIN events :
                      events[n].type = "task" /\ events[n].task = u /\ events[n].snap = s
        /\ \A u, j, q : DeadInStream(u, j, q)' =>
               \/ DeadInStream(u, j, q)
               \/ \E n \in DOMAIN events :
                      /\ events[n].type = "deleted" /\ events[n].task = u
                      /\ events[n].inst = j /\ events[n].rev = q
    BY <1>3, <1>8, <2>1, Publishing
  <2> QED  BY <1>7, <1>8, <2>2
<1>17. \A u \in Tasks, s \in Snap :
           InStream(u, s)' => \/ InStream(u, s)
                              \/ u \in DOMAIN tasks' /\ s = Snapshot(tasks[u])'
  <2> SUFFICES ASSUME NEW u \in Tasks, NEW s \in Snap, InStream(u, s)', ~InStream(u, s)
               PROVE  u \in DOMAIN tasks' /\ s = Snapshot(tasks[u])'
    OBVIOUS
  <2>1. u = t /\ s = Snapshot(r)
    BY <1>16
  <2> QED  BY <1>6, <1>9, <2>1
<1>18. {t} \in SUBSET Tasks
  OBVIOUS
<1> QED  BY <1>8, <1>11, <1>14, <1>15, <1>16, <1>17, <1>18, ServerFollows

(* Several tasks are deleted, with a word of each.                         *)
LEMMA DeletionFollows ==
    ASSUME Inv, Inv', InTouch, NEW T \in SUBSET DOMAIN tasks,
           tasks' = Restrict(tasks, DOMAIN tasks \ T),
           instance' = instance, revision <= revision',
           NEW events \in Seq(Event), Publish(events),
           \A n \in DOMAIN events :
               /\ events[n].type = "deleted" /\ events[n].task \in T
               /\ events[n].inst = instance /\ events[n].rev > revision,
           \A t \in T : \E n \in DOMAIN events : events[n].task = t,
           UNCHANGED <<client, page, list, settled, buried>>, op' = op \/ Replied
    PROVE  InTouch'
<1>1. /\ DOMAIN tasks' = DOMAIN tasks \ T
      /\ \A u \in DOMAIN tasks' : tasks'[u] = tasks[u]
  BY DEF Restrict
<1>2. T \in SUBSET Tasks
  BY RecordFacts
<1>3. Moved(T)
  BY <1>1 DEF Moved
<1>4. connected' => connected /\ stream' = stream \o events
  BY Published DEF Inv, ServerTyped
<1>5. \A n \in DOMAIN events :
          EventRev(events[n]) > revision /\ Final(events[n], events[n].task)'
  BY <1>1 DEF EventRev, Final
<1>6. Tells(T, events)
  BY <1>4, <1>5 DEF Tells
<1>7. /\ \A u, s : InStream(u, s)' => InStream(u, s)
      /\ \A u \in Tasks, j \in Instances, q \in Revisions :
             DeadInStream(u, j, q)' =>
                 DeadInStream(u, j, q) \/ (j = instance /\ revision <= q)
  <2>1. \A n \in DOMAIN events :
            events[n].type \in {"task", "deleted"} /\ EventNow(events[n])
    BY DEF EventNow
  <2>2. /\ \A u, s : InStream(u, s)' =>
               \/ InStream(u, s)
               \/ \E n \in DOMAIN events :
                      events[n].type = "task" /\ events[n].task = u /\ events[n].snap = s
        /\ \A u, j, q : DeadInStream(u, j, q)' =>
               \/ DeadInStream(u, j, q)
               \/ \E n \in DOMAIN events :
                      /\ events[n].type = "deleted" /\ events[n].task = u
                      /\ events[n].inst = j /\ events[n].rev = q
    BY <2>1, Publishing
  <2>3. \A q \in Revisions : q > revision => revision <= q
    <3>1. revision \in Nat
      BY Constants DEF Inv, ServerTyped
    <3> QED  BY <3>1, BoundsAssumption DEF Revisions
  <2> QED  BY <2>2, <2>3
<1> QED  BY <1>2, <1>3, <1>6, <1>7, ServerFollows

LEMMA ServerStepFollows == ASSUME Inv, InTouch, ServerStep PROVE InTouch'
<1>1. /\ UNCHANGED <<instance, client, page, list, settled, buried>>
      /\ op' = op /\ Inv'
  BY ServerStepKeeps DEF ServerStep, requestVars
<1>2. \A t \in DOMAIN tasks : t \in Tasks /\ tasks[t] \in Record /\ tasks[t].attempt \in Nat
  BY RecordFacts DEF Record, Attempts
<1>3. ASSUME NEW t \in DOMAIN tasks, NEW record \in Record, tasks[t].attempt <= record.attempt,
             Changed(t, record), UNCHANGED created
      PROVE  InTouch'
  BY <1>1, <1>2, <1>3, ChangeFollows
<1>4. ASSUME NEW t \in DOMAIN tasks, NEW status \in {"active", "failed", "done"},
             Changed(t, [tasks[t] EXCEPT !.status = status]), UNCHANGED created
      PROVE  InTouch'
  <2> DEFINE record == [tasks[t] EXCEPT !.status = status]
  <2>1. record \in Record /\ tasks[t].attempt <= record.attempt
    BY <1>2, RecordFacts DEF Statuses, Record
  <2>2. Changed(t, record)
    BY <1>4
  <2> HIDE DEF record
  <2> QED  BY <1>3, <1>4, <2>1, <2>2
<1>5. ASSUME NEW t \in DOMAIN tasks, Changed(t, NextAttempt(tasks[t])), UNCHANGED created
      PROVE  InTouch'
  <2>1. NextAttempt(tasks[t]) \in Record /\ tasks[t] \in Record
    BY RecordFacts
  <2>2. NextAttempt(tasks[t]).attempt = tasks[t].attempt + 1
    BY <2>1 DEF NextAttempt, Record
  <2>3. tasks[t].attempt <= NextAttempt(tasks[t]).attempt
    BY <1>2, <2>2
  <2> QED  BY <1>3, <1>5, <2>1, <2>3
<1>6. ASSUME NEW t \in DOMAIN tasks, Changed(t, Resumed(tasks[t])), UNCHANGED created
      PROVE  InTouch'
  <2>1. Resumed(tasks[t]) \in Record /\ tasks[t].attempt <= Resumed(tasks[t]).attempt
    BY <1>2, RecordFacts DEF Resumed, Record
  <2> QED  BY <1>3, <1>6, <2>1
<1>7. ASSUME NEW t \in DOMAIN tasks, Deleted(t)
      PROVE  InTouch'
  <2>1. PICK events : events = <<DeletedEvent(t, revision + 1)>>
    OBVIOUS
  <2>2. /\ instance \in Instances /\ revision \in Nat /\ revision' = revision + 1
        /\ revision' \in Revisions /\ t \in Tasks /\ Publish(events)
        /\ tasks' = Restrict(tasks, DOMAIN tasks \ {t})
    BY <1>2, <1>7, <2>1, Constants DEF Inv, ServerTyped, Deleted, Revisions
  <2>3. /\ events \in Seq(Event) /\ DOMAIN events = {1}
        /\ events[1] = DeletedEvent(t, revision + 1)
    BY <2>1, <2>2 DEF DeletedEvent, Event
  <2>4. \A n \in DOMAIN events :
            /\ events[n].type = "deleted" /\ events[n].task = t
            /\ events[n].inst = instance /\ events[n].rev > revision
    BY <2>2, <2>3 DEF DeletedEvent
  <2>5. {t} \in SUBSET DOMAIN tasks /\ revision <= revision'
    BY <2>2
  <2>6. /\ \A n \in DOMAIN events :
               /\ events[n].type = "deleted" /\ events[n].task \in {t}
               /\ events[n].inst = instance /\ events[n].rev > revision
        /\ \A u \in {t} : \E n \in DOMAIN events : events[n].task = u
    BY <2>3, <2>4
  <2> QED  BY <1>1, <2>2, <2>3, <2>5, <2>6, DeletionFollows
<1>8. ASSUME created < MaxTasks, created' = created + 1, Changed(created + 1, NewTask)
      PROVE  InTouch'
  BY <1>1, <1>8, NewTaskFacts, ChangeFollows
<1> QED  BY <1>4, <1>5, <1>6, <1>7, <1>8 DEF ServerStep

LEMMA SubmitServedFollows == ASSUME Inv, InTouch, SubmitServed PROVE InTouch'
<1>1. /\ op.state = "asked" /\ op.kind = "submit" /\ Inv'
      /\ UNCHANGED <<instance, page, list, again, faults, settled, buried>>
  BY SubmitServedKeeps DEF SubmitServed
<1>2. CASE /\ submission = None /\ created < MaxTasks
           /\ created' = created + 1 /\ submission' = created + 1
           /\ Changed(created + 1, NewTask)
           /\ Answer(created + 1, [Snapshot(NewTask) EXCEPT !.rev = revision + 1])
           /\ UNCHANGED client
  BY <1>1, <1>2, NewTaskFacts, ChangeFollows
<1>3. CASE /\ submission \in DOMAIN tasks
           /\ Answer(submission, Snapshot(tasks[submission]))
           /\ UNCHANGED <<revision, created, tasks, streamVars, submission, client>>
  <2>1. UNCHANGED <<serverVars, streamVars, client, page, list, settled, buried>>
    BY <1>1, <1>3 DEF serverVars
  <2> QED  BY <1>1, <1>3, <2>1, AnsweredFollows
<1>4. CASE /\ Refused /\ submission' = None
           /\ UNCHANGED <<revision, created, tasks, streamVars>>
  <2>1. UNCHANGED <<serverVars, streamVars, page, list, settled, buried>>
    BY <1>1, <1>4 DEF serverVars
  <2> QED  BY <1>1, <1>4, <2>1, RefusedFollows
<1> QED  BY <1>2, <1>3, <1>4 DEF SubmitServed

LEMMA RetryServedFollows == ASSUME Inv, InTouch, RetryServed PROVE InTouch'
<1> DEFINE record == tasks[op.task]
           next == IF op.of = "paused" THEN Resumed(record) ELSE NextAttempt(record)
<1>1. /\ op.state = "asked" /\ op.kind = "retry" /\ Inv'
      /\ UNCHANGED <<instance, created, page, list, again, submission, faults, settled, buried>>
  BY RetryServedKeeps DEF RetryServed
<1>2. CASE /\ op.task \in DOMAIN tasks /\ Changed(op.task, next)
           /\ Answer(op.task, [Snapshot(next) EXCEPT !.rev = revision + 1])
           /\ UNCHANGED client
  <2>1. /\ next \in Record /\ op.task \in Tasks /\ record \in Record
        /\ Resumed(record).attempt = record.attempt
        /\ NextAttempt(record).attempt = record.attempt + 1 /\ record.attempt \in Nat
    BY <1>2, RecordFacts DEF Resumed, NextAttempt, Record, Attempts
  <2>2. record.attempt <= next.attempt
    BY <2>1
  <2>3. PICK t, following : t = op.task /\ following = next
    OBVIOUS
  <2>4. /\ t \in Tasks /\ following \in Record /\ t \in DOMAIN tasks
        /\ tasks[t].attempt <= following.attempt /\ Changed(t, following)
        /\ Answer(t, [Snapshot(following) EXCEPT !.rev = revision + 1])
    BY <1>2, <2>1, <2>2, <2>3
  <2> HIDE DEF next, record
  <2> QED  BY <1>1, <1>2, <2>4, ChangeFollows
<1>3. CASE /\ op.task \in DOMAIN tasks /\ Answer(op.task, Snapshot(record))
           /\ UNCHANGED <<revision, tasks, streamVars, client>>
  <2>1. UNCHANGED <<serverVars, streamVars, client, page, list, settled, buried>>
    BY <1>1, <1>3 DEF serverVars
  <2> QED  BY <1>1, <1>3, <2>1, AnsweredFollows
<1>4. CASE Refused /\ UNCHANGED <<revision, tasks, streamVars>>
  <2>1. UNCHANGED <<serverVars, streamVars, page, list, settled, buried>>
    BY <1>1, <1>4 DEF serverVars
  <2> QED  BY <1>1, <1>4, <2>1, RefusedFollows
<1> QED  BY <1>2, <1>3, <1>4 DEF RetryServed

LEMMA DeleteServedFollows == ASSUME Inv, InTouch, DeleteServed PROVE InTouch'
<1>1. /\ op.state = "asked" /\ op.kind = "delete" /\ Inv'
      /\ UNCHANGED <<instance, created, page, list, again, submission, faults, settled, buried>>
  BY DeleteServedKeeps DEF DeleteServed
<1>2. CASE /\ op.task \in DOMAIN tasks /\ Deleted(op.task)
           /\ op' = [state |-> "answered", kind |-> "delete", task |-> op.task,
                     inst |-> instance, rev |-> revision + 1]
           /\ UNCHANGED client
  <2>0. PICK t : t = op.task
    OBVIOUS
  <2>1. PICK events : events = <<DeletedEvent(t, revision + 1)>>
    OBVIOUS
  <2>2. /\ instance \in Instances /\ revision \in Nat /\ revision' = revision + 1
        /\ revision' \in Revisions /\ t \in Tasks /\ Publish(events) /\ t \in DOMAIN tasks
        /\ tasks' = Restrict(tasks, DOMAIN tasks \ {t})
    BY <1>2, <2>0, <2>1, RecordFacts, Constants DEF Inv, ServerTyped, Deleted, Revisions
  <2>3. /\ events \in Seq(Event) /\ DOMAIN events = {1}
        /\ events[1] = DeletedEvent(t, revision + 1)
    BY <2>1, <2>2 DEF DeletedEvent, Event
  <2>4. \A n \in DOMAIN events :
            /\ events[n].type = "deleted" /\ events[n].task = t
            /\ events[n].inst = instance /\ events[n].rev > revision
    BY <2>2, <2>3 DEF DeletedEvent
  <2>5. {t} \in SUBSET DOMAIN tasks /\ revision <= revision'
    BY <2>2
  <2>6. /\ \A n \in DOMAIN events :
               /\ events[n].type = "deleted" /\ events[n].task \in {t}
               /\ events[n].inst = instance /\ events[n].rev > revision
        /\ \A u \in {t} : \E n \in DOMAIN events : events[n].task = u
    BY <2>3, <2>4
  <2>7. Replied
    BY <1>1, <1>2, <2>2 DEF Replied
  <2> QED  BY <1>1, <1>2, <2>2, <2>3, <2>5, <2>6, <2>7, DeletionFollows
<1>3. CASE Refused /\ UNCHANGED <<revision, tasks, streamVars>>
  <2>1. UNCHANGED <<serverVars, streamVars, page, list, settled, buried>>
    BY <1>1, <1>3 DEF serverVars
  <2> QED  BY <1>1, <1>3, <2>1, RefusedFollows
<1> QED  BY <1>2, <1>3 DEF DeleteServed

(* The tasks that are listed in order are all of them.                     *)
LEMMA InOrderCovers ==
    ASSUME NEW S, IsFiniteSet(S), S \subseteq Int, NEW f \in InOrder(S)
    PROVE  \A x \in S : \E n \in DOMAIN f : f[n] = x
<1> DEFINE N == 1..Cardinality(S)
<1>1. f \in [N -> S] /\ \A m, n \in N : m < n => f[m] < f[n]
  BY DEF InOrder
<1>2. Cardinality(S) \in Nat /\ IsFiniteSet(N) /\ Cardinality(N) = Cardinality(S)
  BY FS_CardinalityType, FS_Interval
<1>3. \A m, n \in N : m # n => f[m] # f[n]
  <2> SUFFICES ASSUME NEW m \in N, NEW n \in N, m # n PROVE f[m] # f[n]
    OBVIOUS
  <2>0. f[m] \in S /\ f[n] \in S
    BY <1>1
  <2>3. f[m] \in Int /\ f[n] \in Int
    BY <2>0
  <2>4. m \in Nat /\ n \in Nat
    BY <1>2
  <2>1. m \in Nat /\ n \in Nat /\ f[m] \in Int /\ f[n] \in Int
    BY <2>3, <2>4
  <2>2. m < n \/ n < m
    BY <2>1
  <2> QED  BY <1>1, <2>1, <2>2
<1>4. f \in Injection(N, S)
  BY <1>1, <1>3 DEF Injection, IsInjective
<1>5. f \in Surjection(N, S)
  BY <1>2, <1>4, FS_Injection
<1> QED  BY <1>1, <1>5 DEF Surjection

LEMMA ClearServedFollows == ASSUME Inv, InTouch, ClearServed PROVE InTouch'
<1>1. PICK failed : failed = {t \in DOMAIN tasks : tasks[t].status = "failed"}
  OBVIOUS
<1>2. /\ op.state = "asked" /\ op.kind = "clear" /\ op' = [op EXCEPT !.state = "answered"]
      /\ revision + Cardinality(failed) <= MaxRevision
      /\ revision' = revision + Cardinality(failed)
      /\ tasks' = Restrict(tasks, DOMAIN tasks \ failed) /\ Inv'
      /\ UNCHANGED <<instance, created, client, page, list, again, submission, faults,
                     settled, buried>>
  BY <1>1, ClearServedKeeps DEF ClearServed
<1>3. PICK victims \in InOrder(failed) :
          Publish([n \in DOMAIN victims |-> DeletedEvent(victims[n], revision + n)])
  BY <1>1 DEF ClearServed
<1>4. PICK events :
          events = [n \in DOMAIN victims |-> DeletedEvent(victims[n], revision + n)]
  OBVIOUS
<1>5. failed \in SUBSET DOMAIN tasks /\ failed \subseteq Tasks
  BY <1>1, RecordFacts
<1>6. Cardinality(failed) \in Nat /\ IsFiniteSet(failed) /\ failed \subseteq Int
  BY <1>5, TasksFinite, FS_Subset, FS_CardinalityType, BoundsAssumption DEF Tasks
<1>7. victims \in [1..Cardinality(failed) -> failed] /\ DOMAIN victims = 1..Cardinality(failed)
  BY <1>3 DEF InOrder
<1>8. /\ revision \in Nat /\ revision' \in Nat /\ revision <= revision'
      /\ instance \in Instances
  <2>1. revision \in Nat /\ instance \in Instances
    BY Constants DEF Inv, ServerTyped
  <2> QED  BY <1>2, <1>6, <2>1
<1>9. ASSUME NEW n \in DOMAIN victims
      PROVE  LET e == DeletedEvent(victims[n], revision + n)
             IN /\ e \in Event /\ e.type = "deleted" /\ e.task \in failed
                /\ e.inst = instance /\ e.rev > revision /\ e.task = victims[n]
  <2>1. victims[n] \in failed /\ victims[n] \in Tasks
    BY <1>5, <1>7
  <2>2. revision + n > revision /\ revision + n \in Revisions
    BY <1>2, <1>6, <1>7, <1>8, Constants DEF Revisions
  <2> QED  BY <1>8, <2>1, <2>2 DEF DeletedEvent, Event
<1>10. /\ DOMAIN events = DOMAIN victims
       /\ \A n \in DOMAIN events :
              /\ events[n].type = "deleted" /\ events[n].task \in failed
              /\ events[n].inst = instance /\ events[n].rev > revision
              /\ events[n].task = victims[n] /\ events[n] \in Event
  BY <1>4, <1>9
<1>11. events \in Seq(Event)
  <2>1. events \in [1..Cardinality(failed) -> Event]
    BY <1>4, <1>7, <1>10
  <2> QED  BY <1>6, <2>1
<1>12. \A t \in failed : \E n \in DOMAIN events : events[n].task = t
  <2>1. \A t \in failed : \E n \in DOMAIN victims : victims[n] = t
    BY <1>3, <1>6, InOrderCovers
  <2> QED  BY <1>10, <2>1
<1>13. Publish(events)
  BY <1>3, <1>4
<1>14. Replied
  <2>1. op \in OpState
    BY DEF Inv, PluginTyped
  <2> QED  BY <1>2, <2>1 DEF Replied, OpState, Idle
<1> QED  BY <1>2, <1>5, <1>8, <1>10, <1>11, <1>12, <1>13, <1>14, DeletionFollows

LEMMA RestartFollows == ASSUME ~LateStream, Inv, InTouch, Restart PROVE InTouch'
<1>1. /\ Inv' /\ instance' = instance + 1 /\ instance \in Nat /\ DOMAIN tasks' = DOMAIN tasks
      /\ \A t \in DOMAIN tasks : tasks'[t].attempt = tasks[t].attempt
      /\ connected' = FALSE /\ stream' = <<>>
      /\ UNCHANGED <<client, page, list, op, settled, buried>>
  <2>1. instance \in Instances /\ \A t \in DOMAIN tasks : tasks[t] \in Record
    BY DEF Inv, ServerTyped
  <2>2. /\ DOMAIN tasks' = DOMAIN tasks
        /\ \A t \in DOMAIN tasks : tasks'[t].attempt = tasks[t].attempt
    BY <2>1 DEF Restart, Record
  <2> QED  BY <2>1, <2>2, RestartKeeps, Constants DEF Restart, requestVars
<1>2. Credible'
  <2> SUFFICES ASSUME NEW t \in Tasks, NEW s \in Snap, Heard(t, s)'
               PROVE  Past(t, s)' /\ BeforeTheEnd(t, s)'
    BY DEF Credible
  <2>1. DOMAIN stream' = {}
    BY <1>1
  <2>2. Past(t, s) /\ BeforeTheEnd(t, s)
    <3>1. Heard(t, s)
      BY <1>1, <2>1 DEF Heard, Carried, InStream
    <3> QED  BY <3>1 DEF InTouch, Credible
  <2>3. s.inst < instance'
    <3>1. s.inst \in Nat
      BY Constants DEF Snap
    <3> QED  BY <1>1, <2>2, <3>1 DEF Past, Precedes
  <2>4. s.inst # instance'
    BY <1>1, <2>3
  <2>5. Past(t, s)'
    BY <1>1, <2>2, <2>3, <2>4 DEF Past, Precedes
  <2>6. BeforeTheEnd(t, s)'
    <3>1. \A j, q : Dead(t, j, q)' => Dead(t, j, q)
      BY <1>1, <2>1 DEF Dead, DeadInStream
    <3> QED  BY <2>2, <3>1 DEF BeforeTheEnd
  <2> QED  BY <2>5, <2>6
<1>3. Sober(client)'
  <2>1. client.known <= instance /\ client.known \in Nat
    <3>1. client.known \in Instances \cup {None}
      BY DEF Inv, Proper, Client
    <3>2. client.known <= instance
      BY DEF Inv, Ages, UpTo
    <3>3. client.known \in Nat
      BY <3>1, BoundsAssumption DEF Instances, None
    <3> QED  BY <3>2, <3>3
  <2>2. client.known # instance'
    BY <1>1, <2>1
  <2> QED  BY <1>1, <2>2 DEF InTouch, Sober
<1>4. LastWord' /\ Counted' /\ Following'
  BY <1>1 DEF LastWord, Counted, Counts, Following, Hearing
<1>5. StillFailed' /\ AskedFor' /\ DOMAIN client'.deleted \subseteq buried'
  BY <1>1 DEF InTouch, StillFailed, AskedFor, Untouched, Shown, Live
<1> QED  BY <1>2, <1>3, <1>4, <1>5 DEF InTouch

(* A step of the channels alone.                                           *)
LEMMA ChannelFollows ==
    ASSUME Inv, InTouch, UNCHANGED <<serverVars, client, page, op, settled, buried>>
    PROVE  /\ Moved({}) /\ Sober(client)' /\ StillFailed'
           /\ DOMAIN client'.deleted \subseteq buried'
           /\ \A e : \A t : Final(e, t)' <=> Final(e, t)
<1>1. UNCHANGED <<instance, revision, tasks>> /\ revision \in Nat
  BY Constants DEF serverVars, Inv, ServerTyped
<1> QED  BY <1>1 DEF Moved, InTouch, Sober, StillFailed, Untouched, Final, Snapshot

LEMMA Joined ==
    ASSUME NEW a \in Seq(Event), NEW b \in Seq(Event)
    PROVE  /\ \A n \in DOMAIN a : n \in DOMAIN (a \o b) /\ (a \o b)[n] = a[n]
           /\ \A n \in DOMAIN (a \o b) :
                  /\ n \in Nat
                  /\ \/ n \in DOMAIN a
                     \/ n - Len(a) \in DOMAIN b /\ (a \o b)[n] = b[n - Len(a)]
OBVIOUS

LEMMA ConnectFollows == ASSUME Inv, InTouch, Connect PROVE InTouch'
<1>1. /\ connected' = TRUE /\ stream = <<>> /\ Inv'
      /\ UNCHANGED <<serverVars, client, page, list, op, settled, buried>>
  BY ConnectKeeps DEF Connect, requestVars
<1>2. PICK alive : alive = {t \in DOMAIN tasks : Live(tasks[t])}
  OBVIOUS
<1>3. PICK live \in InOrder(alive) :
          stream' = <<[type |-> "open"]>> \o
                    [n \in DOMAIN live |-> TaskEvent(live[n], tasks[live[n]],
                                                    tasks[live[n]].rev)]
  BY <1>2 DEF Connect
<1>4. PICK events : events = [n \in DOMAIN live |-> TaskEvent(live[n], tasks[live[n]],
                                                             tasks[live[n]].rev)]
  OBVIOUS
<1>5. PICK open : open = [type |-> "open"]
  OBVIOUS
<1>6. live \in [1..Cardinality(alive) -> alive] /\ DOMAIN live = 1..Cardinality(alive)
  BY <1>3 DEF InOrder
<1>7. Cardinality(alive) \in Nat
  BY <1>2, TasksFinite, FS_Subset, FS_CardinalityType
<1>8. ASSUME NEW n \in DOMAIN live
      PROVE  /\ live[n] \in DOMAIN tasks /\ events[n].type = "task" /\ events[n].task = live[n]
             /\ events[n].snap = Snapshot(tasks[live[n]]) /\ events[n] \in Event
  <2>1. live[n] \in DOMAIN tasks /\ live[n] \in Tasks /\ Snapshot(tasks[live[n]]) \in Snap
    BY <1>2, <1>6, RecordFacts
  <2>2. TaskEvent(live[n], tasks[live[n]], tasks[live[n]].rev) =
            [type |-> "task", task |-> live[n], snap |-> Snapshot(tasks[live[n]])]
    BY DEF TaskEvent, Snapshot
  <2>3. events[n] = [type |-> "task", task |-> live[n], snap |-> Snapshot(tasks[live[n]])]
    BY <1>4, <2>2
  <2> QED  BY <2>1, <2>3 DEF Event
<1>9. DOMAIN events = DOMAIN live /\ events \in Seq(Event)
  <2>1. DOMAIN events = DOMAIN live
    BY <1>4
  <2>2. events \in [1..Cardinality(alive) -> Event]
    BY <1>4, <1>6, <1>8
  <2> QED  BY <1>7, <2>1, <2>2
<1>10. /\ 1 \in DOMAIN stream' /\ stream'[1] = open
       /\ \A n \in DOMAIN stream' : n = 1 \/ \E m \in DOMAIN events : stream'[n] = events[m]
       /\ \A n \in DOMAIN stream' : n \in Nat
  <2>1. PICK first : first = <<open>>
    OBVIOUS
  <2>2. open \in Event
    BY <1>5 DEF Event
  <2>3. first \in Seq(Event) /\ Len(first) = 1 /\ first[1] = open
    BY <2>1, <2>2
  <2>4. stream' = first \o events
    BY <1>3, <1>4, <1>5, <2>1
  <2>5. first \in Seq(Event) /\ events \in Seq(Event)
    BY <1>9, <2>3
  <2>7. /\ \A n \in DOMAIN first : n \in DOMAIN stream' /\ stream'[n] = first[n]
        /\ \A n \in DOMAIN stream' :
               /\ n \in Nat
               /\ \/ n \in DOMAIN first
                  \/ /\ n - Len(first) \in DOMAIN events
                     /\ stream'[n] = events[n - Len(first)]
    BY <2>4, <2>5, Joined
  <2>6. DOMAIN first = {1}
    BY <2>3
  <2> QED  BY <2>3, <2>6, <2>7
<1>11. /\ Moved({}) /\ Sober(client)' /\ StillFailed'
       /\ DOMAIN client'.deleted \subseteq buried'
       /\ \A e : \A t : Final(e, t)' <=> Final(e, t)
  BY <1>1, ChannelFollows
<1>12. ~Hearing'
  BY <1>5, <1>10 DEF Hearing
<1>13. Counted' /\ Following'
  BY <1>12 DEF Counted, Counts, Following
<1>14. AskedFor'
  BY <1>1 DEF InTouch, AskedFor, Untouched, Shown, Live
<1>15. LastWord'
  <2> SUFFICES ASSUME NEW n \in DOMAIN stream'
               PROVE  /\ stream'[n].type # "resync"
                      /\ stream'[n].type = "task" =>
                             \E m \in DOMAIN stream' :
                                 m >= n /\ Final(stream[m], stream[n].task)'
    BY DEF LastWord
  <2>1. CASE n = 1
    BY <1>5, <1>10, <2>1
  <2>2. CASE n # 1
    <3>1. PICK m \in DOMAIN events : stream'[n] = events[m]
      BY <1>10, <2>2
    <3>2. Final(events[m], events[m].task)
      BY <1>8, <1>9 DEF Final
    <3>3. Final(events[m], events[m].task)'
      BY <1>11, <3>2 DEF Final
    <3>4. Final(stream[n], stream[n].task)' /\ n >= n /\ stream'[n].type = "task"
      BY <1>8, <1>9, <1>10, <3>1, <3>3
    <3> QED  BY <3>4
  <2> QED  BY <2>1, <2>2
<1>16. Credible'
  <2>1. ASSUME NEW t \in Tasks, NEW s \in Snap, Heard(t, s)'
        PROVE  Heard(t, s) \/ (t \in DOMAIN tasks' /\ s = Snapshot(tasks[t])')
    <3>1. CASE InStream(t, s)'
      <4>1. PICK m \in DOMAIN events : events[m].task = t /\ events[m].snap = s
        BY <1>5, <1>10, <3>1 DEF InStream
      <4>2. t \in DOMAIN tasks /\ s = Snapshot(tasks[t])
        BY <1>8, <1>9, <4>1
      <4> QED  BY <1>1, <4>2 DEF Snapshot, serverVars
    <3>2. CASE ~InStream(t, s)'
      BY <1>1, <2>1, <3>2 DEF Heard, Carried
    <3> QED  BY <3>1, <3>2
  <2>2. \A t, j, q : Dead(t, j, q)' => Dead(t, j, q)
    BY <1>1, <1>5, <1>8, <1>9, <1>10 DEF Dead, DeadInStream
  <2>3. {} \in SUBSET Tasks /\ Credible
    BY DEF InTouch
  <2> QED  BY <1>1, <1>11, <2>1, <2>2, <2>3, CredibleMoves
<1> QED  BY <1>11, <1>13, <1>14, <1>15, <1>16 DEF InTouch

LEMMA ListServedFollows == ASSUME Inv, InTouch, ListServed PROVE InTouch'
<1>1. PICK history : history = {t \in DOMAIN tasks : ~Live(tasks[t])}
  OBVIOUS
<1>2. PICK newest : newest = {t \in history : Cardinality({u \in history : u > t}) < PageSize}
  OBVIOUS
<1>3. PICK visible : visible = newest \cup (DOMAIN tasks \ history)
  OBVIOUS
<1>4. PICK shown : shown = visible \cup (list.tracked \cap DOMAIN tasks)
  OBVIOUS
<1>5. /\ list.state = "asked" /\ Inv'
      /\ list' = [state |-> "answered", inst |-> instance, rev |-> revision,
                  snaps |-> [t \in shown |-> Snapshot(tasks[t])],
                  visible |-> visible, missing |-> list.tracked \ DOMAIN tasks]
      /\ UNCHANGED <<serverVars, streamVars, client, page, op, settled, buried>>
  BY <1>1, <1>2, <1>3, <1>4, ListServedKeeps DEF ListServed
<1>6. /\ list'.state = "answered" /\ list'.inst = instance /\ list'.rev = revision
      /\ list'.visible = visible /\ list'.missing = list.tracked \ DOMAIN tasks
      /\ DOMAIN list'.snaps = shown
      /\ \A t \in shown : list'.snaps[t] = Snapshot(tasks[t])
  BY <1>5
<1>7. /\ shown \subseteq DOMAIN tasks /\ visible \subseteq shown
      /\ \A t \in DOMAIN tasks : Live(tasks[t]) => t \in shown
  BY <1>1, <1>2, <1>3, <1>4
<1>8. /\ UNCHANGED <<instance, revision, created, tasks, connected, stream>>
      /\ instance \in Nat /\ revision \in Nat
      /\ \A t \in DOMAIN tasks : tasks[t].rev \in 1..revision
  BY <1>5, Constants DEF serverVars, streamVars, Inv, ServerTyped
<1>9. /\ Moved({}) /\ Sober(client)' /\ StillFailed'
      /\ DOMAIN client'.deleted \subseteq buried'
  BY <1>5, ChannelFollows
<1>10. LastWord'
  BY <1>8 DEF InTouch, LastWord, Final, Snapshot
<1>11. AskedFor'
  BY <1>6 DEF AskedFor
<1>12. \A t, w : News(t, w) => News(t, w)'
  BY <1>8 DEF News, Final, Snapshot
<1>13. Following'
  <2> SUFFICES ASSUME settled', Hearing'
               PROVE  /\ client'.known = instance' /\ NoHarm'
                      /\ \A t \in Tasks : Required(t)' => Follows(t)'
    BY DEF Following
  <2>1. client.known = instance /\ NoHarm /\ \A t \in Tasks : Required(t) => Follows(t)
    BY <1>5, <1>8 DEF InTouch, Following, Hearing
  <2>2. NoHarm'
    BY <1>5, <1>8, <1>12, <2>1 DEF NoHarm, Harmless, Buries, Snapshot
  <2>3. ASSUME NEW t \in Tasks, Required(t)'
        PROVE  Follows(t)'
    <3>1. Required(t)
      BY <1>5, <1>8, <2>3 DEF Required, Shown, Live
    <3>2. InPlace(t) => InPlace(t)'
      BY <1>5, <1>8 DEF InPlace, Agrees
    <3>3. News(t, client.watermark) => News(t, client.watermark)'
      BY <1>5, <1>12
    <3> QED  BY <2>1, <3>1, <3>2, <3>3 DEF Follows
  <2> QED  BY <1>5, <1>8, <2>1, <2>2, <2>3
<1>14. Credible'
  <2>1. ASSUME NEW t \in Tasks, NEW s \in Snap, Heard(t, s)'
        PROVE  Heard(t, s) \/ (t \in DOMAIN tasks' /\ s = Snapshot(tasks[t])')
    <3>1. CASE t \in shown /\ s = Snapshot(tasks[t])
      BY <1>7, <1>8, <3>1 DEF Snapshot
    <3>2. CASE ~(t \in shown /\ s = Snapshot(tasks[t]))
      BY <1>5, <1>6, <1>8, <2>1, <3>2 DEF Heard, Carried, InStream
    <3> QED  BY <3>1, <3>2
  <2>2. ASSUME NEW t \in Tasks, NEW j \in Instances, NEW q \in Revisions, Dead(t, j, q)'
        PROVE  Dead(t, j, q) \/ (j = instance /\ revision <= q)
    BY <1>5, <1>6, <1>8, <2>2 DEF Dead, DeadInStream
  <2>3. {} \in SUBSET Tasks /\ Credible
    BY DEF InTouch
  <2> QED  BY <1>5, <1>9, <2>1, <2>2, <2>3, CredibleMoves
<1>15. Complete'
  BY <1>6, <1>7, <1>8, <1>9 DEF Complete, Sober, Snapshot, Live
<1>16. ASSUME NEW t \in Tasks, Untouched("list", t)'
       PROVE  Since(t)'
  <2>1. t \in DOMAIN tasks' => ~(tasks'[t].rev > revision)
    BY <1>8
  <2>2. ~AnswerAfter(t, revision)'
    <3> SUFFICES ASSUME AnswerAfter(t, revision)
                 PROVE  FALSE
      BY <1>5, <1>8 DEF AnswerAfter
    <3>1. op.snap \in Snap /\ Carried(op.task, op.snap) /\ op.task \in Tasks
      BY AnsweredFacts DEF AnswerAfter
    <3>2. Precedes(op.snap.inst, op.snap.rev, instance, revision) /\ op.snap.rev \in Nat
      BY <3>1, Constants DEF Inv, Told, Snap
    <3> QED  BY <1>8, <3>2 DEF Precedes, AnswerAfter
  <2>3. t \in DOMAIN client.mirror /\ client.mirror[t].inst = instance =>
            client.mirror[t].rev <= revision
    <3> SUFFICES ASSUME t \in DOMAIN client.mirror, client.mirror[t].inst = instance
                 PROVE  client.mirror[t].rev <= revision
      OBVIOUS
    <3>1. client.mirror[t] \in Entry
      BY EntryFields DEF Inv, Proper
    <3>2. SnapOf(client.mirror[t]) \in Snap /\ Heard(t, SnapOf(client.mirror[t]))
      BY <3>1, SnapOfType DEF Heard
    <3>3. Past(t, SnapOf(client.mirror[t]))
      BY <3>2 DEF InTouch, Credible
    <3> QED  BY <1>8, <3>3 DEF Past, Precedes, SnapOf
  <2>4. t \in DOMAIN client.deleted /\ client.known = instance => client.deleted[t] <= revision
    BY DEF InTouch, Sober
  <2>5. t \in DOMAIN client.mirror /\ Shown(t) =>
            t \in shown \cup (list.tracked \ DOMAIN tasks)
    <3>1. Untouched("list", t)
      BY <1>5, <1>16 DEF Untouched
    <3> QED  BY <1>4, <1>5, <3>1 DEF InTouch, AskedFor
  <2>6. t \notin DOMAIN tasks' => t \notin shown
    BY <1>7, <1>8
  <2> QED  BY <1>5, <1>6, <1>8, <2>1, <2>2, <2>3, <2>4, <2>5, <2>6 DEF Since, Shown, Live
<1>17. Counted'
  BY <1>15, <1>16 DEF Counted
<1> QED  BY <1>9, <1>10, <1>11, <1>13, <1>14, <1>17 DEF InTouch

-----------------------------------------------------------------------------
(* In touch at every step, and in step when all is read.                   *)

LEMMA InTouchAtStart == Init => InTouch
<1> SUFFICES ASSUME Init PROVE InTouch
  OBVIOUS
<1>1. /\ instance = 1 /\ connected = FALSE /\ stream = <<>>
      /\ client = Asking(Forget(<<>>), "list")
      /\ list = [state |-> "asked", tracked |-> {}] /\ op = Idle /\ settled = FALSE
  BY DEF Init
<1>2. client.mirror = <<>> /\ client.deleted = <<>> /\ client.known = None
  BY <1>1 DEF Asking, Forget
<1>3. DOMAIN stream = {} /\ DOMAIN client.mirror = {} /\ DOMAIN client.deleted = {}
  BY <1>1, <1>2, NoMap
<1>4. op.state = "idle" /\ list.state = "asked"
  BY <1>1 DEF Idle
<1>5. Credible
  BY <1>3, <1>4 DEF Credible, Heard, Carried, InStream
<1>6. Sober(client)
  BY <1>1, <1>2, <1>3 DEF Sober, None
<1>7. LastWord /\ Counted /\ Following
  BY <1>1 DEF LastWord, Counted, Counts, Hearing, Following
<1>8. StillFailed /\ AskedFor
  BY <1>3, <1>4 DEF StillFailed, AskedFor
<1> QED  BY <1>3, <1>5, <1>6, <1>7, <1>8 DEF InTouch

LEMMA Unchanging == ASSUME InTouch, UNCHANGED vars PROVE InTouch'
<1>1. /\ UNCHANGED <<instance, revision, created, tasks, connected, stream, client, page>>
      /\ UNCHANGED <<list, again, op, submission, settled, buried>>
  BY DEF vars, serverVars, streamVars, requestVars
<1>2. Credible'
  BY <1>1 DEF InTouch, Credible, Heard, Carried, InStream, Past, Snapshot, BeforeTheEnd, Dead,
              DeadInStream
<1>3. \A t, w : News(t, w)' <=> News(t, w)
  BY <1>1 DEF News, Final, Snapshot
<1>4. LastWord' /\ Sober(client)' /\ StillFailed' /\ AskedFor'
  BY <1>1 DEF InTouch, LastWord, Final, Snapshot, Sober, StillFailed, Untouched, AskedFor, Shown,
              Live
<1>5. Hearing' <=> Hearing
  BY <1>1 DEF Hearing
<1>6. Counted'
  <2>1. \A t \in Tasks : Since(t) => Since(t)'
    BY <1>1, <1>3 DEF Since, AnswerAfter, Shown, Live
  <2>2. Complete => Complete'
    BY <1>1 DEF Complete, Snapshot, Live
  <2> QED  BY <1>1, <1>5, <2>1, <2>2 DEF InTouch, Counted, Counts, Untouched
<1>7. Following'
  <2>1. \A t \in Tasks : (Required(t)' => Required(t)) /\ (Follows(t) => Follows(t)')
    BY <1>1, <1>3 DEF Required, Follows, InPlace, Agrees, Shown, Live
  <2>2. NoHarm => NoHarm'
    BY <1>1, <1>3 DEF NoHarm, Harmless, Buries, Snapshot
  <2> QED  BY <1>1, <1>5, <2>1, <2>2 DEF InTouch, Following
<1> QED  BY <1>1, <1>2, <1>4, <1>6, <1>7 DEF InTouch

LEMMA StaysInTouch == ASSUME ~LateStream, Inv, InTouch, [Next]_vars PROVE InTouch'
<1>1. Inv'
  BY StepsKeep
<1>2. CASE ServerSteps
  BY <1>2, ServerStepFollows, RestartFollows, ListServedFollows, ConnectFollows,
     SubmitServedFollows, RetryServedFollows, DeleteServedFollows, ClearServedFollows
     DEF ServerSteps
<1>3. CASE \/ Poll \/ ListApplied \/ Receive \/ Disconnect \/ Submit \/ ClearFailed
           \/ SubmitApplied \/ RetryApplied \/ DeleteApplied \/ ClearApplied
           \/ LoseList \/ Reload
  BY <1>1, <1>3, PollFollows, ListAppliedFollows, ReceiveFollows, DisconnectFollows,
     AsksFollow, ClearFailedFollows, SubmitAppliedFollows, RetryAppliedFollows,
     DeleteAppliedFollows, ClearAppliedFollows, ReloadFollows
<1>4. CASE LoseOp
  <2>1. Refused /\ UNCHANGED <<serverVars, streamVars, list, page, settled, buried>>
    BY <1>4 DEF LoseOp
  <2> QED  BY <1>1, <2>1, RefusedFollows
<1>5. CASE \E t \in Tasks : \E kind \in {"retry", "delete"} : Operate(kind, t)
  BY <1>1, <1>5, AsksFollow
<1>6. CASE \E t \in Tasks : Import(t)
  BY <1>1, <1>6, ImportFollows
<1>7. CASE UNCHANGED vars
  BY <1>7, Unchanging
<1> QED  BY <1>2, <1>3, <1>4, <1>5, <1>6, <1>7
         DEF Next, ServerSteps, ListStep, StreamStep, OpStep

LEMMA InTouchIsInStep == Inv /\ InTouch => Converged
<1> SUFFICES ASSUME Inv, InTouch, connected, stream = <<>>, settled
             PROVE  InStep
  BY DEF Converged
<1>1. DOMAIN stream = {}
  BY NoMap
<1>2. Hearing
  BY <1>1 DEF Hearing
<1>3. \A t \in Tasks : Required(t) => InPlace(t)
  BY <1>1, <1>2 DEF InTouch, Following, Follows, News
<1>4. \A t \in DOMAIN tasks : t \in Tasks
  BY RecordFacts
<1>5. \A t \in DOMAIN client.mirror : t \in Tasks
  BY Here
<1> QED  BY <1>3, <1>4, <1>5 DEF InStep, Required, InPlace

(* Once the stream is read, nothing is under way and no task was touched   *)
(* during the last list, the plugin shows the server's state: of each task *)
(* the last word is still on its way, or it has been taken in; a list that *)
(* overtakes the stream, an answer that comes late and a task forgotten    *)
(* meanwhile leave no gap (refreshTasksInternal and upsertTask).           *)
THEOREM StaysInStep == ASSUME ~LateStream PROVE Spec => []Converged
<1>1. Init => Inv /\ InTouch
  BY Start, InTouchAtStart
<1>2. Inv /\ InTouch /\ [Next]_vars => (Inv /\ InTouch)'
  BY StepsKeep, StaysInTouch
<1>3. Inv /\ InTouch => Converged
  BY InTouchIsInStep
<1> QED  BY <1>1, <1>2, <1>3, PTL DEF Spec

=============================================================================
