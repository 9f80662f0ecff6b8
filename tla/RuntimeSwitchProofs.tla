------------------------ MODULE RuntimeSwitchProofs ------------------------
(***************************************************************************)
(* Proofs about MaintenanceGate, SafeStop and RuntimeSwitch, in this       *)
(* order: for any finite set of connections, any work in the server, any   *)
(* length of the hold, any bound below it on the seconds that a controller *)
(* takes, and any number of versions, of failures and of deaths.           *)
(***************************************************************************)
EXTENDS RuntimeSwitch, FiniteSetTheorems, TLAPS

-----------------------------------------------------------------------------
(* MaintenanceGate and SafeStop. *)

(* When no request is in the server, the gate either remembers that work   *)
(* was under way when it last looked, or its idle clock is not ahead.      *)
ClockBehind == Counted = {} => lastBusy \/ (work = {} /\ idle <= quiet)

GateInv == GateTypeOK /\ ActiveCounts /\ Exclusive /\ ClockBehind

-----------------------------------------------------------------------------
LEMMA CountedFinite == IsFiniteSet(Counted) /\ Cardinality(Counted) \in Nat
<1>1. Counted \subseteq Requests BY DEF Counted
<1>2. IsFiniteSet(Counted)
  BY <1>1, GateAssumption, FS_Subset DEF GateAssumption
<1>3. QED BY <1>2, FS_CardinalityType

(* A request that comes in is counted once more. *)
LEMMA CountedIn ==
    ASSUME NEW q \in Requests, q \notin Counted, Counted' = Counted \cup {q}
    PROVE  Cardinality(Counted') = Cardinality(Counted) + 1
BY CountedFinite, FS_AddElement

(* A request that goes is counted once less, and there was one. *)
LEMMA CountedOut ==
    ASSUME NEW q \in Requests, q \in Counted, Counted' = Counted \ {q}
    PROVE  /\ Cardinality(Counted') = Cardinality(Counted) - 1
           /\ Cardinality(Counted) # 0
<1>1. Cardinality(Counted') = Cardinality(Counted) - 1
  BY CountedFinite, FS_RemoveElement
<1>2. Cardinality(Counted) # 0
  BY CountedFinite, FS_EmptySet
<1>3. QED BY <1>1, <1>2

LEMMA NobodyCounted ==
    ASSUME ActiveCounts
    PROVE  active = 0 <=> Counted = {}
BY CountedFinite, FS_EmptySet DEF ActiveCounts

(* The idle clock as a look at it sees it. *)
LEMMA Seen ==
    ASSUME GateInv
    PROVE  /\ SeenIdle \in 0..MaxIdle /\ SeenBusy \in BOOLEAN
           /\ ~SeenBusy => ~UnderWay /\ SeenIdle <= quiet
           /\ Counted = {} => SeenBusy \/ (work = {} /\ SeenIdle <= quiet)
<1>1. active = 0 <=> Counted = {} BY NobodyCounted DEF GateInv
<1>2. active \in Nat /\ idle \in 0..MaxIdle /\ quiet \in 0..MaxIdle
  BY DEF GateInv, GateTypeOK
<1>3. MaxIdle \in Nat BY GateAssumption DEF GateAssumption
<1>4. QED BY <1>1, <1>2, <1>3
    DEF GateInv, ClockBehind, SeenIdle, SeenBusy, Busy, UnderWay

-----------------------------------------------------------------------------
LEMMA InitialGate == GateInit => GateInv
<1> SUFFICES ASSUME GateInit PROVE GateInv OBVIOUS
<1>1. Counted = {} BY DEF GateInit, Counted
<1>2. Cardinality(Counted) = 0 BY <1>1, FS_EmptySet
<1>3. HoldSeconds \in Nat /\ MaxIdle \in Nat BY GateAssumption DEF GateAssumption
<1>4. GateTypeOK
  <2>1. up \in BOOLEAN /\ lastBusy \in BOOLEAN BY DEF GateInit
  <2>2. request \in [Requests -> {"out", "admitted", "streaming", "finished"}]
    BY DEF GateInit
  <2>3. work \subseteq Works BY DEF GateInit
  <2>4. active \in Nat /\ held \in 0..HoldSeconds /\ idle \in 0..MaxIdle
        /\ quiet \in 0..MaxIdle
    BY <1>3 DEF GateInit
  <2>5. QED BY <2>1, <2>2, <2>3, <2>4 DEF GateTypeOK
<1>5. ActiveCounts BY <1>2 DEF GateInit, ActiveCounts
<1>6. Exclusive /\ ClockBehind BY DEF GateInit, Exclusive, ClockBehind
<1>7. QED BY <1>4, <1>5, <1>6 DEF GateInv

LEMMA ClearedGate ==
    ASSUME Cleared, up' \in BOOLEAN PROVE GateInv'
<1>1. Counted' = {} BY DEF Cleared, Counted
<1>2. Cardinality(Counted') = 0 BY <1>1, FS_EmptySet
<1>3. HoldSeconds \in Nat /\ MaxIdle \in Nat BY GateAssumption DEF GateAssumption
<1>4. GateTypeOK'
  <2>1. lastBusy' \in BOOLEAN BY DEF Cleared
  <2>2. request' \in [Requests -> {"out", "admitted", "streaming", "finished"}]
    BY DEF Cleared
  <2>3. work' \subseteq Works BY DEF Cleared
  <2>4. active' \in Nat /\ held' \in 0..HoldSeconds /\ idle' \in 0..MaxIdle
        /\ quiet' \in 0..MaxIdle
    BY <1>3 DEF Cleared
  <2>5. QED BY <2>1, <2>2, <2>3, <2>4 DEF GateTypeOK
<1>5. ActiveCounts' BY <1>2 DEF Cleared, ActiveCounts
<1>6. Exclusive' /\ ClockBehind' BY DEF Cleared, Exclusive, ClockBehind
<1>7. QED BY <1>4, <1>5, <1>6 DEF GateInv

(* Whoever leaves is no longer counted: by the counter and by the gate. *)
LEMMA Leaving ==
    ASSUME GateInv, NEW q \in Requests, q \in Counted, Leave,
           request' \in [Requests -> {"out", "admitted", "streaming", "finished"}],
           Counted' = Counted \ {q}, UNCHANGED <<up, work, held, quiet>>
    PROVE  GateInv'
<1>1. active \in Nat /\ quiet \in 0..MaxIdle /\ held = held' /\ quiet' = quiet
  BY DEF GateInv, GateTypeOK
<1>2. active' = active - 1 /\ active # 0 /\ ActiveCounts'
  BY <1>1, CountedOut, CountedFinite DEF Leave, ActiveCounts, GateInv
<1>3. idle' = 0 /\ lastBusy' \in BOOLEAN /\ (work # {} => lastBusy')
  BY DEF Leave, Busy
<1>4. GateTypeOK'
  BY <1>1, <1>2, <1>3, GateAssumption DEF GateTypeOK, GateInv, GateAssumption
<1>5. Exclusive'
  <2>1. held' > 0 => Counted = {} /\ work' = {}
    BY <1>1 DEF Exclusive, GateInv, UnderWay
  <2>2. QED BY <2>1 DEF Exclusive, UnderWay
<1>6. ClockBehind'
  <2>1. idle' <= quiet' BY <1>1, <1>3, GateAssumption DEF GateAssumption
  <2>2. QED BY <1>3, <2>1 DEF ClockBehind
<1>7. QED BY <1>2, <1>4, <1>5, <1>6 DEF GateInv

LEMMA EnterKeeps ==
    ASSUME GateInv, NEW q \in Requests, Enter(q) PROVE GateInv'
<1>1. q \notin Counted /\ Counted' = Counted \cup {q}
  BY DEF Enter, Counted, GateInv, GateTypeOK
<1>2. ActiveCounts'
  BY <1>1, CountedIn, CountedFinite DEF Enter, ActiveCounts, GateInv
<1>3. GateTypeOK'
  BY GateAssumption DEF Enter, GateTypeOK, GateInv, GateAssumption, Busy
<1>4. Exclusive' BY GateAssumption DEF Enter, Exclusive, GateInv, GateTypeOK
<1>5. ClockBehind' BY <1>1 DEF ClockBehind
<1>6. QED BY <1>2, <1>3, <1>4, <1>5 DEF GateInv

(* Steps after which the same requests are counted. *)
LEMMA SameCount ==
    ASSUME GateInv, request' = request, active' = active
    PROVE  Counted' = Counted /\ ActiveCounts'
BY DEF Counted, ActiveCounts, GateInv

LEMMA WorkKeeps ==
    ASSUME GateInv, NEW w \in Works,
           EndWork(w) \/ \E q \in Requests : BeginWork(q, w)
    PROVE  GateInv'
<1>1. Counted' = Counted /\ ActiveCounts' BY SameCount DEF EndWork, BeginWork
<1>2. GateTypeOK' BY DEF EndWork, BeginWork, GateTypeOK, GateInv
<1>3. Exclusive'
  BY <1>1 DEF EndWork, BeginWork, Exclusive, UnderWay, GateInv
<1>4. ClockBehind'
  BY <1>1 DEF EndWork, BeginWork, ClockBehind, GateInv
<1>5. QED BY <1>1, <1>2, <1>3, <1>4 DEF GateInv

LEMMA RespondKeeps ==
    ASSUME GateInv, NEW q \in Requests, Respond(q) \/ StreamEnds(q) \/ Close(q)
    PROVE  GateInv'
<1>1. request' \in [Requests -> {"out", "admitted", "streaming", "finished"}]
  BY DEF Respond, StreamEnds, Close, GateInv, GateTypeOK
<1>2. CASE q \in Counted
  <2>1. Counted' = Counted \ {q}
    BY <1>2 DEF Respond, StreamEnds, Close, Counted, GateInv, GateTypeOK
  <2>2. Leave /\ UNCHANGED <<up, work, held, quiet>>
    BY <1>2 DEF Respond, StreamEnds, Close, Counted
  <2>3. QED BY <1>1, <1>2, <2>1, <2>2, Leaving
<1>3. CASE q \notin Counted
  <2>1. Counted' = Counted
    BY <1>3 DEF Respond, StreamEnds, Close, Counted, GateInv, GateTypeOK
  <2>2. UNCHANGED <<up, work, active, held, idle, lastBusy, quiet>>
    BY <1>3 DEF Respond, StreamEnds, Close, Counted
  <2>3. QED BY <1>1, <2>1, <2>2
      DEF GateInv, GateTypeOK, ActiveCounts, Exclusive, ClockBehind, UnderWay
<1>4. QED BY <1>2, <1>3

LEMMA StreamKeeps ==
    ASSUME GateInv, NEW q \in Requests, Stream(q) PROVE GateInv'
<1>1. Counted' = Counted BY DEF Stream, Counted, GateInv, GateTypeOK
<1>2. request' \in [Requests -> {"out", "admitted", "streaming", "finished"}]
  BY DEF Stream, GateInv, GateTypeOK
<1>3. QED BY <1>1, <1>2
    DEF Stream, GateInv, GateTypeOK, ActiveCounts, Exclusive, ClockBehind, UnderWay

LEMMA SnapshotKeeps == ASSUME GateInv, Snapshot PROVE GateInv'
<1>1. Counted' = Counted /\ ActiveCounts' BY SameCount DEF Snapshot
<1>2. GateTypeOK' BY Seen DEF Snapshot, GateTypeOK, GateInv
<1>3. Exclusive' BY <1>1 DEF Snapshot, Exclusive, UnderWay, GateInv
<1>4. ClockBehind' BY <1>1, Seen DEF Snapshot, ClockBehind
<1>5. QED BY <1>1, <1>2, <1>3, <1>4 DEF GateInv

LEMMA AcquireKeeps ==
    ASSUME GateInv, NEW seconds \in 0..MaxIdle, Acquire(seconds) PROVE GateInv'
<1>1. Counted' = Counted /\ ActiveCounts' BY SameCount DEF Acquire
<1>2. GateTypeOK'
  BY Seen, GateAssumption DEF Acquire, GateTypeOK, GateInv, GateAssumption
<1>3. Exclusive' BY <1>1, Seen DEF Acquire, Exclusive, UnderWay
<1>4. ClockBehind' BY <1>1, Seen DEF Acquire, ClockBehind
<1>5. QED BY <1>1, <1>2, <1>3, <1>4 DEF GateInv

LEMMA ReleaseKeeps == ASSUME GateInv, Release PROVE GateInv'
<1>1. Counted' = Counted /\ ActiveCounts' BY SameCount DEF Release
<1>2. GateTypeOK'
  BY GateAssumption DEF Release, GateTypeOK, GateInv, GateAssumption
<1>3. Exclusive' BY DEF Release, Exclusive
<1>4. ClockBehind'
  BY <1>1 DEF Release, ClockBehind, GateInv, GateTypeOK
<1>5. QED BY <1>1, <1>2, <1>3, <1>4 DEF GateInv

LEMMA SecondKeeps == ASSUME GateInv, Second PROVE GateInv'
<1>1. Counted' = Counted /\ ActiveCounts' BY SameCount DEF Second
<1>2. GateTypeOK'
  BY GateAssumption DEF Second, GateTypeOK, GateInv, GateAssumption, Later
<1>3. Exclusive'
  BY <1>1, GateAssumption DEF Second, Exclusive, UnderWay, GateInv, GateTypeOK, GateAssumption
<1>4. ClockBehind'
  BY <1>1, GateAssumption
  DEF Second, ClockBehind, UnderWay, Later, GateInv, GateTypeOK, GateAssumption
<1>5. QED BY <1>1, <1>2, <1>3, <1>4 DEF GateInv

LEMMA GateStep == GateInv /\ [GateNext]_gateVars => GateInv'
<1> SUFFICES ASSUME GateInv, [GateNext]_gateVars PROVE GateInv' OBVIOUS
<1>1. CASE Serve
  BY <1>1, EnterKeeps, WorkKeeps, RespondKeeps, StreamKeeps, SnapshotKeeps DEF Serve
<1>2. CASE Control BY <1>2, AcquireKeeps, ReleaseKeeps DEF Control
<1>3. CASE Second BY <1>3, SecondKeeps
<1>4. CASE Stop \/ Start BY <1>4, ClearedGate DEF Stop, Start
<1>5. CASE UNCHANGED gateVars
  <2>1. Counted' = Counted /\ ActiveCounts' BY <1>5, SameCount DEF gateVars
  <2>2. QED BY <1>5, <2>1
      DEF gateVars, GateInv, GateTypeOK, Exclusive, ClockBehind, UnderWay
<1>6. QED BY <1>1, <1>2, <1>3, <1>4, <1>5 DEF GateNext

(* The gate is in one of the states that GateInv describes.                *)
LEMMA GateInvariance == GateSpec => []GateInv
BY InitialGate, GateStep, PTL DEF GateSpec

(* The fields of the gate have their types, and the hold never exceeds its *)
(* length.                                                                 *)
THEOREM GateTypeCorrect == GateSpec => []GateTypeOK
<1>1. GateInv => GateTypeOK BY DEF GateInv
<1>2. QED BY <1>1, GateInvariance, PTL

(* _active is the number of requests that are in the server.               *)
THEOREM CounterIsExact == GateSpec => []ActiveCounts
<1>1. GateInv => ActiveCounts BY DEF GateInv
<1>2. QED BY <1>1, GateInvariance, PTL

(* Under a hold nothing is under way in the server, and nothing begins.    *)
THEOREM HoldIsExclusive == GateSpec => []Exclusive
<1>1. GateInv => Exclusive BY DEF GateInv
<1>2. QED BY <1>1, GateInvariance, PTL

(* A hold that waits for quiet seconds is granted after as many of them.   *)
THEOREM QuietIsReal == GateSpec => IdleIsReal
<1>1. GateInv /\ [GateNext]_gateVars =>
          [\A seconds \in 0..MaxIdle : Acquire(seconds) => quiet >= seconds]_gateVars
  <2> SUFFICES ASSUME GateInv, NEW seconds \in 0..MaxIdle, Acquire(seconds)
               PROVE  quiet >= seconds
    OBVIOUS
  <2>1. SeenIdle >= seconds /\ SeenIdle <= quiet BY Seen DEF Acquire
  <2>2. quiet \in Nat /\ SeenIdle \in Nat
    BY Seen, GateAssumption DEF GateInv, GateTypeOK, GateAssumption
  <2>3. QED BY <2>1, <2>2
<1>2. QED BY <1>1, GateInvariance, PTL DEF GateSpec, IdleIsReal

-----------------------------------------------------------------------------
(* An operation that was granted the hold has it as long as it remembers.  *)
OwnHoldLasts ==
    own => up /\ controller # "none" /\ held = HoldSeconds - elapsed

SafeInv == TypeOK /\ OwnHoldLasts

(* Whatever the operations do to the server, they do through the gate.     *)
LEMMA GateIsUsed == [Next]_vars => [GateNext]_gateVars
<1> SUFFICES ASSUME [Next]_vars PROVE [GateNext]_gateVars OBVIOUS
<1>1. IdleSeconds \in 0..MaxIdle /\ 0 \in 0..MaxIdle
  BY SwitchAssumption, GateAssumption DEF SwitchAssumption, GateAssumption
<1>2. CASE Operate
  BY <1>1, <1>2 DEF Operate, AskForHold, SpawnScript, StopAtOnce, GiveBack, RunScript,
     RequestSafeMaintenance, StopServer, ScriptDies, GateNext, Control
<1>3. CASE Tick BY <1>3 DEF Tick, GateNext
<1>4. CASE Die BY <1>4 DEF Die, GateNext
<1>5. CASE Serve \/ Start BY <1>5 DEF GateNext
<1>6. CASE UNCHANGED vars BY <1>6 DEF vars
<1>7. QED BY <1>2, <1>3, <1>4, <1>5, <1>6 DEF Next

LEMMA SafeStep == GateInv /\ SafeInv /\ [Next]_vars => SafeInv'
<1> SUFFICES ASSUME GateInv, SafeInv, [Next]_vars PROVE SafeInv' OBVIOUS
<1>1. /\ HoldSeconds \in Nat /\ SwitchSeconds \in Nat /\ SwitchSeconds < HoldSeconds
      /\ held \in 0..HoldSeconds /\ TypeOK /\ OwnHoldLasts
  BY SwitchAssumption, GateAssumption
  DEF SwitchAssumption, GateAssumption, GateInv, GateTypeOK, SafeInv
<1>2. ASSUME Over PROVE SafeInv'
  <2>1. controller' = "none" /\ own' = FALSE /\ elapsed' = 0 BY <1>2 DEF Over
  <2>2. 0 \in 0..SwitchSeconds BY <1>1
  <2>3. TypeOK' BY <2>1, <2>2 DEF TypeOK
  <2>4. QED BY <2>1, <2>3 DEF SafeInv, OwnHoldLasts
<1>3. ASSUME NEW c \in {"holding", "script", "stopping"}, controller' = c,
             controller # "none", UNCHANGED <<gateVars, own, elapsed>>
      PROVE  SafeInv'
  BY <1>1, <1>3 DEF gateVars, SafeInv, TypeOK, OwnHoldLasts
<1>4. ASSUME NEW c \in {"holding", "stopping"}, controller' = c, own' = TRUE,
             elapsed' = 0, NEW seconds \in 0..MaxIdle, Acquire(seconds)
      PROVE  SafeInv'
  BY <1>1, <1>4 DEF Acquire, SafeInv, TypeOK, OwnHoldLasts
<1>5. IdleSeconds \in 0..MaxIdle /\ 0 \in 0..MaxIdle
  BY SwitchAssumption, GateAssumption DEF SwitchAssumption, GateAssumption
<1>6. CASE AskForHold BY <1>2, <1>4, <1>5, <1>6 DEF AskForHold
<1>7. CASE SpawnScript \/ StopAtOnce BY <1>3, <1>7 DEF SpawnScript, StopAtOnce
<1>8. CASE GiveBack \/ StopServer \/ ScriptDies
  BY <1>2, <1>8 DEF GiveBack, StopServer, ScriptDies
<1>9. CASE RunScript
  BY <1>1, <1>9 DEF RunScript, SafeInv, TypeOK, OwnHoldLasts
<1>10. CASE RequestSafeMaintenance
  BY <1>2, <1>3, <1>4, <1>5, <1>10 DEF RequestSafeMaintenance
<1>11. CASE Tick
  <2>1. TypeOK' BY <1>1, <1>11 DEF Tick, TypeOK, controlVars
  <2>2. ASSUME own' PROVE up' /\ controller' # "none" /\ held' = HoldSeconds - elapsed'
    <3>1. own /\ UNCHANGED <<up, controller>> /\ elapsed < SwitchSeconds
          /\ elapsed' = elapsed + 1
      BY <1>1, <1>11, <2>2 DEF Tick, Second, controlVars, TypeOK
    <3>2. held = HoldSeconds - elapsed /\ elapsed \in Nat
      BY <1>1, <3>1 DEF OwnHoldLasts, TypeOK
    <3>3. held' = held - 1
      BY <1>1, <1>11, <3>1, <3>2 DEF Tick, Second
    <3>4. QED BY <1>1, <3>1, <3>2, <3>3 DEF OwnHoldLasts
  <2>3. QED BY <2>1, <2>2 DEF SafeInv, OwnHoldLasts
<1>12. CASE Die
  <2>1. own' = FALSE /\ elapsed' = 0 /\ controller' = controller BY <1>12 DEF Die
  <2>2. 0 \in 0..SwitchSeconds BY <1>1
  <2>3. TypeOK' BY <1>1, <2>1, <2>2 DEF TypeOK
  <2>4. QED BY <2>1, <2>3 DEF SafeInv, OwnHoldLasts
<1>13. CASE (Serve \/ Start) /\ UNCHANGED controlVars
  <2>1. TypeOK' BY <1>1, <1>13 DEF controlVars, TypeOK
  <2>2. own => UNCHANGED <<up, held>>
    BY <1>1, <1>13 DEF OwnHoldLasts, Start, Serve, Enter, Respond, Stream,
       StreamEnds, Close, BeginWork, EndWork, Snapshot
  <2>3. QED BY <1>1, <1>13, <2>1, <2>2 DEF SafeInv, OwnHoldLasts, controlVars
<1>14. CASE UNCHANGED vars
  BY <1>1, <1>14 DEF vars, gateVars, controlVars, SafeInv, TypeOK, OwnHoldLasts
<1>15. QED
  BY <1>6, <1>7, <1>8, <1>9, <1>10, <1>11, <1>12, <1>13, <1>14 DEF Next, Operate

LEMMA SafeInvariance == Spec => [](GateInv /\ SafeInv)
<1>1. Init => GateInv BY InitialGate DEF Init
<1>2. ASSUME Init PROVE SafeInv
  <2>1. controller = "none" /\ own = FALSE /\ elapsed = 0 BY <1>2 DEF Init
  <2>2. 0 \in 0..SwitchSeconds BY SwitchAssumption DEF SwitchAssumption
  <2>3. TypeOK BY <2>1, <2>2 DEF TypeOK
  <2>4. QED BY <2>1, <2>3 DEF SafeInv, OwnHoldLasts
<1>3. QED BY <1>1, <1>2, GateStep, GateIsUsed, SafeStep, PTL DEF Spec

(* Where an operation is, and what it remembers, have their types.         *)
THEOREM TypeCorrect == Spec => []TypeOK
<1>1. SafeInv => TypeOK BY DEF SafeInv
<1>2. QED BY <1>1, SafeInvariance, PTL

(* An operation that was granted a hold, and is not slower than the hold   *)
(* allows, stops a server in which nothing is under way.                   *)
THEOREM OwnHoldIsEnough == Spec => OwnHoldProtects
<1>1. GateInv /\ SafeInv /\ [Next]_vars => [Stopped /\ own => ~UnderWay]_vars
  <2> SUFFICES ASSUME GateInv, SafeInv, own PROVE ~UnderWay OBVIOUS
  <2>1. held = HoldSeconds - elapsed /\ elapsed \in 0..SwitchSeconds
    BY DEF SafeInv, TypeOK, OwnHoldLasts
  <2>2. held > 0
    BY <2>1, SwitchAssumption, GateAssumption DEF SwitchAssumption, GateAssumption
  <2>3. QED BY <2>2 DEF GateInv, Exclusive
<1>2. QED BY <1>1, SafeInvariance, PTL DEF Spec, OwnHoldProtects

(* The composition implements the gate alone.                              *)
THEOREM GateRefined == Spec => GateSpec
<1>1. Init => GateInit BY DEF Init
<1>2. QED BY <1>1, GateIsUsed, PTL DEF Spec, GateSpec

-----------------------------------------------------------------------------
(* RuntimeSwitch. *)

(* Where the files of the candidate are in place, in the order of          *)
(* Apply-PreparedRuntime ...                                               *)
Checking == {"marked", "launched", "healthy", "checked"}
Pointed == {"pointed"} \cup Checking
Copied == {"copied"} \cup Pointed

(* ... and those of the backup, in the order of Restore-RuntimeTransaction. *)
PointedBack == {"restored", "restarting", "restarted"}
MarkedBack == {"markedBack"} \cup PointedBack
CopiedBack == {"copiedBack"} \cup MarkedBack

Undone == {"journalled", "stopped", "alone", "copying", "restoring", "restoringAlone",
           "restoringStopped", "copyingBack"} \cup Copied \cup CopiedBack

(* While the files change the journal says that they do. *)
Journalled == script \in Undone => ~Settled

(* The files of the candidate come before the records that point to them,  *)
(* and the ones of the backup in the same way.                             *)
Forward ==
    /\ script \in Copied => bin = {journal.new}
    /\ script \in Pointed /\ ~overtaken => executable = journal.new
    /\ script \in Checking => version = journal.new
Backward ==
    /\ script \in CopiedBack => bin = {journal.old}
    /\ script \in MarkedBack => version = journal.old
    /\ script \in PointedBack /\ ~overtaken => executable = journal.old

(* What is remembered of the old version names one version: the server's   *)
(* executable is read before the journal is written, and nothing but a     *)
(* start without the lock writes it in between.                            *)
Candidate ==
    script = "held" =>
        /\ prepared # 0 /\ oldServer # 0
        /\ ~overtaken => oldServer = version
Remembered == ~Settled /\ ~overtaken => journal.server = journal.old

ScriptTyped ==
    /\ by \in {"none", "update", "install", "recover"} /\ wasRunning \in BOOLEAN
    /\ oldServer \in 0..Releases /\ keep \in BOOLEAN

SwitchInv ==
    /\ SwitchTypeOK /\ Candidate /\ Remembered /\ Journalled
    /\ Forward /\ Backward /\ OldOrNew

(* A step after which server-executable.txt says what it said, or does not *)
(* count.                                                                  *)
PointerKept == ~overtaken' => ~overtaken /\ executable' = executable

-----------------------------------------------------------------------------
(* A step that touches neither the files nor the journal keeps what is     *)
(* known of them, when it leaves the script where it is, ends it, takes it *)
(* to a place where nothing is known, or moves it where the same is.       *)
LEMMA Carried ==
    ASSUME SwitchInv, UNCHANGED <<bin, version, journal>>, PointerKept,
           \/ script' = script
           \/ script' \notin Undone
           \/ ~Settled /\ script' \in Undone \ (Copied \cup CopiedBack)
           \/ script \in Checking /\ script' \in Checking
           \/ script \in PointedBack /\ script' \in PointedBack
    PROVE  Remembered' /\ Journalled' /\ Forward' /\ Backward' /\ OldOrNew'
<1>1. OldOrNew'
  BY DEF SwitchInv, OldOrNew, Settled, PointerKept
<1>2. Journalled'
  BY DEF SwitchInv, Journalled, Settled, Undone, Copied, Pointed, Checking,
         CopiedBack, MarkedBack, PointedBack
<1>3. Forward'
  BY DEF SwitchInv, Forward, Undone, Copied, Pointed, Checking,
         CopiedBack, MarkedBack, PointedBack, PointerKept
<1>4. Backward'
  BY DEF SwitchInv, Backward, Undone, Copied, Pointed, Checking,
         CopiedBack, MarkedBack, PointedBack, PointerKept
<1>5. Remembered' BY DEF SwitchInv, Remembered, Settled, PointerKept
<1>6. QED BY <1>1, <1>2, <1>3, <1>4, <1>5

(* One version is there at the start. *)
LEMMA SwitchBegins == SwitchInit => SwitchInv
<1> SUFFICES ASSUME SwitchInit PROVE SwitchInv OBVIOUS
<1>1. 1 \in Versions /\ 1 \in 0..Releases /\ 0 \in 0..Releases /\ Faults \in 0..Faults
  BY ReleasesAssumption DEF ReleasesAssumption, Versions
<1>2. FilesOK BY <1>1 DEF SwitchInit, FilesOK, NoStart
<1>3. RecordsOK BY <1>1 DEF SwitchInit, RecordsOK
<1>4. PanelOK BY <1>1 DEF SwitchInit, PanelOK
<1>5. ScriptOK BY <1>1 DEF SwitchInit, ScriptOK
<1>6. Candidate /\ Remembered /\ Journalled /\ Forward /\ Backward
  BY DEF SwitchInit, Candidate, Remembered, Settled, Journalled, Forward, Backward, Undone,
     Copied, Pointed, Checking, CopiedBack, MarkedBack, PointedBack
<1>7. OldOrNew
  BY DEF SwitchInit, OldOrNew
<1>8. QED BY <1>2, <1>3, <1>4, <1>5, <1>6, <1>7 DEF SwitchInv, SwitchTypeOK

(* The server comes and goes without a change of files or records. *)
LEMMA FilesKept ==
    ASSUME SwitchTypeOK, UNCHANGED fileVars, serving' \in {serving, 0, executable}
    PROVE  FilesOK'
<1>1. executable \in 0..Releases /\ 0 \in 0..Releases
  BY ReleasesAssumption DEF ReleasesAssumption, SwitchTypeOK, FilesOK, Versions
<1>2. QED BY <1>1 DEF SwitchTypeOK, FilesOK, fileVars

LEMMA RecordsKept ==
    ASSUME SwitchTypeOK, UNCHANGED recordVars
    PROVE  RecordsOK'
BY DEF SwitchTypeOK, RecordsOK, recordVars

LEMMA FaultsCount ==
    ASSUME SwitchTypeOK, Fault \/ UNCHANGED faults
    PROVE  faults' \in 0..Faults
BY ReleasesAssumption DEF ReleasesAssumption, SwitchTypeOK, ScriptOK, Fault

(* Such a step keeps the invariant when it keeps the types ... *)
LEMMA KeptInstalled ==
    ASSUME SwitchInv, UNCHANGED <<bin, version, journal>>, PointerKept, FilesOK',
           RecordsOK', PanelOK', ScriptOK', Candidate',
           \/ script' = script
           \/ script' \notin Undone
           \/ ~Settled /\ script' \in Undone \ (Copied \cup CopiedBack)
           \/ script \in Checking /\ script' \in Checking
           \/ script \in PointedBack /\ script' \in PointedBack
    PROVE  SwitchInv'
<1>1. Remembered' /\ Journalled' /\ Forward' /\ Backward' /\ OldOrNew' BY Carried
<1>2. QED BY <1>1 DEF SwitchInv, SwitchTypeOK

(* ... and when it does not touch server-executable.txt either. *)
LEMMA Moved ==
    ASSUME SwitchInv, UNCHANGED <<fileVars, journal>>,
           serving' \in {serving, 0, executable},
           RecordsOK', PanelOK', ScriptOK', Candidate',
           \/ script' = script
           \/ script' \notin Undone
           \/ ~Settled /\ script' \in Undone \ (Copied \cup CopiedBack)
           \/ script \in Checking /\ script' \in Checking
           \/ script \in PointedBack /\ script' \in PointedBack
    PROVE  SwitchInv'
<1>1. UNCHANGED <<bin, version, journal>> /\ PointerKept BY DEF fileVars, PointerKept
<1>2. FilesOK' BY FilesKept DEF SwitchInv
<1>3. QED BY <1>1, <1>2, KeptInstalled

(* A step in which no script takes part and no record is written. *)
LEMMA Quiet ==
    ASSUME SwitchInv, UNCHANGED <<fileVars, recordVars, script, oldServer>>,
           serving' \in {serving, 0, executable},
           Fault \/ UNCHANGED faults, PanelOK', ScriptTyped'
    PROVE  SwitchInv'
<1>1. RecordsOK' /\ faults' \in 0..Faults
  BY RecordsKept, FaultsCount DEF SwitchInv
<1>2. ScriptOK' BY <1>1 DEF ScriptOK, ScriptTyped
<1>3. Candidate' BY DEF SwitchInv, Candidate, fileVars, recordVars
<1>4. QED BY <1>1, <1>2, <1>3, Moved DEF recordVars

LEMMA ScriptGone ==
    ASSUME by' = "none", wasRunning' = FALSE, oldServer' = 0, keep' = FALSE
    PROVE  ScriptTyped'
<1>1. 0 \in 0..Releases BY ReleasesAssumption DEF ReleasesAssumption
<1>2. QED BY <1>1 DEF ScriptTyped

LEMMA PanelStays == ASSUME SwitchTypeOK, UNCHANGED panelVars PROVE PanelOK'
BY DEF SwitchTypeOK, PanelOK, panelVars

LEMMA PanelGone == ASSUME PanelEnds PROVE PanelOK'
<1>1. panel' = "off" /\ panelVersion' \in 0..Releases
  BY ReleasesAssumption DEF PanelEnds, ReleasesAssumption
<1>2. willStart' \in BOOLEAN BY DEF PanelEnds
<1>3. QED BY <1>1, <1>2 DEF PanelOK

LEMMA PanelCalled ==
    ASSUME SwitchTypeOK, NEW launch \in BOOLEAN, StartPanel(launch)
    PROVE  PanelOK'
<1>1. CASE panel = "off"
  <2>1. panel' = "recovering" /\ panelVersion' \in bin BY <1>1 DEF StartPanel
  <2>2. willStart' \in BOOLEAN BY <1>1 DEF StartPanel
  <2>3. panelVersion' \in 0..Releases
    BY <2>1, ReleasesAssumption DEF ReleasesAssumption, SwitchTypeOK, FilesOK, Versions
  <2>4. QED BY <2>1, <2>2, <2>3 DEF PanelOK
<1>2. CASE panel # "off"
  BY <1>2 DEF StartPanel, SwitchTypeOK, PanelOK, panelVars
<1>3. QED BY <1>1, <1>2

(* What the server and the user do, and a script without the lock. *)
LEMMA OthersKeep ==
    ASSUME SwitchInv,
           EnterFails \/ ServerDiesAlone \/ GateMoves \/ UNCHANGED allVars
    PROVE  SwitchInv'
<1>1. CASE EnterFails
  <2>1. /\ UNCHANGED <<fileVars, recordVars, script, oldServer>>
        /\ serving' \in {serving, 0, executable}
        /\ Fault \/ UNCHANGED faults
    BY <1>1 DEF EnterFails, scriptVars, switchVars, recordVars
  <2>2. PanelOK'
    BY <1>1, PanelCalled DEF EnterFails, SwitchInv, SwitchTypeOK, ScriptOK
  <2>3. ScriptTyped'
    BY <1>1 DEF ScriptTyped, EnterFails, SwitchInv, SwitchTypeOK, ScriptOK, scriptVars, switchVars
  <2>4. QED BY <2>1, <2>2, <2>3, Quiet
<1>2. CASE ServerDiesAlone
  <2>1. /\ UNCHANGED <<fileVars, recordVars, script, oldServer>>
        /\ serving' \in {serving, 0, executable}
        /\ Fault \/ UNCHANGED faults
    BY <1>2 DEF ServerDiesAlone, Kill, scriptVars, switchVars, recordVars
  <2>2. PanelOK'
    BY <1>2 DEF ServerDiesAlone, SwitchInv, SwitchTypeOK, FilesOK, PanelOK, PanelEnds,
       StartPanel, Versions, panelVars, switchVars
  <2>3. ScriptTyped'
    BY <1>2 DEF ScriptTyped, ServerDiesAlone, SwitchInv, SwitchTypeOK, ScriptOK, scriptVars,
       switchVars
  <2>4. QED BY <2>1, <2>2, <2>3, Quiet
<1>3. CASE GateMoves
  <2>1. /\ UNCHANGED <<fileVars, recordVars, script, oldServer>>
        /\ serving' \in {serving, 0, executable}
        /\ Fault \/ UNCHANGED faults
    BY <1>3 DEF GateMoves, scriptVars, switchVars, recordVars
  <2>2. PanelOK'
    BY <1>3 DEF GateMoves, SwitchInv, SwitchTypeOK, FilesOK, PanelOK, PanelEnds, StartPanel,
       Versions, panelVars, switchVars
  <2>3. ScriptTyped'
    BY <1>3 DEF ScriptTyped, GateMoves, SwitchInv, SwitchTypeOK, ScriptOK, scriptVars, switchVars
  <2>4. QED BY <2>1, <2>2, <2>3, Quiet
<1>4. CASE UNCHANGED allVars
  <2>1. UNCHANGED <<serving, fileVars, recordVars, scriptVars, faults, panelVars>>
    BY <1>4 DEF allVars, switchVars, scriptVars
  <2>2. PanelOK' BY <2>1 DEF SwitchInv, SwitchTypeOK, PanelOK, panelVars
  <2>3. ScriptTyped'
    BY <2>1 DEF ScriptTyped, SwitchInv, SwitchTypeOK, ScriptOK, scriptVars
  <2>4. QED BY <2>1, <2>2, <2>3, Quiet DEF scriptVars
<1>5. QED BY <1>4, <1>1, <1>2, <1>3

(* The steps of the control centre that write no record. *)
LEMMA PanelKeeps ==
    ASSUME SwitchInv,
           \/ PanelStarts \/ PanelCloses \/ PanelAsks \/ SpawnUpdate \/ PanelStops
    PROVE  SwitchInv'
<1>1. CASE PanelStarts
  <2>1. /\ UNCHANGED <<fileVars, recordVars, script, oldServer>>
        /\ serving' \in {serving, 0, executable}
        /\ Fault \/ UNCHANGED faults
    BY <1>1 DEF PanelStarts, scriptVars, switchVars, recordVars
  <2>2. PanelOK'
    BY <1>1 DEF PanelStarts, SwitchInv, SwitchTypeOK, FilesOK, PanelOK, PanelEnds, StartPanel,
       Versions, panelVars, switchVars
  <2>3. ScriptTyped'
    BY <1>1 DEF ScriptTyped, PanelStarts, SwitchInv, SwitchTypeOK, ScriptOK, scriptVars, switchVars
  <2>4. QED BY <2>1, <2>2, <2>3, Quiet
<1>2. CASE PanelCloses
  <2>1. /\ UNCHANGED <<fileVars, recordVars, script, oldServer>>
        /\ serving' \in {serving, 0, executable}
        /\ Fault \/ UNCHANGED faults
    BY <1>2 DEF PanelCloses, scriptVars, switchVars, recordVars
  <2>2. PanelOK'
    BY <1>2, PanelGone DEF PanelCloses
  <2>3. ScriptTyped'
    BY <1>2 DEF ScriptTyped, PanelCloses, SwitchInv, SwitchTypeOK, ScriptOK, scriptVars, switchVars
  <2>4. QED BY <2>1, <2>2, <2>3, Quiet
<1>3. CASE PanelAsks
  <2>1. /\ UNCHANGED <<fileVars, recordVars, script, oldServer>>
        /\ serving' \in {serving, 0, executable}
        /\ Fault \/ UNCHANGED faults
    BY <1>3 DEF PanelAsks, scriptVars, switchVars, recordVars
  <2>2. PanelOK'
    BY <1>3 DEF PanelAsks, SwitchInv, SwitchTypeOK, FilesOK, PanelOK, PanelEnds, StartPanel,
       Versions, panelVars, switchVars
  <2>3. ScriptTyped'
    BY <1>3 DEF ScriptTyped, PanelAsks, SwitchInv, SwitchTypeOK, ScriptOK, scriptVars, switchVars
  <2>4. QED BY <2>1, <2>2, <2>3, Quiet
<1>4. CASE SpawnUpdate
  <2>1. /\ UNCHANGED <<fileVars, recordVars, script, oldServer>>
        /\ serving' \in {serving, 0, executable}
        /\ Fault \/ UNCHANGED faults
    BY <1>4 DEF SpawnUpdate, scriptVars, switchVars, recordVars
  <2>2. PanelOK'
    BY <1>4, PanelGone DEF SpawnUpdate
  <2>3. ScriptTyped'
    BY <1>4 DEF ScriptTyped, SpawnUpdate, SwitchInv, SwitchTypeOK, ScriptOK, scriptVars, switchVars
  <2>4. QED BY <2>1, <2>2, <2>3, Quiet
<1>5. CASE PanelStops
  <2>1. /\ UNCHANGED <<fileVars, recordVars, script, oldServer>>
        /\ serving' \in {serving, 0, executable}
        /\ Fault \/ UNCHANGED faults
    BY <1>5 DEF PanelStops, scriptVars, switchVars, recordVars
  <2>2. PanelOK'
    BY <1>5 DEF PanelStops, SwitchInv, SwitchTypeOK, FilesOK, PanelOK, PanelEnds, StartPanel,
       Versions, panelVars, switchVars
  <2>3. ScriptTyped'
    BY <1>5 DEF ScriptTyped, PanelStops, SwitchInv, SwitchTypeOK, ScriptOK, scriptVars, switchVars
  <2>4. QED BY <2>1, <2>2, <2>3, Quiet
<1>6. QED BY <1>1, <1>2, <1>3, <1>4, <1>5

(* The steps of a start without the lock. *)
LEMMA StartKeeps ==
    ASSUME SwitchInv, StartService \/ UserStarts \/ StartGoesOn
    PROVE  SwitchInv'
<1>1. /\ UNCHANGED <<bin, version, recordVars, scriptVars>>
      /\ Fault \/ UNCHANGED faults
  BY DEF StartService, UserStarts, StartGoesOn, LookAtPort, AwaitHealth, FinishStart
<1>2. /\ serving \in 0..Releases /\ 0 \in 0..Releases /\ Versions \subseteq 0..Releases
      /\ executable \in Versions /\ version \in Versions /\ bin \subseteq Versions
      /\ 1 \in Versions
      /\ starter \in [at : {"none", "read", "waiting", "healthy", "failing"},
                      exe : Versions, package : Versions]
      /\ overtaken \in BOOLEAN
  BY ReleasesAssumption DEF ReleasesAssumption, SwitchInv, SwitchTypeOK, FilesOK, Versions
<1>3. PointerKept /\ executable' \in Versions /\ overtaken' \in BOOLEAN
  <2>1. CASE UNCHANGED <<executable, overtaken>> BY <1>2, <2>1 DEF PointerKept
  <2>2. CASE SavePointer
    <3>1. starter.exe \in Versions BY <1>2
    <3>2. executable' = starter.exe /\ overtaken' = (overtaken \/ executable # starter.exe)
      BY <2>2 DEF SavePointer
    <3>3. QED BY <3>1, <3>2 DEF PointerKept
  <2>3. QED BY <2>1, <2>2 DEF StartService, UserStarts, StartGoesOn, LookAtPort, AwaitHealth,
        FinishStart, KeepPointer
<1>4. starter' \in [at : {"none", "read", "waiting", "healthy", "failing"},
                   exe : Versions, package : Versions]
  <2>1. CASE BeginStart BY <1>2, <2>1 DEF BeginStart
  <2>2. CASE StarterEnds BY <1>2, <2>2 DEF StarterEnds, NoStart
  <2>3. ASSUME NEW at \in {"waiting", "healthy", "failing"}, StarterMoves(at)
        PROVE  starter' \in [at : {"none", "read", "waiting", "healthy", "failing"},
                            exe : Versions, package : Versions]
    BY <1>2, <2>3 DEF StarterMoves
  <2>4. QED BY <2>1, <2>2, <2>3 DEF StartService, UserStarts, StartGoesOn, LookAtPort,
        AwaitHealth, FinishStart
<1>5. serving' \in 0..Releases
  <2>1. starter.exe \in 0..Releases BY <1>2
  <2>2. serving' \in {serving, 0, starter.exe}
    BY DEF StartService, UserStarts, StartGoesOn, LookAtPort, AwaitHealth, FinishStart,
           Launch, KillOwn, Kill
  <2>3. QED BY <1>2, <2>1, <2>2
<1>6. FilesOK' BY <1>1, <1>2, <1>3, <1>4, <1>5 DEF FilesOK
<1>7. PanelOK'
  <2>1. PanelOK BY DEF SwitchInv, SwitchTypeOK
  <2>2. CASE StartService \/ UserStarts BY <2>1, <2>2 DEF StartService, UserStarts, PanelOK
  <2>3. CASE StarterEnds BY <2>1, <2>3 DEF StarterEnds, PanelOK
  <2>4. CASE UNCHANGED panelVars BY <2>4, PanelStays DEF SwitchInv
  <2>5. QED BY <2>2, <2>3, <2>4 DEF StartService, UserStarts, StartGoesOn, LookAtPort, AwaitHealth,
        FinishStart, StarterMoves
<1>8. RecordsOK' /\ faults' \in 0..Faults BY <1>1, RecordsKept, FaultsCount DEF SwitchInv
<1>9. ScriptOK' BY <1>1, <1>8 DEF SwitchInv, SwitchTypeOK, ScriptOK, scriptVars
<1>10. Candidate'
  BY <1>1, <1>3 DEF SwitchInv, Candidate, PointerKept, recordVars, scriptVars
<1>11. QED BY <1>1, <1>3, <1>6, <1>7, <1>8, <1>9, <1>10, KeptInstalled DEF recordVars, scriptVars

(* How a script ends: with the lock it gives up who it was, and the       *)
(* control centre is where it was or starts.                               *)
LEMMA Ended ==
    ASSUME SwitchTypeOK, NEW restored, ScriptEnds(restored)
    PROVE  /\ PanelOK' /\ script' = "none" /\ by' = "none"
           /\ wasRunning' = FALSE /\ oldServer' = 0 /\ keep' = FALSE
<1>1. /\ script' = "none" /\ by' = "none" /\ wasRunning' = FALSE /\ oldServer' = 0
      /\ keep' = FALSE
  BY DEF ScriptEnds
<1>2. UNCHANGED panelVars \/ StartPanel(~keep) \/ StartPanel(journal.wasRunning)
  BY DEF ScriptEnds
<1>3. PanelOK'
  <2>1. CASE UNCHANGED panelVars BY <2>1, PanelStays
  <2>2. CASE StartPanel(~keep)
    BY <2>2, PanelCalled DEF SwitchTypeOK, ScriptOK
  <2>3. CASE StartPanel(journal.wasRunning)
    <3>1. journal.wasRunning \in BOOLEAN BY DEF SwitchTypeOK, RecordsOK
    <3>2. QED BY <2>3, <3>1, PanelCalled
  <2>4. QED BY <1>2, <2>1, <2>2, <2>3
<1>4. QED BY <1>1, <1>3

(* The steps that write prepared.json and state.json, and those that begin *)
(* and end a script.                                                       *)
LEMMA RecordersKeep ==
    ASSUME SwitchInv,
           \/ RecoverInstallation \/ Reconcile \/ PrepareUpdate \/ UpdatePrepared
           \/ Announce \/ SpawnFails \/ UserInstalls \/ EnterRuntimeOperation
           \/ ScriptIsKilled
    PROVE  SwitchInv'
<1>1. CASE RecoverInstallation
  <2>1. /\ UNCHANGED <<fileVars, journal>> /\ serving' \in {serving, 0, executable}
        /\ \/ script' = script
           \/ ~Settled /\ script' = "restoring"
    BY <1>1 DEF RecoverInstallation, recordVars, scriptVars, switchVars
  <2>2. RecordsOK'
    BY <1>1, RecordsKept DEF RecoverInstallation, SwitchInv, recordVars, switchVars
  <2>3. PanelOK'
    BY <1>1 DEF RecoverInstallation, SwitchInv, SwitchTypeOK, PanelOK, panelVars, switchVars
  <2>4. ScriptOK'
    <3>1. faults' \in 0..Faults
      BY <1>1, FaultsCount DEF RecoverInstallation, SwitchInv
    <3>2. ScriptTyped'
      BY <1>1 DEF ScriptTyped, RecoverInstallation, SwitchInv, SwitchTypeOK, ScriptOK, scriptVars
    <3>3. QED BY <3>1, <3>2 DEF ScriptOK, ScriptTyped
  <2>5. Candidate'
    BY <1>1 DEF RecoverInstallation, SwitchInv, SwitchTypeOK, Candidate, fileVars, recordVars,
       scriptVars
  <2>6. QED BY <2>1, <2>2, <2>3, <2>4, <2>5, Moved DEF Undone, Copied, Pointed, Checking,
         CopiedBack, MarkedBack, PointedBack
<1>2. CASE Reconcile
  <2>1. /\ UNCHANGED <<fileVars, journal>> /\ serving' \in {serving, 0, executable}
        /\ script' = script
    BY <1>2 DEF Reconcile, recordVars, scriptVars, switchVars
  <2>2. RecordsOK'
    BY <1>2 DEF Reconcile, Reconciled, SwitchInv, SwitchTypeOK, RecordsOK, FilesOK, PanelOK,
       recordVars
  <2>3. PanelOK'
    BY <1>2 DEF Reconcile, SwitchInv, SwitchTypeOK, PanelOK, panelVars, switchVars
  <2>4. ScriptOK'
    <3>1. faults' \in 0..Faults
      BY <1>2, FaultsCount DEF Reconcile, SwitchInv
    <3>2. ScriptTyped'
      BY <1>2 DEF ScriptTyped, Reconcile, SwitchInv, SwitchTypeOK, ScriptOK, scriptVars
    <3>3. QED BY <3>1, <3>2 DEF ScriptOK, ScriptTyped
  <2>5. Candidate'
    BY <1>2 DEF Reconcile, SwitchInv, SwitchTypeOK, Candidate, fileVars, recordVars, scriptVars
  <2>6. QED BY <2>1, <2>2, <2>3, <2>4, <2>5, Moved
<1>3. CASE PrepareUpdate
  <2>1. /\ UNCHANGED <<fileVars, journal>> /\ serving' \in {serving, 0, executable}
        /\ script' = script
    BY <1>3 DEF PrepareUpdate, recordVars, scriptVars, switchVars
  <2>2. RecordsOK'
    BY <1>3 DEF PrepareUpdate, SwitchInv, SwitchTypeOK, RecordsOK, FilesOK, PanelOK, recordVars
  <2>3. PanelOK'
    BY <1>3 DEF PrepareUpdate, SwitchInv, SwitchTypeOK, PanelOK, panelVars, switchVars
  <2>4. ScriptOK'
    <3>1. faults' \in 0..Faults
      BY <1>3, FaultsCount DEF PrepareUpdate, SwitchInv
    <3>2. ScriptTyped'
      BY <1>3 DEF ScriptTyped, PrepareUpdate, SwitchInv, SwitchTypeOK, ScriptOK, scriptVars
    <3>3. QED BY <3>1, <3>2 DEF ScriptOK, ScriptTyped
  <2>5. Candidate'
    BY <1>3 DEF PrepareUpdate, SwitchInv, SwitchTypeOK, Candidate, fileVars, recordVars, scriptVars
  <2>6. QED BY <2>1, <2>2, <2>3, <2>4, <2>5, Moved
<1>4. CASE UpdatePrepared
  <2>1. /\ UNCHANGED <<fileVars, journal>> /\ serving' \in {serving, 0, executable}
        /\ script' = script
    BY <1>4 DEF UpdatePrepared, recordVars, scriptVars, switchVars
  <2>2. RecordsOK'
    BY <1>4 DEF UpdatePrepared, Versions, SwitchInv, SwitchTypeOK, RecordsOK, FilesOK, PanelOK,
       recordVars
  <2>3. PanelOK'
    BY <1>4 DEF UpdatePrepared, SwitchInv, SwitchTypeOK, PanelOK, panelVars, switchVars
  <2>4. ScriptOK'
    <3>1. faults' \in 0..Faults
      BY <1>4, ReleasesAssumption
      DEF ReleasesAssumption, UpdatePrepared, SwitchInv, SwitchTypeOK, ScriptOK
    <3>2. ScriptTyped'
      BY <1>4 DEF ScriptTyped, UpdatePrepared, SwitchInv, SwitchTypeOK, ScriptOK, scriptVars
    <3>3. QED BY <3>1, <3>2 DEF ScriptOK, ScriptTyped
  <2>5. Candidate'
    BY <1>4 DEF UpdatePrepared, SwitchInv, SwitchTypeOK, Candidate, fileVars, recordVars, scriptVars
  <2>6. QED BY <2>1, <2>2, <2>3, <2>4, <2>5, Moved
<1>5. CASE Announce
  <2>1. /\ UNCHANGED <<fileVars, journal>> /\ serving' \in {serving, 0, executable}
        /\ script' = script
    BY <1>5 DEF Announce, recordVars, scriptVars, switchVars
  <2>2. RecordsOK'
    BY <1>5 DEF Announce, SwitchInv, SwitchTypeOK, RecordsOK, FilesOK, PanelOK, recordVars
  <2>3. PanelOK'
    BY <1>5 DEF Announce, SwitchInv, SwitchTypeOK, PanelOK, panelVars, switchVars
  <2>4. ScriptOK'
    <3>1. faults' \in 0..Faults
      BY <1>5, FaultsCount DEF Announce, SwitchInv
    <3>2. ScriptTyped'
      BY <1>5 DEF ScriptTyped, Announce, SwitchInv, SwitchTypeOK, ScriptOK, scriptVars
    <3>3. QED BY <3>1, <3>2 DEF ScriptOK, ScriptTyped
  <2>5. Candidate'
    BY <1>5 DEF Announce, SwitchInv, SwitchTypeOK, Candidate, fileVars, recordVars, scriptVars
  <2>6. QED BY <2>1, <2>2, <2>3, <2>4, <2>5, Moved
<1>6. CASE SpawnFails
  <2>1. /\ UNCHANGED <<fileVars, journal>> /\ serving' \in {serving, 0, executable}
        /\ script' = script
    BY <1>6 DEF SpawnFails, recordVars, scriptVars, switchVars
  <2>2. RecordsOK'
    BY <1>6 DEF SpawnFails, SwitchInv, SwitchTypeOK, RecordsOK, FilesOK, PanelOK, recordVars
  <2>3. PanelOK'
    BY <1>6 DEF SpawnFails, SwitchInv, SwitchTypeOK, PanelOK, panelVars, switchVars
  <2>4. ScriptOK'
    <3>1. faults' \in 0..Faults
      BY <1>6, FaultsCount DEF SpawnFails, SwitchInv
    <3>2. ScriptTyped'
      BY <1>6 DEF ScriptTyped, SpawnFails, SwitchInv, SwitchTypeOK, ScriptOK, scriptVars
    <3>3. QED BY <3>1, <3>2 DEF ScriptOK, ScriptTyped
  <2>5. Candidate'
    BY <1>6 DEF SpawnFails, SwitchInv, SwitchTypeOK, Candidate, fileVars, recordVars, scriptVars
  <2>6. QED BY <2>1, <2>2, <2>3, <2>4, <2>5, Moved
<1>7. CASE UserInstalls
  <2>1. /\ UNCHANGED <<fileVars, journal>> /\ serving' \in {serving, 0, executable}
        /\ script' = "entered"
    BY <1>7 DEF UserInstalls, recordVars, scriptVars, switchVars
  <2>2. RecordsOK'
    BY <1>7, ReleasesAssumption DEF ReleasesAssumption, UserInstalls, Versions, SwitchInv,
       SwitchTypeOK, RecordsOK, FilesOK, PanelOK, recordVars
  <2>3. PanelOK'
    BY <1>7 DEF UserInstalls, SwitchInv, SwitchTypeOK, PanelOK, panelVars, switchVars
  <2>4. ScriptOK'
    <3>1. faults' \in 0..Faults
      BY <1>7, FaultsCount DEF UserInstalls, SwitchInv
    <3>2. ScriptTyped'
      BY <1>7 DEF ScriptTyped, UserInstalls, SwitchInv, SwitchTypeOK, ScriptOK, scriptVars
    <3>3. QED BY <3>1, <3>2 DEF ScriptOK, ScriptTyped
  <2>5. Candidate'
    BY <1>7 DEF UserInstalls, SwitchInv, SwitchTypeOK, Candidate, fileVars, recordVars, scriptVars
  <2>6. QED BY <2>1, <2>2, <2>3, <2>4, <2>5, Moved DEF Undone, Copied, Pointed, Checking,
         CopiedBack, MarkedBack, PointedBack
<1>8. CASE EnterRuntimeOperation
  <2>1. /\ UNCHANGED <<fileVars, journal>> /\ serving' \in {serving, 0, executable}
        /\ script' = "entered"
    BY <1>8 DEF EnterRuntimeOperation, recordVars, scriptVars, switchVars
  <2>2. RecordsOK'
    BY <1>8, RecordsKept DEF EnterRuntimeOperation, SwitchInv, recordVars, switchVars
  <2>3. PanelOK'
    BY <1>8 DEF EnterRuntimeOperation, SwitchInv, SwitchTypeOK, PanelOK, panelVars, switchVars
  <2>4. ScriptOK'
    <3>1. faults' \in 0..Faults
      BY <1>8, FaultsCount DEF EnterRuntimeOperation, SwitchInv
    <3>2. ScriptTyped'
      BY <1>8 DEF ScriptTyped, EnterRuntimeOperation, SwitchInv, SwitchTypeOK, ScriptOK, scriptVars
    <3>3. QED BY <3>1, <3>2 DEF ScriptOK, ScriptTyped
  <2>5. Candidate'
    BY <1>8 DEF EnterRuntimeOperation, SwitchInv, SwitchTypeOK, Candidate, fileVars,
       recordVars, scriptVars
  <2>6. QED BY <2>1, <2>2, <2>3, <2>4, <2>5, Moved DEF Undone, Copied, Pointed, Checking,
         CopiedBack, MarkedBack, PointedBack
<1>9. CASE ScriptIsKilled
  <2>1. /\ UNCHANGED <<fileVars, journal>> /\ serving' \in {serving, 0, executable}
        /\ script' = "none"
    BY <1>9 DEF ScriptIsKilled, recordVars, scriptVars, switchVars
  <2>2. RecordsOK'
    BY <1>9, RecordsKept DEF ScriptIsKilled, SwitchInv, recordVars, switchVars
  <2>3. PanelOK'
    BY <1>9 DEF ScriptIsKilled, SwitchInv, SwitchTypeOK, PanelOK, panelVars, switchVars
  <2>4. ScriptOK'
    <3>1. faults' \in 0..Faults
      BY <1>9, FaultsCount DEF ScriptIsKilled, SwitchInv
    <3>2. ScriptTyped'
      BY <1>9, ScriptGone DEF ScriptIsKilled
    <3>3. QED BY <3>1, <3>2 DEF ScriptOK, ScriptTyped
  <2>5. Candidate'
    BY <1>9 DEF ScriptIsKilled, SwitchInv, SwitchTypeOK, Candidate, fileVars, recordVars, scriptVars
  <2>6. QED BY <2>1, <2>2, <2>3, <2>4, <2>5, Moved DEF Undone, Copied, Pointed, Checking,
         CopiedBack, MarkedBack, PointedBack
<1>10. QED BY <1>1, <1>2, <1>3, <1>4, <1>5, <1>6, <1>7, <1>8, <1>9

(* A step with which the script ends and nothing is written. *)
LEMMA EndedQuietly ==
    ASSUME SwitchInv, NEW restored, ScriptEnds(restored),
           UNCHANGED <<fileVars, recordVars>>, serving' \in {serving, 0},
           Fault \/ UNCHANGED faults
    PROVE  SwitchInv'
<1>1. /\ PanelOK' /\ script' = "none" /\ by' = "none"
      /\ wasRunning' = FALSE /\ oldServer' = 0 /\ keep' = FALSE
  BY Ended DEF SwitchInv
<1>2. RecordsOK' /\ faults' \in 0..Faults
  BY RecordsKept, FaultsCount DEF SwitchInv
<1>3. ScriptTyped' BY <1>1, ScriptGone
<1>4. ScriptOK' BY <1>2, <1>3 DEF ScriptOK, ScriptTyped
<1>5. Candidate' BY <1>1 DEF Candidate
<1>6. QED BY <1>1, <1>2, <1>4, <1>5, Moved DEF recordVars, Undone, Copied, Pointed,
         Checking, CopiedBack, MarkedBack, PointedBack

(* The steps of the script that change neither bin, version nor journal. *)
LEMMA ScriptKeeps ==
    ASSUME SwitchInv, up \in BOOLEAN,
           \/ RequestHold \/ StopOld \/ StopPanel \/ StartCandidate
           \/ CandidateHealthy \/ StopAgain \/ SaveState \/ Finish \/ ApplyFails
           \/ RestoreFails \/ StopCandidate \/ RestartOld \/ OldHealthy
    PROVE  SwitchInv'
<1>1. CASE RequestHold
  <2>1. CASE ScriptEnds(FALSE)
    <3>1. UNCHANGED <<serving, fileVars, recordVars>> /\ (Fault \/ UNCHANGED faults)
      BY <1>1, <2>1 DEF RequestHold, ScriptEnds, recordVars
    <3>2. QED BY <2>1, <3>1, EndedQuietly
  <2>2. CASE /\ script' = "held" /\ Settled /\ prepared # 0
             /\ wasRunning' = up /\ oldServer' = executable
             /\ UNCHANGED <<serving, fileVars, recordVars, panelVars, by, keep, faults>>
    <3>1. /\ UNCHANGED <<fileVars, journal>> /\ serving' \in {serving, 0, executable}
          /\ script' = "held"
      BY <1>1, <2>2 DEF RequestHold, SwitchInv, Journalled, Undone, Copied, Pointed,
          Checking, CopiedBack, MarkedBack, PointedBack, recordVars, scriptVars, switchVars
    <3>2. RecordsOK'
      BY <1>1, <2>2, RecordsKept DEF RequestHold, SwitchInv, recordVars, switchVars
    <3>3. PanelOK'
      BY <1>1, <2>2 DEF RequestHold, SwitchInv, SwitchTypeOK, PanelOK, panelVars, switchVars
    <3>4. ScriptOK'
      <4>1. faults' \in 0..Faults
        BY <1>1, <2>2, FaultsCount DEF RequestHold, SwitchInv
      <4>2. ScriptTyped'
        <5>1. executable \in 0..Releases
          BY ReleasesAssumption DEF ReleasesAssumption, SwitchInv, SwitchTypeOK, FilesOK, Versions
        <5>2. QED BY <2>2, <5>1 DEF ScriptTyped, SwitchInv, SwitchTypeOK, ScriptOK
      <4>3. QED BY <4>1, <4>2 DEF ScriptOK, ScriptTyped
    <3>5. Candidate'
      <4>1. executable # 0 /\ (~overtaken => executable = version)
        BY <2>2 DEF SwitchInv, SwitchTypeOK, FilesOK, OldOrNew, Versions
      <4>2. QED BY <2>2, <4>1 DEF Candidate, fileVars, recordVars
    <3>6. QED BY <3>1, <3>2, <3>3, <3>4, <3>5, Moved DEF Undone, Copied, Pointed, Checking,
           CopiedBack, MarkedBack, PointedBack
  <2>3. QED BY <1>1, <2>1, <2>2 DEF RequestHold
<1>2. CASE StopOld
  <2>1. /\ UNCHANGED <<fileVars, journal>> /\ serving' \in {serving, 0, executable}
        /\ ~Settled /\ script' \in {"stopped", "restoring"}
    BY <1>2 DEF StopOld, SwitchInv, Journalled, Undone, Copied, Pointed,
        Checking, CopiedBack, MarkedBack, PointedBack, recordVars, scriptVars, switchVars
  <2>2. RecordsOK'
    BY <1>2, RecordsKept DEF StopOld, SwitchInv, recordVars, switchVars
  <2>3. PanelOK'
    BY <1>2 DEF StopOld, SwitchInv, SwitchTypeOK, PanelOK, panelVars, switchVars
  <2>4. ScriptOK'
    <3>1. faults' \in 0..Faults
      BY <1>2, FaultsCount DEF StopOld, SwitchInv
    <3>2. ScriptTyped'
      BY <1>2 DEF ScriptTyped, StopOld, SwitchInv, SwitchTypeOK, ScriptOK, scriptVars
    <3>3. QED BY <3>1, <3>2 DEF ScriptOK, ScriptTyped
  <2>5. Candidate'
    BY <1>2 DEF StopOld, SwitchInv, SwitchTypeOK, Candidate, fileVars, recordVars, scriptVars
  <2>6. QED BY <2>1, <2>2, <2>3, <2>4, <2>5, Moved DEF Undone, Copied, Pointed, Checking,
         CopiedBack, MarkedBack, PointedBack
<1>3. CASE StopPanel
  <2>1. /\ UNCHANGED <<fileVars, journal>> /\ serving' \in {serving, 0, executable}
        /\ ~Settled /\ script' \in {"alone", "restoringAlone"}
    BY <1>3 DEF StopPanel, SwitchInv, Journalled, Undone, Copied, Pointed,
        Checking, CopiedBack, MarkedBack, PointedBack, recordVars, scriptVars, switchVars
  <2>2. RecordsOK'
    BY <1>3, RecordsKept DEF StopPanel, SwitchInv, recordVars, switchVars
  <2>3. PanelOK'
    BY <1>3, PanelGone DEF StopPanel
  <2>4. ScriptOK'
    BY <1>3 DEF StopPanel, SwitchInv, SwitchTypeOK, ScriptOK
  <2>5. Candidate'
    BY <1>3 DEF StopPanel, SwitchInv, SwitchTypeOK, Candidate, fileVars, recordVars, scriptVars
  <2>6. QED BY <2>1, <2>2, <2>3, <2>4, <2>5, Moved DEF Undone, Copied, Pointed, Checking,
         CopiedBack, MarkedBack, PointedBack
<1>4. CASE StartCandidate
  <2>1. /\ UNCHANGED <<fileVars, journal>> /\ serving' \in {serving, 0, executable}
        /\ \/ script = "marked" /\ script' = "launched"
           \/ ~Settled /\ script' = "restoring"
    BY <1>4 DEF StartCandidate, Launch, SwitchInv, Journalled, Undone, Copied, Pointed,
        Checking, CopiedBack, MarkedBack, PointedBack, recordVars, scriptVars, switchVars
  <2>2. RecordsOK'
    BY <1>4, RecordsKept DEF StartCandidate, Launch, SwitchInv, recordVars, switchVars
  <2>3. PanelOK'
    BY <1>4 DEF StartCandidate, Launch, SwitchInv, SwitchTypeOK, PanelOK, panelVars, switchVars
  <2>4. ScriptOK'
    <3>1. faults' \in 0..Faults
      BY <1>4, FaultsCount DEF StartCandidate, SwitchInv
    <3>2. ScriptTyped'
      BY <1>4 DEF ScriptTyped, StartCandidate, SwitchInv, SwitchTypeOK, ScriptOK, scriptVars
    <3>3. QED BY <3>1, <3>2 DEF ScriptOK, ScriptTyped
  <2>5. Candidate'
    BY <1>4 DEF StartCandidate, Launch, SwitchInv, SwitchTypeOK, Candidate, fileVars,
       recordVars, scriptVars
  <2>6. QED BY <2>1, <2>2, <2>3, <2>4, <2>5, Moved DEF Undone, Copied, Pointed, Checking,
         CopiedBack, MarkedBack, PointedBack
<1>5. CASE CandidateHealthy
  <2>1. /\ UNCHANGED <<bin, version, starter, overtaken, recordVars, panelVars, by, wasRunning,
                        oldServer, keep>>
        /\ serving' \in {serving, 0} /\ (Fault \/ UNCHANGED faults)
        /\ script = "launched" /\ ~Settled
        /\ \/ script' \in {"healthy", "checked"} /\ executable' = journal.new
           \/ script' = "restoring" /\ executable' = executable
    BY <1>5 DEF CandidateHealthy, Kill, SwitchInv, Journalled, Undone, Copied, Pointed, Checking
  <2>2. PointerKept
    BY <2>1 DEF PointerKept, SwitchInv, Forward, Pointed, Checking
  <2>3. RecordsOK' BY <2>1, RecordsKept DEF SwitchInv
  <2>4. FilesOK'
    BY <2>1, ReleasesAssumption
    DEF ReleasesAssumption, SwitchInv, SwitchTypeOK, FilesOK, RecordsOK
  <2>5. PanelOK' BY <2>1, PanelStays DEF SwitchInv
  <2>6. ScriptOK' BY <2>1, FaultsCount DEF SwitchInv, SwitchTypeOK, ScriptOK
  <2>7. Candidate' BY <2>1 DEF Candidate
  <2>8. QED BY <2>1, <2>2, <2>3, <2>4, <2>5, <2>6, <2>7, KeptInstalled DEF recordVars, Undone,
        Copied, Pointed, Checking, CopiedBack, MarkedBack, PointedBack
<1>6. CASE StopAgain
  <2>1. /\ UNCHANGED <<fileVars, journal>> /\ serving' \in {serving, 0, executable}
        /\ \/ script = "healthy" /\ script' = "checked"
           \/ ~Settled /\ script' = "restoring"
    BY <1>6 DEF StopAgain, Kill, SwitchInv, Journalled, Undone, Copied, Pointed,
        Checking, CopiedBack, MarkedBack, PointedBack, recordVars, scriptVars, switchVars
  <2>2. RecordsOK'
    BY <1>6, RecordsKept DEF StopAgain, Kill, SwitchInv, recordVars, switchVars
  <2>3. PanelOK'
    BY <1>6 DEF StopAgain, Kill, SwitchInv, SwitchTypeOK, PanelOK, panelVars, switchVars
  <2>4. ScriptOK'
    <3>1. faults' \in 0..Faults
      BY <1>6, FaultsCount DEF StopAgain, SwitchInv
    <3>2. ScriptTyped'
      BY <1>6 DEF ScriptTyped, StopAgain, SwitchInv, SwitchTypeOK, ScriptOK, scriptVars
    <3>3. QED BY <3>1, <3>2 DEF ScriptOK, ScriptTyped
  <2>5. Candidate'
    BY <1>6 DEF StopAgain, Kill, SwitchInv, SwitchTypeOK, Candidate, fileVars, recordVars,
       scriptVars
  <2>6. QED BY <2>1, <2>2, <2>3, <2>4, <2>5, Moved DEF Undone, Copied, Pointed, Checking,
         CopiedBack, MarkedBack, PointedBack
<1>7. CASE SaveState
  <2>1. /\ UNCHANGED <<fileVars, journal>> /\ serving' \in {serving, 0, executable}
        /\ script' \in {"saved", "savedBack"}
    BY <1>7 DEF SaveState, SwitchInv, Journalled, Undone, Copied, Pointed,
        Checking, CopiedBack, MarkedBack, PointedBack, recordVars, scriptVars, switchVars
  <2>2. RecordsOK'
    BY <1>7 DEF SaveState, SwitchInv, SwitchTypeOK, RecordsOK, FilesOK, PanelOK, recordVars
  <2>3. PanelOK'
    BY <1>7 DEF SaveState, SwitchInv, SwitchTypeOK, PanelOK, panelVars, switchVars
  <2>4. ScriptOK'
    <3>1. faults' \in 0..Faults
      BY <1>7, FaultsCount DEF SaveState, SwitchInv
    <3>2. ScriptTyped'
      BY <1>7 DEF ScriptTyped, SaveState, SwitchInv, SwitchTypeOK, ScriptOK, scriptVars
    <3>3. QED BY <3>1, <3>2 DEF ScriptOK, ScriptTyped
  <2>5. Candidate'
    BY <1>7 DEF SaveState, SwitchInv, SwitchTypeOK, Candidate, fileVars, recordVars, scriptVars
  <2>6. QED BY <2>1, <2>2, <2>3, <2>4, <2>5, Moved DEF Undone, Copied, Pointed, Checking,
         CopiedBack, MarkedBack, PointedBack
<1>8. CASE Finish
  <2>1. /\ UNCHANGED <<fileVars, journal>> /\ serving' \in {serving, 0, executable}
        /\ script' = "none"
    BY <1>8, Ended DEF Finish, SwitchInv, Journalled, Undone, Copied, Pointed,
        Checking, CopiedBack, MarkedBack, PointedBack, recordVars, scriptVars, switchVars
  <2>2. RecordsOK'
    BY <1>8, ReleasesAssumption DEF ReleasesAssumption, Finish, SwitchInv, SwitchTypeOK,
       RecordsOK, FilesOK, PanelOK, recordVars
  <2>3. PanelOK'
    BY <1>8, Ended DEF Finish, SwitchInv, SwitchTypeOK, PanelOK, panelVars
  <2>4. ScriptOK'
    <3>1. faults' \in 0..Faults
      BY <1>8, FaultsCount DEF Finish, SwitchInv
    <3>2. ScriptTyped'
      BY <1>8, Ended, ScriptGone DEF Finish, SwitchInv
    <3>3. QED BY <3>1, <3>2 DEF ScriptOK, ScriptTyped
  <2>5. Candidate'
    BY <1>8, Ended DEF Finish, SwitchInv, SwitchTypeOK, Candidate, fileVars, recordVars, scriptVars
  <2>6. QED BY <2>1, <2>2, <2>3, <2>4, <2>5, Moved DEF Undone, Copied, Pointed, Checking,
         CopiedBack, MarkedBack, PointedBack
<1>9. CASE ApplyFails
  <2>1. /\ UNCHANGED <<fileVars, journal>> /\ serving' \in {serving, 0, executable}
        /\ ~Settled /\ script' = "restoring"
    BY <1>9 DEF ApplyFails, SwitchInv, Journalled, Undone, Copied, Pointed,
        Checking, CopiedBack, MarkedBack, PointedBack, recordVars, scriptVars, switchVars
  <2>2. RecordsOK'
    BY <1>9, RecordsKept DEF ApplyFails, SwitchInv, recordVars, switchVars
  <2>3. PanelOK'
    BY <1>9 DEF ApplyFails, SwitchInv, SwitchTypeOK, PanelOK, panelVars, switchVars
  <2>4. ScriptOK'
    <3>1. faults' \in 0..Faults
      BY <1>9, FaultsCount DEF ApplyFails, SwitchInv
    <3>2. ScriptTyped'
      BY <1>9 DEF ScriptTyped, ApplyFails, SwitchInv, SwitchTypeOK, ScriptOK, scriptVars
    <3>3. QED BY <3>1, <3>2 DEF ScriptOK, ScriptTyped
  <2>5. Candidate'
    BY <1>9 DEF ApplyFails, SwitchInv, SwitchTypeOK, Candidate, fileVars, recordVars, scriptVars
  <2>6. QED BY <2>1, <2>2, <2>3, <2>4, <2>5, Moved DEF Undone, Copied, Pointed, Checking,
         CopiedBack, MarkedBack, PointedBack
<1>10. CASE RestoreFails
  <2>1. CASE ScriptEnds(FALSE)
    <3>1. UNCHANGED <<serving, fileVars, recordVars>> /\ (Fault \/ UNCHANGED faults)
      BY <1>10, <2>1 DEF RestoreFails, ScriptEnds, recordVars
    <3>2. QED BY <2>1, <3>1, EndedQuietly
  <2>2. CASE /\ script' = "none" /\ by' = "none" /\ wasRunning' = FALSE /\ oldServer' = 0
             /\ keep' = FALSE /\ panel' = "stranded" /\ UNCHANGED <<panelVersion, willStart>>
    <3>1. /\ UNCHANGED <<fileVars, journal>> /\ serving' \in {serving, 0, executable}
          /\ script' = "none"
      BY <1>10, <2>2 DEF RestoreFails, SwitchInv, Journalled, Undone, Copied, Pointed,
          Checking, CopiedBack, MarkedBack, PointedBack, recordVars, scriptVars, switchVars
    <3>2. RecordsOK'
      BY <1>10, <2>2, RecordsKept DEF RestoreFails, SwitchInv, recordVars, switchVars
    <3>3. PanelOK'
      BY <1>10, <2>2 DEF RestoreFails, SwitchInv, SwitchTypeOK, PanelOK, panelVars, switchVars
    <3>4. ScriptOK'
      <4>1. faults' \in 0..Faults
        BY <1>10, <2>2, FaultsCount DEF RestoreFails, SwitchInv
      <4>2. ScriptTyped'
        BY <2>2, ScriptGone
      <4>3. QED BY <4>1, <4>2 DEF ScriptOK, ScriptTyped
    <3>5. Candidate'
      BY <1>10, <2>2 DEF RestoreFails, SwitchInv, SwitchTypeOK, Candidate, fileVars,
         recordVars, scriptVars
    <3>6. QED BY <3>1, <3>2, <3>3, <3>4, <3>5, Moved DEF Undone, Copied, Pointed, Checking,
           CopiedBack, MarkedBack, PointedBack
  <2>3. QED BY <1>10, <2>1, <2>2 DEF RestoreFails
<1>11. CASE StopCandidate
  <2>1. /\ UNCHANGED <<fileVars, journal>> /\ serving' \in {serving, 0, executable}
        /\ ~Settled /\ script' = "restoringStopped"
    BY <1>11 DEF StopCandidate, Kill, SwitchInv, Journalled, Undone, Copied, Pointed,
        Checking, CopiedBack, MarkedBack, PointedBack, recordVars, scriptVars, switchVars
  <2>2. RecordsOK'
    BY <1>11, RecordsKept DEF StopCandidate, Kill, SwitchInv, recordVars, switchVars
  <2>3. PanelOK'
    BY <1>11 DEF StopCandidate, Kill, SwitchInv, SwitchTypeOK, PanelOK, panelVars, switchVars
  <2>4. ScriptOK'
    <3>1. faults' \in 0..Faults
      BY <1>11, FaultsCount DEF StopCandidate, SwitchInv
    <3>2. ScriptTyped'
      BY <1>11 DEF ScriptTyped, StopCandidate, SwitchInv, SwitchTypeOK, ScriptOK, scriptVars
    <3>3. QED BY <3>1, <3>2 DEF ScriptOK, ScriptTyped
  <2>5. Candidate'
    BY <1>11 DEF StopCandidate, Kill, SwitchInv, SwitchTypeOK, Candidate, fileVars, recordVars,
       scriptVars
  <2>6. QED BY <2>1, <2>2, <2>3, <2>4, <2>5, Moved DEF Undone, Copied, Pointed, Checking,
         CopiedBack, MarkedBack, PointedBack
<1>12. CASE RestartOld
  <2>1. CASE ScriptEnds(FALSE)
    <3>1. UNCHANGED <<serving, fileVars, recordVars>> /\ (Fault \/ UNCHANGED faults)
      BY <1>12, <2>1 DEF RestartOld, Launch, ScriptEnds, recordVars
    <3>2. QED BY <2>1, <3>1, EndedQuietly
  <2>2. CASE /\ script = "restored" /\ script' \in {"restarting", "restarted"}
             /\ UNCHANGED <<fileVars, recordVars, panelVars, by, wasRunning, oldServer,
                            keep, faults>>
    <3>1. /\ UNCHANGED <<fileVars, journal>> /\ serving' \in {serving, 0, executable}
          /\ script = "restored" /\ script' \in {"restarting", "restarted"}
      BY <1>12, <2>2 DEF RestartOld, Launch, SwitchInv, Journalled, Undone, Copied, Pointed,
          Checking, CopiedBack, MarkedBack, PointedBack, recordVars, scriptVars, switchVars
    <3>2. RecordsOK'
      BY <1>12, <2>2, RecordsKept DEF RestartOld, Launch, SwitchInv, recordVars, switchVars
    <3>3. PanelOK'
      BY <1>12, <2>2 DEF RestartOld, Launch, SwitchInv, SwitchTypeOK, PanelOK, panelVars, switchVars
    <3>4. ScriptOK'
      <4>1. faults' \in 0..Faults
        BY <1>12, <2>2, FaultsCount DEF RestartOld, SwitchInv
      <4>2. ScriptTyped'
        BY <1>12, <2>2 DEF ScriptTyped, RestartOld, SwitchInv, SwitchTypeOK, ScriptOK, scriptVars
      <4>3. QED BY <4>1, <4>2 DEF ScriptOK, ScriptTyped
    <3>5. Candidate'
      BY <1>12, <2>2 DEF RestartOld, Launch, SwitchInv, SwitchTypeOK, Candidate, fileVars,
         recordVars, scriptVars
    <3>6. QED BY <3>1, <3>2, <3>3, <3>4, <3>5, Moved DEF Undone, Copied, Pointed, Checking,
           CopiedBack, MarkedBack, PointedBack
  <2>3. QED BY <1>12, <2>1, <2>2 DEF RestartOld
<1>13. CASE OldHealthy
  <2>1. CASE ScriptEnds(FALSE)
    <3>1. /\ UNCHANGED <<fileVars, recordVars>> /\ serving' \in {serving, 0}
          /\ (Fault \/ UNCHANGED faults)
      BY <1>13, <2>1 DEF OldHealthy, ScriptEnds, Kill, fileVars
    <3>2. QED BY <2>1, <3>1, EndedQuietly
  <2>2. CASE /\ script' = "restarted" /\ executable' = journal.old
             /\ UNCHANGED <<serving, panelVars, by, wasRunning, oldServer, keep, faults>>
    <3>1. /\ UNCHANGED <<bin, version, starter, overtaken, recordVars>>
          /\ script = "restarting"
      BY <1>13 DEF OldHealthy
    <3>2. PointerKept
      BY <2>2, <3>1 DEF PointerKept, SwitchInv, Backward, PointedBack
    <3>3. RecordsOK' BY <3>1, RecordsKept DEF SwitchInv
    <3>4. FilesOK' BY <2>2, <3>1 DEF SwitchInv, SwitchTypeOK, FilesOK, RecordsOK
    <3>5. PanelOK' BY <2>2, PanelStays DEF SwitchInv
    <3>6. ScriptOK' BY <2>2 DEF SwitchInv, SwitchTypeOK, ScriptOK
    <3>7. Candidate' BY <2>2 DEF Candidate
    <3>8. QED BY <2>2, <3>1, <3>2, <3>3, <3>4, <3>5, <3>6, <3>7, KeptInstalled DEF recordVars,
          PointedBack
  <2>3. QED BY <1>13, <2>1, <2>2 DEF OldHealthy
<1>14. QED BY <1>1, <1>2, <1>3, <1>4, <1>5, <1>6, <1>7, <1>8, <1>9, <1>10, <1>11, <1>12,
       <1>13

(* The steps that change the files or the journal. *)
LEMMA FilesChange ==
    ASSUME SwitchInv,
           \/ CopyCandidate \/ PointToCandidate \/ MarkCandidate
           \/ CopyBackup \/ MarkBack \/ PointBack
    PROVE  SwitchInv'
<1>1. CASE CopyCandidate
  <2>1. FilesOK' /\ RecordsOK'
    BY <1>1 DEF CopyCandidate, CopyFiles, Step, SwitchInv, SwitchTypeOK, FilesOK, RecordsOK,
       recordVars, fileVars
  <2>2. PanelOK'
    BY <1>1, PanelStays DEF CopyCandidate, CopyFiles, Step, SwitchInv, panelVars
  <2>3. ScriptOK'
    BY <1>1 DEF CopyCandidate, CopyFiles, Step, SwitchInv, SwitchTypeOK, ScriptOK
  <2>4. Candidate' /\ Remembered' /\ Journalled'
    BY <1>1 DEF CopyCandidate, CopyFiles, Step, SwitchInv, Candidate, Remembered, Journalled,
       Settled, recordVars,
        Undone, Copied, Pointed, Checking, CopiedBack, MarkedBack, PointedBack
  <2>5. Forward' /\ Backward'
    BY <1>1 DEF CopyCandidate, CopyFiles, Step, SwitchInv, Forward, Backward, recordVars, fileVars,
        Undone, Copied, Pointed, Checking, CopiedBack, MarkedBack, PointedBack
  <2>6. OldOrNew'
    BY <1>1 DEF CopyCandidate, CopyFiles, Step, SwitchInv, OldOrNew, Journalled, Settled,
       recordVars, fileVars,
        Undone, Copied, Pointed, Checking, CopiedBack, MarkedBack, PointedBack
  <2>7. QED BY <2>1, <2>2, <2>3, <2>4, <2>5, <2>6 DEF SwitchInv, SwitchTypeOK
<1>2. CASE PointToCandidate
  <2>1. FilesOK' /\ RecordsOK'
    BY <1>2 DEF PointToCandidate, Step, SwitchInv, SwitchTypeOK, FilesOK, RecordsOK,
       recordVars, fileVars
  <2>2. PanelOK'
    BY <1>2, PanelStays DEF PointToCandidate, Step, SwitchInv, panelVars
  <2>3. ScriptOK'
    BY <1>2 DEF PointToCandidate, Step, SwitchInv, SwitchTypeOK, ScriptOK
  <2>4. Candidate' /\ Remembered' /\ Journalled'
    BY <1>2 DEF PointToCandidate, Step, SwitchInv, Candidate, Remembered, Journalled, Settled,
       recordVars,
        Undone, Copied, Pointed, Checking, CopiedBack, MarkedBack, PointedBack
  <2>5. Forward' /\ Backward'
    BY <1>2 DEF PointToCandidate, Step, SwitchInv, Forward, Backward, recordVars, fileVars,
        Undone, Copied, Pointed, Checking, CopiedBack, MarkedBack, PointedBack
  <2>6. OldOrNew'
    BY <1>2 DEF PointToCandidate, Step, SwitchInv, OldOrNew, Journalled, Settled, recordVars,
       fileVars,
        Undone, Copied, Pointed, Checking, CopiedBack, MarkedBack, PointedBack
  <2>7. QED BY <2>1, <2>2, <2>3, <2>4, <2>5, <2>6 DEF SwitchInv, SwitchTypeOK
<1>3. CASE MarkCandidate
  <2>1. FilesOK' /\ RecordsOK'
    BY <1>3 DEF MarkCandidate, Step, SwitchInv, SwitchTypeOK, FilesOK, RecordsOK, recordVars,
       fileVars
  <2>2. PanelOK'
    BY <1>3, PanelStays DEF MarkCandidate, Step, SwitchInv, panelVars
  <2>3. ScriptOK'
    BY <1>3 DEF MarkCandidate, Step, SwitchInv, SwitchTypeOK, ScriptOK
  <2>4. Candidate' /\ Remembered' /\ Journalled'
    BY <1>3 DEF MarkCandidate, Step, SwitchInv, Candidate, Remembered, Journalled, Settled,
       recordVars,
        Undone, Copied, Pointed, Checking, CopiedBack, MarkedBack, PointedBack
  <2>5. Forward' /\ Backward'
    BY <1>3 DEF MarkCandidate, Step, SwitchInv, Forward, Backward, recordVars, fileVars,
        Undone, Copied, Pointed, Checking, CopiedBack, MarkedBack, PointedBack
  <2>6. OldOrNew'
    BY <1>3 DEF MarkCandidate, Step, SwitchInv, OldOrNew, Journalled, Settled, recordVars, fileVars,
        Undone, Copied, Pointed, Checking, CopiedBack, MarkedBack, PointedBack
  <2>7. QED BY <2>1, <2>2, <2>3, <2>4, <2>5, <2>6 DEF SwitchInv, SwitchTypeOK
<1>4. CASE CopyBackup
  <2>1. FilesOK' /\ RecordsOK'
    BY <1>4 DEF CopyBackup, CopyFiles, Step, SwitchInv, SwitchTypeOK, FilesOK, RecordsOK,
       recordVars, fileVars
  <2>2. PanelOK'
    BY <1>4, PanelStays DEF CopyBackup, CopyFiles, Step, SwitchInv, panelVars
  <2>3. ScriptOK'
    BY <1>4 DEF CopyBackup, CopyFiles, Step, SwitchInv, SwitchTypeOK, ScriptOK
  <2>4. Candidate' /\ Remembered' /\ Journalled'
    BY <1>4 DEF CopyBackup, CopyFiles, Step, SwitchInv, Candidate, Remembered, Journalled,
       Settled, recordVars,
        Undone, Copied, Pointed, Checking, CopiedBack, MarkedBack, PointedBack
  <2>5. Forward' /\ Backward'
    BY <1>4 DEF CopyBackup, CopyFiles, Step, SwitchInv, Forward, Backward, recordVars, fileVars,
        Undone, Copied, Pointed, Checking, CopiedBack, MarkedBack, PointedBack
  <2>6. OldOrNew'
    BY <1>4 DEF CopyBackup, CopyFiles, Step, SwitchInv, OldOrNew, Journalled, Settled,
       recordVars, fileVars,
        Undone, Copied, Pointed, Checking, CopiedBack, MarkedBack, PointedBack
  <2>7. QED BY <2>1, <2>2, <2>3, <2>4, <2>5, <2>6 DEF SwitchInv, SwitchTypeOK
<1>5. CASE MarkBack
  <2>1. FilesOK' /\ RecordsOK'
    BY <1>5 DEF MarkBack, Step, SwitchInv, SwitchTypeOK, FilesOK, RecordsOK, recordVars, fileVars
  <2>2. PanelOK'
    BY <1>5, PanelStays DEF MarkBack, Step, SwitchInv, panelVars
  <2>3. ScriptOK'
    BY <1>5 DEF MarkBack, Step, SwitchInv, SwitchTypeOK, ScriptOK
  <2>4. Candidate' /\ Remembered' /\ Journalled'
    BY <1>5 DEF MarkBack, Step, SwitchInv, Candidate, Remembered, Journalled, Settled, recordVars,
        Undone, Copied, Pointed, Checking, CopiedBack, MarkedBack, PointedBack
  <2>5. Forward' /\ Backward'
    BY <1>5 DEF MarkBack, Step, SwitchInv, Forward, Backward, recordVars, fileVars,
        Undone, Copied, Pointed, Checking, CopiedBack, MarkedBack, PointedBack
  <2>6. OldOrNew'
    BY <1>5 DEF MarkBack, Step, SwitchInv, OldOrNew, Journalled, Settled, recordVars, fileVars,
        Undone, Copied, Pointed, Checking, CopiedBack, MarkedBack, PointedBack
  <2>7. QED BY <2>1, <2>2, <2>3, <2>4, <2>5, <2>6 DEF SwitchInv, SwitchTypeOK
<1>6. CASE PointBack
  <2>1. FilesOK' /\ RecordsOK'
    BY <1>6 DEF PointBack, Step, SwitchInv, SwitchTypeOK, FilesOK, RecordsOK, recordVars, fileVars
  <2>2. PanelOK'
    BY <1>6, PanelStays DEF PointBack, Step, SwitchInv, panelVars
  <2>3. ScriptOK'
    BY <1>6 DEF PointBack, Step, SwitchInv, SwitchTypeOK, ScriptOK
  <2>4. Candidate' /\ Remembered' /\ Journalled'
    BY <1>6 DEF PointBack, Step, SwitchInv, Candidate, Remembered, Journalled, Settled, recordVars,
        Undone, Copied, Pointed, Checking, CopiedBack, MarkedBack, PointedBack
  <2>5. Forward' /\ Backward'
    BY <1>6 DEF PointBack, Step, SwitchInv, Forward, Backward, Remembered, Journalled, Settled,
        recordVars, fileVars,
        Undone, Copied, Pointed, Checking, CopiedBack, MarkedBack, PointedBack
  <2>6. OldOrNew'
    BY <1>6 DEF PointBack, Step, SwitchInv, OldOrNew, Journalled, Settled, recordVars, fileVars,
        Undone, Copied, Pointed, Checking, CopiedBack, MarkedBack, PointedBack
  <2>7. QED BY <2>1, <2>2, <2>3, <2>4, <2>5, <2>6 DEF SwitchInv, SwitchTypeOK
<1>7. QED BY <1>1, <1>2, <1>3, <1>4, <1>5, <1>6

(* The files are whole when the journal is settled. *)
LEMMA JournalChanges ==
    ASSUME SwitchInv, WriteJournal \/ Commit \/ RollBack
    PROVE  SwitchInv'
<1>1. CASE WriteJournal
  <2>1. (wasRunning /\ ~keep) \in BOOLEAN OBVIOUS
  <2>2. version \in Versions /\ prepared \in Versions /\ oldServer \in Versions
    BY <1>1 DEF WriteJournal, SwitchInv, SwitchTypeOK, FilesOK, RecordsOK, ScriptOK, Candidate,
       Versions
  <2>3. RecordsOK'
    BY <1>1, <2>1, <2>2 DEF WriteJournal, SwitchInv, SwitchTypeOK, RecordsOK
  <2>4. FilesOK' BY <1>1, FilesKept DEF WriteJournal, SwitchInv
  <2>5. PanelOK' BY <1>1, PanelStays DEF WriteJournal, SwitchInv
  <2>6. ScriptOK' BY <1>1 DEF WriteJournal, SwitchInv, SwitchTypeOK, ScriptOK
  <2>7. script' = "journalled" /\ ~Settled' BY <1>1 DEF WriteJournal, Settled
  <2>8. Candidate' /\ Journalled' /\ Forward' /\ Backward' /\ OldOrNew'
    BY <2>7 DEF Candidate, Journalled, Forward, Backward, OldOrNew,
        Undone, Copied, Pointed, Checking, CopiedBack, MarkedBack, PointedBack
  <2>9. Remembered'
    BY <1>1 DEF WriteJournal, SwitchInv, Candidate, Remembered, fileVars
  <2>10. QED BY <2>3, <2>4, <2>5, <2>6, <2>8, <2>9 DEF SwitchInv, SwitchTypeOK
<1>2. CASE Commit
  <2>1. CASE ScriptEnds(FALSE) /\ UNCHANGED <<journal, overtaken>>
    <3>1. UNCHANGED <<serving, fileVars, recordVars>> /\ (Fault \/ UNCHANGED faults)
      BY <1>2, <2>1 DEF Commit, ScriptEnds, fileVars, recordVars
    <3>2. QED BY <2>1, <3>1, EndedQuietly
  <2>2. CASE /\ journal' = [journal EXCEPT !.phase = "committed"] /\ script' = "committed"
             /\ overtaken' = (overtaken /\ executable # journal.new)
             /\ UNCHANGED <<panelVars, by, wasRunning, oldServer, keep, faults>>
    <3>1. RecordsOK'
      BY <1>2, <2>2 DEF Commit, SwitchInv, SwitchTypeOK, RecordsOK
    <3>2. FilesOK'
      BY <1>2, <2>2 DEF Commit, SwitchInv, SwitchTypeOK, FilesOK
    <3>3. PanelOK' BY <2>2, PanelStays DEF SwitchInv
    <3>4. ScriptOK' BY <2>2 DEF SwitchInv, SwitchTypeOK, ScriptOK
    <3>5. Candidate' /\ Journalled' /\ Forward' /\ Backward'
      BY <2>2 DEF Candidate, Journalled, Forward, Backward,
          Undone, Copied, Pointed, Checking, CopiedBack, MarkedBack, PointedBack
    <3>6. journal'.phase = "committed" /\ journal'.new = journal.new
      BY <2>2 DEF SwitchInv, SwitchTypeOK, RecordsOK
    <3>7. /\ version' = journal.new /\ bin' = {journal.new}
          /\ ~overtaken' => executable' = journal.new
      BY <1>2, <2>2 DEF Commit, SwitchInv, Forward, Copied, Pointed, Checking
    <3>8. OldOrNew' BY <3>6, <3>7 DEF OldOrNew
    <3>9. Remembered' BY <3>6 DEF Remembered, Settled
    <3>10. QED BY <3>1, <3>2, <3>3, <3>4, <3>5, <3>8, <3>9 DEF SwitchInv, SwitchTypeOK
  <2>3. QED BY <1>2, <2>1, <2>2 DEF Commit
<1>3. CASE RollBack
  <2>1. RecordsOK'
    BY <1>3 DEF RollBack, SwitchInv, SwitchTypeOK, RecordsOK
  <2>2. FilesOK'
    BY <1>3 DEF RollBack, SwitchInv, SwitchTypeOK, FilesOK
  <2>3. PanelOK' BY <1>3, PanelStays DEF RollBack, SwitchInv
  <2>4. ScriptOK' BY <1>3 DEF RollBack, SwitchInv, SwitchTypeOK, ScriptOK
  <2>5. Candidate' /\ Journalled' /\ Forward' /\ Backward'
    BY <1>3 DEF RollBack, Candidate, Journalled, Forward, Backward,
        Undone, Copied, Pointed, Checking, CopiedBack, MarkedBack, PointedBack
  <2>6. journal'.phase = "rolledBack" /\ journal'.old = journal.old
    BY <1>3 DEF RollBack, SwitchInv, SwitchTypeOK, RecordsOK
  <2>7. /\ version' = journal.old /\ bin' = {journal.old}
        /\ ~overtaken' => executable' = journal.old
    BY <1>3 DEF RollBack, SwitchInv, Backward, CopiedBack, MarkedBack, PointedBack
  <2>8. OldOrNew' BY <2>6, <2>7 DEF OldOrNew
  <2>9. Remembered' BY <2>6 DEF Remembered, Settled
  <2>10. QED BY <2>1, <2>2, <2>3, <2>4, <2>5, <2>8, <2>9 DEF SwitchInv, SwitchTypeOK
<1>4. QED BY <1>1, <1>2, <1>3

LEMMA SwitchStep ==
    ASSUME SwitchInv, up \in BOOLEAN, [SwitchNext]_allVars
    PROVE  SwitchInv'
BY OthersKeep, PanelKeeps, StartKeeps, RecordersKeep, ScriptKeeps, FilesChange, JournalChanges
   DEF SwitchNext, Panel, ScriptGoesOn

-----------------------------------------------------------------------------
(* Every step of the switch is one of SafeStop, or none: what is proved of *)
(* the hold and of the stop holds of the whole update (scheduler.rs,       *)
(* runtime.ps1, stop-server.ps1).                                          *)
THEOREM SafeStopRefined == SwitchSpec => SafeStopSpec
<1>1. SwitchInit => Init BY DEF SwitchInit
<1>2. [SwitchNext]_allVars => [Next]_vars
  <2> SUFFICES ASSUME SwitchNext \/ UNCHANGED allVars PROVE Next \/ UNCHANGED vars OBVIOUS
  <2>1. CASE UNCHANGED allVars BY <2>1 DEF allVars
  <2>2. CASE Panel
    BY <2>2 DEF Panel, PanelStarts, PanelCloses, RecoverInstallation, StartService, Reconcile,
        UserStarts, PrepareUpdate, UpdatePrepared, PanelAsks, Announce, SpawnUpdate, SpawnFails,
        PanelStops, Next, Operate
  <2>3. CASE UserInstalls \/ EnterRuntimeOperation \/ EnterFails
    BY <2>3 DEF UserInstalls, EnterRuntimeOperation, EnterFails, Next, Operate
  <2>4. CASE ScriptGoesOn
    BY <2>4 DEF ScriptGoesOn, RequestHold, WriteJournal, StopOld, StopPanel, CopyCandidate,
        PointToCandidate, MarkCandidate, StartCandidate, CandidateHealthy, StopAgain, Commit,
        SaveState, Finish, ApplyFails, RestoreFails, StopCandidate, CopyBackup, MarkBack,
        PointBack, RestartOld, OldHealthy, RollBack, CopyFiles, Step, Launch, Kill, Next, Operate
  <2>5. CASE ScriptIsKilled \/ ServerDiesAlone \/ GateMoves
    BY <2>5 DEF ScriptIsKilled, ServerDiesAlone, GateMoves, Kill, Next, Operate
  <2>6. CASE StartGoesOn
    BY <2>6 DEF StartGoesOn, LookAtPort, AwaitHealth, FinishStart, KillOwn, Launch, Kill, Next
  <2>7. QED BY <2>1, <2>2, <2>3, <2>4, <2>5, <2>6 DEF SwitchNext
<1>3. QED BY <1>1, <1>2, PTL DEF SwitchSpec, SafeStopSpec, Spec

LEMMA SwitchInvariance == SwitchSpec => []SwitchInv
<1>1. SwitchSpec => [](GateInv /\ SafeInv)
  BY SafeStopRefined, SafeInvariance, PTL DEF SafeStopSpec
<1>2. GateInv => up \in BOOLEAN BY DEF GateInv, GateTypeOK
<1>3. SwitchInv /\ up \in BOOLEAN /\ [SwitchNext]_allVars => SwitchInv' BY SwitchStep
<1>4. QED BY <1>1, <1>2, <1>3, SwitchBegins, PTL DEF SwitchSpec

(* The server, the files, the records, the control centre and the script   *)
(* keep their types.                                                       *)
THEOREM SwitchTypeCorrect == SwitchSpec => []SwitchTypeOK
<1>1. SwitchInv => SwitchTypeOK BY DEF SwitchInv
<1>2. QED BY <1>1, SwitchInvariance, PTL

(* When the journal is settled one version is installed, the one that the  *)
(* journal names, whatever failed, died or was started in between; and it  *)
(* is the one that the server is started from, unless a start without the  *)
(* lock has put back what it had read before (Apply-PreparedRuntime,       *)
(* Restore-RuntimeTransaction, Save-ManagedProcess).                       *)
THEOREM OneVersion == SwitchSpec => []OldOrNew
<1>1. SwitchInv => OldOrNew BY DEF SwitchInv
<1>2. QED BY <1>1, SwitchInvariance, PTL

(* While the control centre switches, a hold keeps everything out, and its *)
(* owner stops a server in which nothing is under way.                     *)
THEOREM SwitchKeepsHold == SwitchSpec => []Exclusive /\ OwnHoldProtects
<1>1. GateInv => Exclusive BY DEF GateInv
<1>2. QED BY <1>1, SafeStopRefined, SafeInvariance, OwnHoldIsEnough, PTL DEF SafeStopSpec

-----------------------------------------------------------------------------
(* The phase.  Past the recovery of its start a control centre is at rest; *)
(* a script that has stopped it has the files to itself.                   *)
Resting == {"starting", "launching", "reconciling", "idle", "working", "preparing", "switching"}
Alone == {"alone", "copying", "committed", "saved", "restoringAlone", "restoringStopped",
          "copyingBack", "rolledBack", "savedBack"} \cup Copied \cup CopiedBack
Applying == {"journalled", "stopped", "alone", "copying"} \cup Copied

(* The version that is installed, or comes back if the switch fails. *)
Base == IF Settled THEN version ELSE journal.old

(* A control centre at rest is the one that is installed ... *)
RestingIsInstalled ==
    panel \in Resting => panelVersion = version /\ version = Base /\ script \notin Alone

(* ... since one that is started from other files does not come to rest.   *)
StartedIsInstalled ==
    /\ panel # "off" /\ script \in Copied => panelVersion = journal.new
    /\ panel # "off" /\ script \in CopiedBack => panelVersion = journal.old
    /\ panel = "recovering" /\ Settled => panelVersion = version

Announced == panel \in {"idle", "working", "preparing"} => state.phase # "switching"

(* What is called current comes back, whether the switch fails or not,     *)
(* because what is prepared is never older than what is installed.         *)
CurrentIsInstalled == state.phase = "current" => state.version <= Base
Upward ==
    /\ journal.old <= journal.new
    /\ prepared # 0 => prepared >= Base
    /\ panel = "preparing" => state.version > version
    /\ script = "held" => Settled
    /\ script \in Applying => prepared = journal.new
    /\ script = "committed" => journal.phase = "committed"

PhaseInv ==
    /\ RestingIsInstalled /\ StartedIsInstalled /\ Announced
    /\ CurrentIsInstalled /\ Upward

LEMMA PhaseTypes ==
    ASSUME SwitchInv
    PROVE  /\ version \in Nat /\ panelVersion \in Nat /\ prepared \in Nat
           /\ state.version \in Nat /\ journal.old \in Nat /\ journal.new \in Nat
           /\ Releases \in Nat
           /\ version <= Releases /\ journal.old <= Releases /\ journal.new <= Releases
BY ReleasesAssumption DEF ReleasesAssumption, SwitchInv, SwitchTypeOK, FilesOK, RecordsOK,
   PanelOK, Versions

LEMMA PhaseBegins == SwitchInit => PhaseInv
<1> SUFFICES ASSUME SwitchInit PROVE PhaseInv OBVIOUS
<1>1. version = 1 /\ Base = 1 /\ panelVersion = 1 /\ script = "none" /\ panel = "idle"
  BY DEF SwitchInit, Base, Settled
<1>2. RestingIsInstalled /\ StartedIsInstalled
  BY <1>1 DEF RestingIsInstalled, StartedIsInstalled, Alone, Copied, Pointed, Checking,
     CopiedBack, MarkedBack, PointedBack
<1>3. Announced /\ CurrentIsInstalled BY <1>1 DEF SwitchInit, Announced, CurrentIsInstalled
<1>4. Upward
  BY <1>1 DEF SwitchInit, Upward, Applying, Copied, Pointed, Checking
<1> QED BY <1>2, <1>3, <1>4 DEF PhaseInv

(* A step that writes neither bin and version nor records, and takes the   *)
(* script and the control centre to no place of which more is asked.       *)
LEMMA NothingTold ==
    ASSUME SwitchInv, PhaseInv, UNCHANGED <<bin, version, recordVars>>,
           \/ UNCHANGED <<panel, panelVersion>>
           \/ panel' = "off"
           \/ panel = "off" /\ panel' = "recovering" /\ panelVersion' \in bin
           \/ panel # "off" /\ panel' \in {"watching", "stranded"} /\ panelVersion' = panelVersion
           \/ /\ panel \in {"starting", "launching"} /\ panel' \in {"launching", "reconciling"}
              /\ panelVersion' = panelVersion
           \/ /\ panel \in {"idle", "working"} /\ panel' \in {"idle", "working"}
              /\ panelVersion' = panelVersion,
           \/ script' = script
           \/ script' \in {"none", "entered", "restoring"}
           \/ script' = "held" /\ Settled
           \/ script \in Applying /\ script' = "stopped"
           \/ panel' = "off" /\ script' = "alone" /\ script \in Applying
           \/ panel' = "off" /\ script' = "restoringAlone"
           \/ script = "restoringAlone" /\ script' = "restoringStopped"
           \/ script \in Checking /\ script' \in Checking
           \/ script \in PointedBack /\ script' \in PointedBack
    PROVE  PhaseInv'
<1> USE DEF Alone, Applying, Copied, Pointed, Checking, CopiedBack, MarkedBack, PointedBack
<1>1. UNCHANGED <<bin, version, journal, state, prepared>> /\ (Settled' <=> Settled) /\ Base' = Base
  BY DEF recordVars, Settled, Base
<1>2. /\ script' \in Copied => script \in Copied
      /\ script' \in CopiedBack => script \in CopiedBack
      /\ script' \in Applying => script \in Applying
      /\ script' = "committed" => script = "committed"
      /\ script' = "held" => Settled \/ script = "held"
      /\ script' \in Alone => script \in Alone \/ panel' = "off"
  OBVIOUS
<1>3. RestingIsInstalled'
  BY <1>1, <1>2 DEF PhaseInv, RestingIsInstalled, Resting
<1>4. StartedIsInstalled'
  <2>1. /\ script \in Copied => bin = {journal.new}
        /\ script \in CopiedBack => bin = {journal.old}
        /\ Settled => bin = {version}
    BY DEF SwitchInv, Forward, Backward, OldOrNew
  <2> QED BY <1>1, <1>2, <2>1 DEF PhaseInv, StartedIsInstalled
<1>5. Announced' BY <1>1 DEF PhaseInv, Announced
<1>6. CurrentIsInstalled' BY <1>1 DEF PhaseInv, CurrentIsInstalled
<1>7. Upward' BY <1>1, <1>2 DEF PhaseInv, Upward
<1> QED BY <1>3, <1>4, <1>5, <1>6, <1>7 DEF PhaseInv

(* Such a step is also the end of a script. *)
LEMMA EndTellsNothing ==
    ASSUME SwitchInv, PhaseInv, NEW restored, ScriptEnds(restored),
           UNCHANGED <<bin, version, recordVars>>
    PROVE  PhaseInv'
<1>1. script' = "none" BY DEF ScriptEnds
<1>2. \/ UNCHANGED <<panel, panelVersion>>
      \/ panel = "off" /\ panel' = "recovering" /\ panelVersion' \in bin
  BY DEF ScriptEnds, StartPanel, panelVars
<1> QED BY <1>1, <1>2, NothingTold

LEMMA OthersTellNothing ==
    ASSUME SwitchInv, PhaseInv,
           \/ EnterFails \/ ServerDiesAlone \/ GateMoves \/ UNCHANGED allVars
           \/ PanelStarts \/ PanelCloses \/ StartService \/ UserStarts \/ StartGoesOn
           \/ PanelAsks \/ SpawnUpdate \/ PanelStops \/ EnterRuntimeOperation \/ ScriptIsKilled
    PROVE  PhaseInv'
<1>1. UNCHANGED <<bin, version, recordVars>>
  BY DEF EnterFails, ServerDiesAlone, GateMoves, allVars, switchVars, fileVars, PanelStarts,
     PanelCloses, StartService, UserStarts, StartGoesOn, PanelAsks, SpawnUpdate, PanelStops,
     EnterRuntimeOperation, ScriptIsKilled
<1>2. CASE EnterFails
  BY <1>1, <1>2, NothingTold DEF EnterFails, StartPanel, panelVars, scriptVars
<1>3. CASE PanelStarts
  BY <1>1, <1>3, NothingTold DEF PanelStarts, scriptVars
<1>4. CASE PanelCloses \/ SpawnUpdate
  BY <1>1, <1>4, NothingTold DEF PanelCloses, SpawnUpdate, PanelEnds, scriptVars
<1>5. CASE ServerDiesAlone \/ GateMoves \/ UNCHANGED allVars \/ PanelAsks
           \/ PanelStops \/ EnterRuntimeOperation
  <2>1. UNCHANGED <<panel, panelVersion>> /\ (script' = script \/ script' = "entered")
    BY <1>5 DEF ServerDiesAlone, GateMoves, allVars, switchVars, PanelAsks,
       PanelStops, EnterRuntimeOperation, panelVars, scriptVars
  <2> QED BY <1>1, <2>1, NothingTold
<1>6. CASE ScriptIsKilled
  <2>1. \/ UNCHANGED <<panel, panelVersion>>
        \/ panel # "off" /\ panel' = "stranded" /\ panelVersion' = panelVersion
    BY <1>6 DEF ScriptIsKilled
  <2> QED BY <1>1, <1>6, <2>1, NothingTold DEF ScriptIsKilled
<1>7. CASE StartService \/ UserStarts \/ StartGoesOn
  <2>1. script' = script
    BY <1>7 DEF StartService, UserStarts, StartGoesOn, scriptVars
  <2>2. CASE StartService
    BY <1>1, <2>1, <2>2, NothingTold DEF StartService
  <2>3. CASE UserStarts
    BY <1>1, <2>1, <2>3, NothingTold DEF UserStarts, PanelIsFree
  <2>4. CASE StarterEnds
    <3>1. /\ panelVersion' = panelVersion
          /\ \/ panel = "launching" /\ panel' = "reconciling"
             \/ panel = "working" /\ panel' = "idle"
             \/ panel' = panel
      BY <2>4 DEF StarterEnds
    <3> QED BY <1>1, <2>1, <3>1, NothingTold
  <2>5. CASE UNCHANGED panelVars
    BY <1>1, <2>1, <2>5, NothingTold DEF panelVars
  <2> QED BY <1>7, <2>2, <2>3, <2>4, <2>5 DEF StartGoesOn, LookAtPort, AwaitHealth, FinishStart,
       StarterMoves
<1> QED BY <1>2, <1>3, <1>4, <1>5, <1>6, <1>7

LEMMA ScriptTellsNothing ==
    ASSUME SwitchInv, PhaseInv,
           \/ RequestHold \/ StopOld \/ StopPanel \/ StartCandidate \/ CandidateHealthy
           \/ StopAgain \/ ApplyFails \/ RestoreFails \/ StopCandidate \/ RestartOld \/ OldHealthy
    PROVE  PhaseInv'
<1> USE DEF Applying, Copied, Pointed, Checking
<1>1. UNCHANGED <<bin, version, recordVars>>
  BY DEF RequestHold, StopOld, StopPanel, StartCandidate, CandidateHealthy, StopAgain,
     ApplyFails, RestoreFails, StopCandidate, RestartOld, OldHealthy, fileVars
<1>2. CASE RequestHold
  <2>1. CASE ScriptEnds(FALSE) BY <1>1, <2>1, EndTellsNothing
  <2>2. CASE script' = "held" /\ Settled /\ UNCHANGED panelVars
    BY <1>1, <2>2, NothingTold DEF panelVars
  <2> QED BY <1>2, <2>1, <2>2 DEF RequestHold
<1>3. CASE StopOld
  <2>1. /\ UNCHANGED <<panel, panelVersion>>
        /\ script = "journalled" /\ script' \in {"stopped", "restoring"}
    BY <1>3 DEF StopOld, panelVars
  <2> QED BY <1>1, <2>1, NothingTold
<1>4. CASE StopPanel
  <2>1. /\ panel' = "off"
        /\ \/ script = "stopped" /\ script' = "alone"
           \/ script' = "restoringAlone"
    BY <1>4 DEF StopPanel, PanelEnds
  <2> QED BY <1>1, <2>1, NothingTold
<1>5. CASE StartCandidate \/ CandidateHealthy \/ StopAgain
  <2>1. /\ UNCHANGED <<panel, panelVersion>>
        /\ script \in Checking /\ script' \in Checking \cup {"restoring"}
    BY <1>5 DEF StartCandidate, CandidateHealthy, StopAgain, panelVars
  <2> QED BY <1>1, <2>1, NothingTold
<1>6. CASE ApplyFails
  BY <1>1, <1>6, NothingTold DEF ApplyFails, panelVars
<1>7. CASE RestoreFails
  <2>1. CASE ScriptEnds(FALSE) BY <1>1, <2>1, EndTellsNothing
  <2>2. CASE panel = "watching" /\ script' = "none" /\ panel' = "stranded" /\ UNCHANGED panelVersion
    BY <1>1, <2>2, NothingTold
  <2> QED BY <1>7, <2>1, <2>2 DEF RestoreFails
<1>8. CASE StopCandidate
  BY <1>1, <1>8, NothingTold DEF StopCandidate, panelVars
<1>9. CASE RestartOld
  <2>1. CASE ScriptEnds(FALSE) BY <1>1, <2>1, EndTellsNothing
  <2>2. CASE /\ script \in PointedBack /\ script' \in PointedBack
             /\ UNCHANGED panelVars
    BY <1>1, <2>2, NothingTold DEF panelVars
  <2> QED BY <1>9, <2>1, <2>2 DEF RestartOld, PointedBack
<1>10. CASE OldHealthy
  <2>1. CASE ScriptEnds(FALSE) BY <1>1, <2>1, EndTellsNothing
  <2>2. CASE /\ script \in PointedBack /\ script' \in PointedBack
             /\ UNCHANGED panelVars
    BY <1>1, <2>2, NothingTold DEF panelVars
  <2> QED BY <1>10, <2>1, <2>2 DEF OldHealthy, PointedBack
<1> QED BY <1>2, <1>3, <1>4, <1>5, <1>6, <1>7, <1>8, <1>9, <1>10

(* The steps of the control centre between its start and its end. *)
LEMMA PanelTells ==
    ASSUME SwitchInv, PhaseInv,
           \/ RecoverInstallation \/ Reconcile \/ PrepareUpdate
           \/ UpdatePrepared \/ Announce \/ SpawnFails
    PROVE  PhaseInv'
<1>1. CASE RecoverInstallation
  <2>1. /\ UNCHANGED <<bin, version, journal, state, prepared, panelVersion>>
        /\ (Settled' <=> Settled) /\ Base' = Base
    BY <1>1 DEF RecoverInstallation, fileVars, recordVars, Settled, Base
  <2>2. CASE ~Settled
    <3>1. panel # "off" /\ panel' = "watching" /\ script' = "restoring"
      BY <1>1, <2>2 DEF RecoverInstallation
    <3> QED BY <2>1, <3>1, <1>1, NothingTold DEF fileVars, recordVars, RecoverInstallation
  <2>3. CASE Settled
    <3>1. panel = "recovering" /\ panel' = "starting" /\ script = "none" /\ script' = "none"
      BY <1>1, <2>3 DEF RecoverInstallation
    <3>2. panelVersion = version /\ version = Base
      BY <2>3, <3>1 DEF PhaseInv, StartedIsInstalled, Base
    <3>3. RestingIsInstalled' /\ StartedIsInstalled'
      BY <2>1, <3>1, <3>2 DEF RestingIsInstalled, StartedIsInstalled, Alone, Copied, Pointed,
         Checking, CopiedBack, MarkedBack, PointedBack
    <3>4. Announced' /\ CurrentIsInstalled' /\ Upward'
      BY <2>1, <3>1 DEF PhaseInv, Announced, CurrentIsInstalled, Upward, Applying, Copied,
         Pointed, Checking
    <3> QED BY <3>3, <3>4 DEF PhaseInv
  <2> QED BY <2>2, <2>3
<1>2. CASE Reconcile \/ PrepareUpdate \/ UpdatePrepared \/ Announce \/ SpawnFails
  <2>1. /\ UNCHANGED <<bin, version, journal, panelVersion, script>>
        /\ panel \in Resting /\ panel' \in Resting
    BY <1>2 DEF Reconcile, PrepareUpdate, UpdatePrepared, Announce, SpawnFails,
       PanelIsFree, fileVars, recordVars, scriptVars, Resting
  <2>2. (Settled' <=> Settled) /\ Base' = Base BY <2>1 DEF Settled, Base
  <2>3. panelVersion = version /\ version = Base /\ script \notin Alone
    BY <2>1 DEF PhaseInv, RestingIsInstalled
  <2>4. RestingIsInstalled' BY <2>1, <2>2, <2>3 DEF RestingIsInstalled, Alone, Copied, Pointed,
        Checking, CopiedBack, MarkedBack, PointedBack
  <2>5. StartedIsInstalled'
    BY <2>1, <2>3 DEF StartedIsInstalled, Resting, Alone
  <2>6. Announced' /\ CurrentIsInstalled'
    <3>1. CASE Reconcile
      <4>1. /\ panel' = "idle"
            /\ state' = IF panelVersion >= state.version THEN [state EXCEPT !.phase = "current"]
                        ELSE IF state.phase \in {"switching", "preparing"}
                             THEN [state EXCEPT !.phase = "failed"] ELSE state
        BY <3>1 DEF Reconcile, Reconciled
      <4>2. /\ state'.version = state.version
            /\ \/ state'.phase = "current" /\ panelVersion >= state.version
               \/ state'.phase = "failed"
               \/ state' = state /\ state.phase # "switching"
        BY <4>1 DEF SwitchInv, SwitchTypeOK, RecordsOK
      <4>3. Announced' BY <4>2 DEF Announced
      <4>4. CurrentIsInstalled'
        BY <2>2, <2>3, <4>2, PhaseTypes DEF PhaseInv, CurrentIsInstalled
      <4> QED BY <4>3, <4>4
    <3>2. CASE PrepareUpdate
      <4>1. state'.phase = "preparing" BY <3>2 DEF PrepareUpdate
      <4> QED BY <4>1 DEF Announced, CurrentIsInstalled
    <3>3. CASE UpdatePrepared
      <4>1. state'.phase \in {"ready", "failed"}
        BY <3>3 DEF UpdatePrepared, SwitchInv, SwitchTypeOK, RecordsOK
      <4> QED BY <4>1 DEF Announced, CurrentIsInstalled
    <3>4. CASE Announce
      <4>1. state'.phase = "switching" /\ panel' = "switching"
        BY <3>4 DEF Announce, SwitchInv, SwitchTypeOK, RecordsOK
      <4> QED BY <4>1 DEF Announced, CurrentIsInstalled
    <3>5. CASE SpawnFails
      <4>1. state'.phase = "failed"
        BY <3>5 DEF SpawnFails, SwitchInv, SwitchTypeOK, RecordsOK
      <4> QED BY <4>1 DEF Announced, CurrentIsInstalled
    <3> QED BY <1>2, <3>1, <3>2, <3>3, <3>4, <3>5
  <2>7. (prepared # 0 => prepared >= Base)'
    <3>1. CASE prepared' = prepared BY <2>2, <3>1 DEF PhaseInv, Upward
    <3>2. CASE UpdatePrepared /\ prepared' = state.version
      <4>1. state.version > version BY <3>2 DEF UpdatePrepared, PhaseInv, Upward
      <4> QED BY <2>2, <2>3, <3>2, <4>1, PhaseTypes
    <3> QED BY <1>2, <3>1, <3>2 DEF Reconcile, PrepareUpdate, UpdatePrepared,
          Announce, SpawnFails, recordVars
  <2>8. (panel = "preparing" => state.version > version)'
    <3>1. CASE PrepareUpdate
      BY <2>1, <2>3, <3>1 DEF PrepareUpdate
    <3> QED BY <1>2, <3>1 DEF Reconcile, UpdatePrepared, Announce, SpawnFails
  <2>9. Upward'
    <3>1. script \notin Applying \/ prepared' = prepared
      BY <1>2 DEF Reconcile, PrepareUpdate, UpdatePrepared, Announce, SpawnFails,
         recordVars, Applying, Copied, Pointed, Checking
    <3>2. Upward BY DEF PhaseInv
    <3> QED BY <2>1, <2>2, <2>7, <2>8, <3>1, <3>2 DEF Upward, Applying, Copied, Pointed, Checking
  <2> QED BY <2>4, <2>5, <2>6, <2>9 DEF PhaseInv
<1> QED BY <1>1, <1>2

(* The steps of a script that write the files ... *)
LEMMA FilesTell ==
    ASSUME SwitchInv, PhaseInv,
           \/ CopyCandidate \/ CopyBackup \/ PointToCandidate \/ MarkCandidate
           \/ MarkBack \/ PointBack
    PROVE  PhaseInv'
<1> USE DEF Alone, Applying, Copied, Pointed, Checking, CopiedBack, MarkedBack, PointedBack
<1>1. /\ UNCHANGED <<journal, state, prepared, panel, panelVersion>>
      /\ script \in Alone /\ script' \in Alone
    BY DEF CopyCandidate, CopyBackup, CopyFiles, PointToCandidate, MarkCandidate, MarkBack,
       PointBack, Step, recordVars, panelVars
<1>2. script \in Undone /\ ~Settled /\ ~Settled'
  <2>1. script \in Undone
    BY DEF CopyCandidate, CopyBackup, CopyFiles, PointToCandidate, MarkCandidate, MarkBack,
       PointBack, Step, Undone
  <2> QED BY <1>1, <2>1 DEF SwitchInv, Journalled, Settled
<1>3. Base' = Base BY <1>1, <1>2 DEF Base
<1>4. panel \notin Resting BY <1>1 DEF PhaseInv, RestingIsInstalled
<1>5. RestingIsInstalled' BY <1>1, <1>4 DEF RestingIsInstalled, Resting
<1>6. StartedIsInstalled'
  <2>1. CASE CopyCandidate \/ CopyBackup
    <3>1. \/ panel = "off" /\ script' \in {"copying", "copied", "copyingBack", "copiedBack"}
          \/ script = "copying" /\ panelVersion = journal.new /\ script' \in {"copying", "copied"}
          \/ /\ script = "copyingBack" /\ panelVersion = journal.old
             /\ script' \in {"copyingBack", "copiedBack"}
      BY <2>1 DEF CopyCandidate, CopyBackup, CopyFiles, Step
    <3> QED BY <1>1, <1>2, <3>1 DEF StartedIsInstalled
  <2>2. CASE PointToCandidate \/ MarkCandidate \/ MarkBack \/ PointBack
    <3>1. \/ script \in Copied /\ script' \in Copied
          \/ script \in CopiedBack /\ script' \in CopiedBack
      BY <2>2 DEF PointToCandidate, MarkCandidate, MarkBack, PointBack, Step
    <3> QED BY <1>1, <1>2, <3>1 DEF PhaseInv, StartedIsInstalled
  <2> QED BY <2>1, <2>2
<1>7. Announced' /\ CurrentIsInstalled' BY <1>1, <1>3 DEF PhaseInv, Announced, CurrentIsInstalled
<1>8. Upward'
  <2>1. /\ script' \in Applying => script \in Applying
        /\ script' # "held" /\ script' # "committed"
    BY DEF CopyCandidate, CopyBackup, CopyFiles, PointToCandidate, MarkCandidate, MarkBack,
       PointBack, Step
  <2>2. panel # "preparing" BY <1>4 DEF Resting
  <2> QED BY <1>1, <1>3, <2>1, <2>2 DEF PhaseInv, Upward
<1> QED BY <1>5, <1>6, <1>7, <1>8 DEF PhaseInv

(* ... and those that write the records. *)
LEMMA JournalTells ==
    ASSUME SwitchInv, PhaseInv, WriteJournal \/ RollBack
    PROVE  PhaseInv'
<1>1. UNCHANGED <<bin, version, state, prepared, panel, panelVersion>>
  BY DEF WriteJournal, RollBack, fileVars, panelVars
<1>2. CASE WriteJournal
  <2>1. /\ script = "held" /\ script' = "journalled"
        /\ journal'.phase = "switching" /\ journal'.old = version /\ journal'.new = prepared
    BY <1>2 DEF WriteJournal
  <2>2. ~Settled' /\ Base' = version BY <2>1 DEF Settled, Base
  <2>3. Base = version /\ prepared # 0 /\ prepared >= version
    BY <2>1, PhaseTypes DEF PhaseInv, Upward, Base, SwitchInv, Candidate
  <2>4. RestingIsInstalled'
    BY <1>1, <2>1, <2>2, <2>3 DEF PhaseInv, RestingIsInstalled, Alone, Copied, Pointed, Checking,
       CopiedBack, MarkedBack, PointedBack
  <2>5. StartedIsInstalled'
    BY <2>1, <2>2 DEF StartedIsInstalled, Copied, Pointed, Checking, CopiedBack, MarkedBack,
       PointedBack
  <2>6. Announced' /\ CurrentIsInstalled'
    BY <1>1, <2>2, <2>3 DEF PhaseInv, Announced, CurrentIsInstalled
  <2>7. Upward'
    BY <1>1, <2>1, <2>2, <2>3, PhaseTypes DEF PhaseInv, Upward
  <2> QED BY <2>4, <2>5, <2>6, <2>7 DEF PhaseInv
<1>3. CASE RollBack
  <2>1. /\ script = "restarted" /\ script' = "rolledBack"
        /\ journal' = [journal EXCEPT !.phase = "rolledBack"]
    BY <1>3 DEF RollBack
  <2>2. journal'.old = journal.old /\ journal'.new = journal.new /\ Settled'
    BY <2>1 DEF SwitchInv, SwitchTypeOK, RecordsOK, Settled
  <2>3. ~Settled /\ version = journal.old /\ script \in CopiedBack /\ script \in Alone
    BY <2>1 DEF SwitchInv, Journalled, Backward, Undone, Alone, CopiedBack, MarkedBack, PointedBack
  <2>4. Base = version /\ Base' = version BY <1>1, <2>2, <2>3 DEF Base
  <2>5. panel \notin Resting BY <2>3 DEF PhaseInv, RestingIsInstalled
  <2>6. RestingIsInstalled' BY <1>1, <2>5 DEF RestingIsInstalled
  <2>7. StartedIsInstalled'
    BY <1>1, <2>1, <2>3 DEF PhaseInv, StartedIsInstalled, Copied, Pointed, Checking, CopiedBack,
       MarkedBack, PointedBack
  <2>8. Announced' /\ CurrentIsInstalled'
    BY <1>1, <2>4 DEF PhaseInv, Announced, CurrentIsInstalled
  <2>9. Upward'
    BY <1>1, <2>1, <2>2, <2>4 DEF PhaseInv, Upward, Applying, Copied, Pointed, Checking
  <2> QED BY <2>6, <2>7, <2>8, <2>9 DEF PhaseInv
<1> QED BY <1>2, <1>3

LEMMA CommitTells == ASSUME SwitchInv, PhaseInv, Commit PROVE PhaseInv'
<1>1. CASE ScriptEnds(FALSE) /\ UNCHANGED journal
  <2>1. UNCHANGED <<bin, version, recordVars>> BY <1>1 DEF Commit, recordVars
  <2> QED BY <1>1, <2>1, EndTellsNothing
<1>2. CASE journal' = [journal EXCEPT !.phase = "committed"] /\ script' = "committed"
           /\ UNCHANGED panelVars
  <2>1. UNCHANGED <<bin, version, state, prepared, panel, panelVersion>> /\ script = "checked"
    BY <1>2 DEF Commit, fileVars, panelVars
  <2>2. /\ journal'.old = journal.old /\ journal'.new = journal.new
        /\ journal'.phase = "committed" /\ Settled'
    BY <1>2 DEF SwitchInv, SwitchTypeOK, RecordsOK, Settled
  <2>3. /\ ~Settled /\ version = journal.new
        /\ script \in Copied /\ script \in Applying /\ script \in Alone
    BY <2>1 DEF SwitchInv, Journalled, Forward, Undone, Alone, Applying, Copied, Pointed, Checking
  <2>4. Base = journal.old /\ Base' = version /\ prepared = version
    BY <2>1, <2>2, <2>3 DEF Base, PhaseInv, Upward
  <2>5. panel \notin Resting BY <2>3 DEF PhaseInv, RestingIsInstalled
  <2>6. RestingIsInstalled' BY <2>1, <2>5 DEF RestingIsInstalled
  <2>7. StartedIsInstalled'
    BY <1>2, <2>1, <2>3 DEF PhaseInv, StartedIsInstalled, Copied, Pointed, Checking, CopiedBack,
       MarkedBack, PointedBack
  <2>8. Announced' BY <2>1 DEF PhaseInv, Announced
  <2>9. CurrentIsInstalled'
    BY <2>1, <2>3, <2>4, PhaseTypes DEF PhaseInv, CurrentIsInstalled, Upward
  <2>10. Upward'
    BY <1>2, <2>1, <2>2, <2>4, PhaseTypes DEF PhaseInv, Upward, Applying, Copied, Pointed, Checking
  <2> QED BY <2>6, <2>7, <2>8, <2>9, <2>10 DEF PhaseInv
<1> QED BY <1>1, <1>2 DEF Commit

LEMMA StateTells == ASSUME SwitchInv, PhaseInv, SaveState PROVE PhaseInv'
<1>1. UNCHANGED <<bin, version, journal, prepared, panel, panelVersion>>
  BY DEF SaveState, fileVars, panelVars
<1>2. (Settled' <=> Settled) /\ Base' = Base BY <1>1 DEF Settled, Base
<1>3. script \in {"committed", "rolledBack"} /\ script' \in {"saved", "savedBack"}
  BY DEF SaveState
<1>4. panel \notin Resting BY <1>3 DEF PhaseInv, RestingIsInstalled, Alone
<1>5. RestingIsInstalled' BY <1>1, <1>4 DEF RestingIsInstalled
<1>6. StartedIsInstalled'
  BY <1>1, <1>2, <1>3 DEF PhaseInv, StartedIsInstalled, Copied, Pointed, Checking, CopiedBack,
     MarkedBack, PointedBack
<1>7. Announced' BY <1>1, <1>4 DEF Announced, Resting
<1>8. CurrentIsInstalled'
  <2>1. CASE script = "committed"
    <3>1. state'.phase = "current" /\ state'.version = journal.new BY <2>1 DEF SaveState
    <3>2. Settled /\ version = journal.new /\ Base = version
      BY <2>1 DEF PhaseInv, Upward, Settled, SwitchInv, OldOrNew, Base
    <3> QED BY <1>2, <3>1, <3>2, PhaseTypes DEF CurrentIsInstalled
  <2>2. CASE script = "rolledBack"
    <3>1. state'.phase = "failed" BY <2>2 DEF SaveState
    <3> QED BY <3>1 DEF CurrentIsInstalled
  <2> QED BY <1>3, <2>1, <2>2
<1>9. Upward'
  BY <1>1, <1>2, <1>3, <1>4 DEF PhaseInv, Upward, Resting, Applying, Copied, Pointed, Checking
<1> QED BY <1>5, <1>6, <1>7, <1>8, <1>9 DEF PhaseInv

(* What is prepared changes when a script begins and ends. *)
LEMMA PreparedTells ==
    ASSUME SwitchInv, PhaseInv, UserInstalls \/ Finish
    PROVE  PhaseInv'
<1>1. /\ UNCHANGED <<bin, version, journal, state>>
      /\ prepared' = prepared \/ prepared' = 0 \/ prepared' = Releases
      /\ script' \in {"none", "entered"}
  BY DEF UserInstalls, Finish, ScriptEnds, fileVars
<1>2. (Settled' <=> Settled) /\ Base' = Base BY <1>1 DEF Settled, Base
<1>3. \/ UNCHANGED <<panel, panelVersion>>
      \/ panel = "off" /\ panel' = "recovering" /\ panelVersion' \in bin
  BY DEF UserInstalls, Finish, ScriptEnds, StartPanel, panelVars
<1>4. RestingIsInstalled'
  BY <1>1, <1>2, <1>3 DEF PhaseInv, RestingIsInstalled, Resting, Alone, Copied, Pointed,
     Checking, CopiedBack, MarkedBack, PointedBack
<1>5. StartedIsInstalled'
  BY <1>1, <1>2, <1>3 DEF PhaseInv, StartedIsInstalled, SwitchInv, OldOrNew, Copied, Pointed,
     Checking, CopiedBack, MarkedBack, PointedBack
<1>6. Announced' /\ CurrentIsInstalled'
  BY <1>1, <1>2, <1>3 DEF PhaseInv, Announced, CurrentIsInstalled
<1>7. Base \in Nat /\ Base <= Releases BY PhaseTypes DEF Base
<1>8. (prepared # 0 => prepared >= Base)'
  <2>1. prepared # 0 => prepared >= Base BY DEF PhaseInv, Upward
  <2> QED BY <1>1, <1>2, <1>7, <2>1, PhaseTypes
<1>9. Upward'
  BY <1>1, <1>2, <1>3, <1>8 DEF PhaseInv, Upward, Applying, Copied, Pointed, Checking
<1> QED BY <1>4, <1>5, <1>6, <1>9 DEF PhaseInv

LEMMA PhaseStep ==
    ASSUME SwitchInv, PhaseInv, [SwitchNext]_allVars
    PROVE  PhaseInv'
BY OthersTellNothing, ScriptTellsNothing, PanelTells, FilesTell, JournalTells, CommitTells,
   StateTells, PreparedTells
   DEF SwitchNext, Panel, ScriptGoesOn

(* A control centre that is at rest while no script runs is the installed  *)
(* one; it announces no switch that nobody carries out, and calls no       *)
(* version current that is not there (reconcile_update, recover_installation). *)
THEOREM PhaseTellsTheTruth == SwitchSpec => []PhaseIsTrue
<1>1. PhaseInv => PhaseIsTrue
  <2> SUFFICES ASSUME PhaseInv, panel = "idle", script = "none"
               PROVE  /\ panelVersion = version /\ state.phase # "switching"
                      /\ state.phase = "current" => state.version <= version
    BY DEF PhaseIsTrue
  <2>1. panelVersion = version /\ version = Base
    BY DEF PhaseInv, RestingIsInstalled, Resting
  <2> QED BY <2>1 DEF PhaseInv, Announced, CurrentIsInstalled
<1>2. SwitchInv /\ PhaseInv /\ [SwitchNext]_allVars => PhaseInv' BY PhaseStep
<1>3. QED BY <1>1, <1>2, PhaseBegins, SwitchInvariance, PTL DEF SwitchSpec
=============================================================================
