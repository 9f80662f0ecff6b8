--------------------------- MODULE MaintenanceGate ---------------------------
(***************************************************************************)
(* The admission gate of the server (server/maintenance.py).  A controller *)
(* that wants to replace the server asks for a hold, which is granted when *)
(* nothing is under way and nothing was for a while; while the hold lasts  *)
(* no request is admitted.                                                 *)
(*                                                                         *)
(* Requests come and go in threads of their own; the work that they begin  *)
(* may outlast them (the task queue, a provider that a selection no longer *)
(* waits for, a glossary download), and ends when nobody looks.  Times are *)
(* kept as seconds since the last activity and seconds left of the hold.   *)
(***************************************************************************)
EXTENDS Naturals, FiniteSets

CONSTANTS
    Requests,     \* connections
    Works,        \* pieces of work that requests begin
    HoldSeconds,  \* how long a hold lasts (120 in the code)
    MaxIdle       \* bound on the seconds counted; no caller asks for more

ASSUME GateAssumption ==
    /\ IsFiniteSet(Requests)
    /\ HoldSeconds \in Nat \ {0} /\ MaxIdle \in Nat \ {0}

VARIABLES
    up,        \* a server process runs
    request,   \* where each connection's request is
    work,      \* the work under way
    active,    \* _active
    held,      \* _held_until, as the seconds left
    idle,      \* _last_active, as the seconds since
    lastBusy,  \* _last_busy
    quiet      \* history: seconds since something was last under way

gateVars == <<up, request, work, active, held, idle, lastBusy, quiet>>

Counted == {q \in Requests : request[q] \in {"admitted", "streaming"}}
UnderWay == Counted # {} \/ work # {}

Later(seconds) == IF seconds < MaxIdle THEN seconds + 1 ELSE seconds

-----------------------------------------------------------------------------
(* runtime_busy: tasks, selections and downloads that are under way.  A     *)
(* task queue that is blocked stays so until the process ends: then no hold *)
(* is granted, and there is nothing to model.                               *)
Busy == work # {}

(* Mutant of Enter: a request that has found the gate open before is let   *)
(* in without another look.                                                *)
EnterUnchecked(q) ==
    /\ up /\ request[q] = "out"
    /\ request' = [request EXCEPT ![q] = "admitted"]
    /\ active' = active + 1 /\ idle' = 0 /\ lastBusy' = Busy
    /\ quiet' = 0
    /\ UNCHANGED <<up, work, held>>

(* enter, in before_request: the others are refused with 503. *)
Enter(q) ==
    /\ up /\ request[q] = "out" /\ held = 0
    /\ request' = [request EXCEPT ![q] = "admitted"]
    /\ active' = active + 1 /\ idle' = 0 /\ lastBusy' = Busy
    /\ quiet' = 0
    /\ UNCHANGED <<up, work, held>>

BeginWork(q, w) ==
    /\ q \in Counted /\ w \notin work
    /\ work' = work \cup {w}
    /\ UNCHANGED <<up, request, active, held, idle, lastBusy, quiet>>

EndWork(w) ==
    /\ w \in work
    /\ work' = work \ {w}
    /\ UNCHANGED <<up, request, active, held, idle, lastBusy, quiet>>

(* Mutant of Leave: whether work goes on is not looked at. *)
LeaveUnobserved ==
    /\ active' = IF active = 0 THEN 0 ELSE active - 1
    /\ idle' = 0 /\ lastBusy' = FALSE

(* leave *)
Leave ==
    /\ active' = IF active = 0 THEN 0 ELSE active - 1
    /\ idle' = 0 /\ lastBusy' = Busy

(* A response in one piece, or an error: after_request, or teardown_request *)
(* when there is no response.                                               *)
Respond(q) ==
    /\ request[q] = "admitted"
    /\ request' = [request EXCEPT ![q] = "out"]
    /\ Leave
    /\ UNCHANGED <<up, work, held, quiet>>

(* A streamed response: the request stays until its stream ends or is      *)
(* closed, whichever comes first; closing comes after in any case.         *)
Stream(q) ==
    /\ request[q] = "admitted"
    /\ request' = [request EXCEPT ![q] = "streaming"]
    /\ UNCHANGED <<up, work, active, held, idle, lastBusy, quiet>>

StreamEnds(q) ==
    /\ request[q] = "streaming"
    /\ request' = [request EXCEPT ![q] = "finished"]
    /\ Leave
    /\ UNCHANGED <<up, work, held, quiet>>

Close(q) ==
    /\ request[q] \in {"streaming", "finished"}
    /\ request' = [request EXCEPT ![q] = "out"]
    /\ IF request[q] = "streaming" THEN Leave
       ELSE UNCHANGED <<active, idle, lastBusy>>
    /\ UNCHANGED <<up, work, held, quiet>>

-----------------------------------------------------------------------------
(* snapshot: work that ended unobserved counts as activity until now. *)
SeenBusy == active > 0 \/ Busy
SeenIdle == IF SeenBusy \/ lastBusy THEN 0 ELSE idle

(* Anyone who asks for the health of the server; a hold that is refused. *)
Snapshot ==
    /\ up
    /\ idle' = SeenIdle /\ lastBusy' = SeenBusy
    /\ UNCHANGED <<up, request, work, active, held, quiet>>

(* Mutant of Acquire: requests count, the work they left behind does not. *)
AcquireWhileWorking(seconds) ==
    /\ up /\ held = 0 /\ active = 0 /\ SeenIdle >= seconds
    /\ held' = HoldSeconds
    /\ idle' = SeenIdle /\ lastBusy' = SeenBusy
    /\ UNCHANGED <<up, request, work, active, quiet>>

(* Mutant of Acquire: whoever asks again gets the hold renewed. *)
AcquireAgain(seconds) ==
    /\ up /\ ~SeenBusy /\ SeenIdle >= seconds
    /\ held' = HoldSeconds
    /\ idle' = SeenIdle /\ lastBusy' = SeenBusy
    /\ UNCHANGED <<up, request, work, active, quiet>>

(* acquire *)
Acquire(seconds) ==
    /\ up /\ held = 0 /\ ~SeenBusy /\ SeenIdle >= seconds
    /\ held' = HoldSeconds
    /\ idle' = SeenIdle /\ lastBusy' = SeenBusy
    /\ UNCHANGED <<up, request, work, active, quiet>>

(* release *)
Release ==
    /\ up /\ held' = 0 /\ idle' = 0
    /\ UNCHANGED <<up, request, work, active, lastBusy, quiet>>

Second ==
    /\ up
    /\ held' = IF held = 0 THEN 0 ELSE held - 1
    /\ idle' = Later(idle)
    /\ quiet' = IF UnderWay THEN 0 ELSE Later(quiet)
    /\ UNCHANGED <<up, request, work, active, lastBusy>>

-----------------------------------------------------------------------------
Cleared ==
    /\ request' = [q \in Requests |-> "out"] /\ work' = {}
    /\ active' = 0 /\ held' = 0 /\ idle' = 0 /\ lastBusy' = FALSE /\ quiet' = 0

(* The process ends, with all that is under way in it. *)
Stop == up /\ up' = FALSE /\ Cleared
Start == ~up /\ up' = TRUE /\ Cleared

GateInit ==
    /\ up = TRUE /\ request = [q \in Requests |-> "out"] /\ work = {}
    /\ active = 0 /\ held = 0 /\ idle = 0 /\ lastBusy = FALSE /\ quiet = 0

Serve ==
    \/ \E q \in Requests :
          \/ Enter(q) \/ Respond(q) \/ Stream(q) \/ StreamEnds(q) \/ Close(q)
          \/ \E w \in Works : BeginWork(q, w)
    \/ \E w \in Works : EndWork(w)
    \/ Snapshot

Control == (\E seconds \in 0..MaxIdle : Acquire(seconds)) \/ Release

GateNext == Serve \/ Control \/ Second \/ Stop \/ Start

GateSpec == GateInit /\ [][GateNext]_gateVars

-----------------------------------------------------------------------------
GateTypeOK ==
    /\ up \in BOOLEAN /\ lastBusy \in BOOLEAN
    /\ request \in [Requests -> {"out", "admitted", "streaming", "finished"}]
    /\ work \subseteq Works
    /\ active \in Nat /\ held \in 0..HoldSeconds
    /\ idle \in 0..MaxIdle /\ quiet \in 0..MaxIdle

(* The counter that the gate decides by is the number of requests that were *)
(* admitted and have not ended, whichever of the end of a stream, its       *)
(* closing, an error and a lost connection ends them (install_routes).      *)
ActiveCounts == active = Cardinality(Counted)

(* While a hold lasts nothing is under way in the server: no request that  *)
(* was admitted, no stream, no work that a request has left behind, and    *)
(* none can begin (MaintenanceGate.enter, acquire, install_routes).        *)
Exclusive == held > 0 => ~UnderWay

(* A hold that was asked for after so many quiet seconds is granted only   *)
(* after so many seconds in which nothing was under way, although work     *)
(* ends without a word to the gate (snapshot, _last_busy).                 *)
IdleIsReal ==
    [][\A seconds \in 0..MaxIdle : Acquire(seconds) => quiet >= seconds]_gateVars

(* A controller that crashed does not close the server for ever: every     *)
(* hold ends (acquire).                                                    *)
HoldEnds == held > 0 ~> held = 0
=============================================================================
