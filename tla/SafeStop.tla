------------------------------ MODULE SafeStop ------------------------------
(***************************************************************************)
(* Who uses the gate of MaintenanceGate: the control centre when it        *)
(* updates, repairs or stops the server (windows-app/src/scheduler.rs) and *)
(* the scripts that do the stopping (scripts/windows/*.ps1), which the     *)
(* control centre starts or the user runs (install, relocate, uninstall).  *)
(* Between the hold and the end of the server process time passes, the     *)
(* controller may die, and answers may be lost.                            *)
(***************************************************************************)
EXTENDS MaintenanceGate

CONSTANTS
    IdleSeconds,   \* quiet time an automatic update waits for (60)
    SwitchSeconds, \* from its hold to the end of the server a controller
                   \* that lives takes no longer than this
    ServerDies     \* whether the server may end by itself

ASSUME SwitchAssumption ==
    /\ IdleSeconds \in 0..MaxIdle
    /\ SwitchSeconds \in Nat /\ SwitchSeconds < HoldSeconds
    /\ ServerDies \in BOOLEAN

VARIABLES
    controller,  \* where the operation is
    own,         \* the server granted the hold to this operation
    elapsed      \* seconds since the grant, if it did

controlVars == <<controller, own, elapsed>>
vars == <<gateVars, controlVars>>

Over == controller' = "none" /\ own' = FALSE /\ elapsed' = 0

-----------------------------------------------------------------------------
(* acquire of the control centre: an update waits for quiet seconds, a stop *)
(* or a repair does not.  When the answer is lost the hold stays.           *)
AskForHold ==
    /\ controller = "none"
    /\ \E seconds \in {0, IdleSeconds} : Acquire(seconds)
    /\ \/ controller' = "holding" /\ own' = TRUE /\ elapsed' = 0
       \/ Over

(* try_apply, repair: the script takes over, the control centre exits. *)
SpawnScript ==
    /\ controller = "holding" /\ controller' = "script"
    /\ UNCHANGED <<gateVars, own, elapsed>>

(* stop_safely: stop-server.ps1 at once. *)
StopAtOnce ==
    /\ controller = "holding" /\ controller' = "stopping"
    /\ UNCHANGED <<gateVars, own, elapsed>>

(* The state cannot be saved or the script not be started, or the server    *)
(* not be stopped: the hold is given back, if the request arrives.          *)
GiveBack ==
    /\ controller \in {"holding", "stopping"}
    /\ Over
    /\ Release \/ UNCHANGED gateVars

(* A script that the user runs. *)
RunScript ==
    /\ controller = "none" /\ controller' = "script"
    /\ own' = FALSE /\ elapsed' = 0
    /\ UNCHANGED gateVars

(* Mutant of RequestSafeMaintenance: without a hold the script goes on. *)
RequestSafeMaintenanceInsists ==
    /\ controller = "script"
    /\ controller' = "stopping" /\ own' = TRUE /\ elapsed' = 0
    /\ Acquire(0) \/ UNCHANGED gateVars

(* Request-SafeMaintenance: a hold that is there will do; otherwise one is  *)
(* asked for, and without it nothing is stopped.                            *)
RequestSafeMaintenance ==
    /\ controller = "script"
    /\ \/ /\ up /\ held > 0
          /\ controller' = "stopping" /\ UNCHANGED <<gateVars, own, elapsed>>
       \/ /\ Acquire(0)
          /\ \/ controller' = "stopping" /\ own' = TRUE /\ elapsed' = 0
             \/ Over
       \/ /\ held = 0
          /\ Over /\ UNCHANGED gateVars

(* stop-server.ps1 *)
StopServer ==
    /\ controller = "stopping" /\ Stop /\ Over

(* The script fails or dies, at any point. *)
ScriptDies ==
    /\ controller # "none" /\ Over /\ UNCHANGED gateVars

Operate == \/ AskForHold \/ SpawnScript \/ StopAtOnce \/ GiveBack \/ RunScript
           \/ RequestSafeMaintenance \/ StopServer \/ ScriptDies

(* A controller that took the hold and lives is not slower than             *)
(* SwitchSeconds.                                                           *)
Tick ==
    /\ Second
    /\ \/ ~own /\ UNCHANGED controlVars
       \/ /\ own /\ elapsed < SwitchSeconds
          /\ elapsed' = elapsed + 1 /\ UNCHANGED <<controller, own>>

(* The server ends by itself, and starts. *)
Die == ServerDies /\ Stop /\ own' = FALSE /\ elapsed' = 0 /\ UNCHANGED controller

Init == GateInit /\ controller = "none" /\ own = FALSE /\ elapsed = 0

Next == \/ Operate \/ Tick \/ Die
        \/ (Serve \/ Start) /\ UNCHANGED controlVars

Spec == Init /\ [][Next]_vars

(* Time passes, and an operation goes on or dies. *)
FairSpec == Spec /\ WF_vars(Tick) /\ WF_vars(controller # "none" /\ Operate)

-----------------------------------------------------------------------------
TypeOK ==
    /\ controller \in {"none", "holding", "script", "stopping"}
    /\ own \in BOOLEAN /\ elapsed \in 0..SwitchSeconds
    /\ controller = "none" => ~own /\ elapsed = 0

Stopped == controller = "stopping" /\ controller' = "none" /\ up /\ ~up'

(* An operation that took the hold itself stops a server in which nothing   *)
(* is under way, however the seconds of the hold were spent (try_apply,     *)
(* stop_safely, Request-SafeMaintenance).                                   *)
OwnHoldProtects == [][Stopped /\ own => ~UnderWay]_vars
=============================================================================
