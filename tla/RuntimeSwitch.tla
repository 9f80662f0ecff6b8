--------------------------- MODULE RuntimeSwitch ---------------------------
(***************************************************************************)
(* What an update does around the stop of SafeStop: the control centre     *)
(* prepares and announces it (windows-app/src/scheduler.rs), a script      *)
(* replaces the files under a journal, lets the candidate prove itself,    *)
(* and commits or restores (scripts/windows/runtime.ps1), and a control    *)
(* centre that starts recovers what was interrupted (recover-install.ps1). *)
(*                                                                         *)
(* One script at a time owns .operation.lock; it lives on when the control *)
(* centre that started it ends, and may die between any two of its steps.  *)
(* start-server.ps1 runs without the lock when the control centre starts   *)
(* it, and writes server-executable.txt long after it has read it.         *)
(* Versions are numbers, bin is the set of versions whose files are in it, *)
(* and an executable is known by its version.                              *)
(***************************************************************************)
EXTENDS SafeStop

CONSTANTS
    Releases,  \* versions are 1..Releases, the first one is installed
    Faults     \* bound on failed steps and deaths, of scripts and processes

ASSUME ReleasesAssumption ==
    /\ Releases \in Nat \ {0} /\ Faults \in Nat
    /\ ServerDies  \* a server stopped without a hold ends by itself for SafeStop

VARIABLES
    serving,      \* version of the server process, 0 if there is none
    bin,          \* versions in the directory bin
    executable,   \* server-executable.txt: the version it points to
    version,      \* installed-version.txt
    journal,      \* transaction.json
    state,        \* state.json
    prepared,     \* prepared.json: the version of the candidate, or 0
    panel,        \* where the control centre is
    panelVersion, \* its own version, 0 if there is none
    willStart,    \* it was told to start the server
    script,       \* where the script is that owns .operation.lock
    by,           \* which script that is
    wasRunning,   \* Apply-PreparedRuntime: the server was running
    oldServer,    \* its variable: the server's executable, 0 before it is read
    keep,         \* -KeepStopped
    starter,      \* start-server.ps1 without the lock; bound: one at a time
    overtaken,    \* history: it has written what server-executable.txt said
                  \* once over something else, and no switch has ended right since
    faults        \* failures and deaths still to come

\* The files of the installation, and who writes them without the lock.
fileVars == <<bin, executable, version, starter, overtaken>>
recordVars == <<journal, state, prepared>>
panelVars == <<panel, panelVersion, willStart>>
scriptVars == <<script, by, wasRunning, oldServer, keep>>
switchVars == <<serving, fileVars, recordVars, panelVars, scriptVars, faults>>
allVars == <<vars, switchVars>>

Versions == 1..Releases
Settled == journal.phase # "switching"

Fault == faults > 0 /\ faults' = faults - 1

(* The server process comes and goes as in SafeStop. *)
Launch(v) == Start /\ UNCHANGED controlVars /\ serving' = v
Kill == Die /\ serving' = 0

(* stop-server.ps1 knows the process by the executable it is told to run. *)
Managed == up /\ serving = executable

-----------------------------------------------------------------------------
(* The control centre is started by the user or at logon, or by a script   *)
(* when there is none.  Started while a script replaces its files, it is   *)
(* in the way: one of the Faults.                                          *)
PanelStarts ==
    /\ panel = "off" /\ panel' = "recovering"
    /\ panelVersion' \in bin /\ willStart' \in BOOLEAN
    /\ IF script = "none" THEN UNCHANGED faults ELSE Fault
    /\ UNCHANGED <<vars, serving, fileVars, recordVars, scriptVars>>

PanelEnds == panel' = "off" /\ panelVersion' = 0 /\ willStart' = FALSE

StartPanel(launch) ==
    IF panel = "off"
    THEN panel' = "recovering" /\ panelVersion' \in bin /\ willStart' = launch
    ELSE UNCHANGED panelVars

(* The user quits it or logs off, or it dies; a hold it took is left       *)
(* behind.                                                                 *)
PanelCloses ==
    /\ panel # "off" /\ PanelEnds
    /\ IF panel \in {"idle", "stranded"} THEN UNCHANGED faults ELSE Fault
    /\ IF controller = "holding" \/ (controller = "stopping" /\ script = "none")
       THEN ScriptDies ELSE UNCHANGED vars
    /\ UNCHANGED <<serving, fileVars, recordVars, scriptVars>>

(* Mutant of RecoverInstallation: a busy lock is taken for nothing to do. *)
RecoverInstallationOnce ==
    /\ panel = "recovering"
    /\ \/ /\ script = "none" /\ ~Settled
          /\ panel' = "watching" /\ script' = "restoring" /\ by' = "recover"
       \/ /\ script # "none" \/ Settled
          /\ panel' = "starting" /\ UNCHANGED <<script, by>>
    /\ UNCHANGED <<vars, serving, fileVars, recordVars, panelVersion, willStart,
                   wasRunning, oldServer, keep, faults>>

(* recover_installation: waits for the lock, and restores what the journal *)
(* says was interrupted.                                                   *)
RecoverInstallation ==
    /\ panel = "recovering" /\ script = "none"
    /\ IF Settled
       THEN panel' = "starting" /\ UNCHANGED <<script, by>>
       ELSE panel' = "watching" /\ script' = "restoring" /\ by' = "recover"
    /\ UNCHANGED <<vars, serving, fileVars, recordVars, panelVersion, willStart,
                   wasRunning, oldServer, keep, faults>>

(* start-server.ps1 without the lock, from the line that reads             *)
(* server-executable.txt; its package is the version of the scripts.       *)
NoStart == [at |-> "none", exe |-> 1, package |-> 1]

BeginStart ==
    /\ starter.at = "none"
    /\ \E package \in bin :
         starter' = [at |-> "read", exe |-> executable, package |-> package]

(* start: --post-install or --autostart without --keep-stopped. *)
StartService ==
    /\ panel = "starting" /\ willStart
    /\ BeginStart /\ panel' = "launching" /\ willStart' = FALSE
    /\ UNCHANGED <<vars, serving, bin, executable, version, overtaken, recordVars,
                   panelVersion, scriptVars, faults>>

(* Mutant of Reconciled: only what is being prepared counts as interrupted. *)
ReconciledInPart(s, installed) ==
    IF installed >= s.version THEN [s EXCEPT !.phase = "current"]
    ELSE IF s.phase = "preparing" THEN [s EXCEPT !.phase = "failed"]
    ELSE s

(* reconcile_update *)
Reconciled(s, installed) ==
    IF installed >= s.version THEN [s EXCEPT !.phase = "current"]
    ELSE IF s.phase \in {"switching", "preparing"} THEN [s EXCEPT !.phase = "failed"]
    ELSE s

Reconcile ==
    /\ panel = "reconciling" \/ (panel = "starting" /\ ~willStart)
    /\ panel' = "idle" /\ state' = Reconciled(state, panelVersion)
    /\ UNCHANGED <<vars, serving, fileVars, journal, prepared, panelVersion, willStart,
                   scriptVars, faults>>

PanelIsFree == panel = "idle" /\ controller \notin {"holding", "stopping"}

(* The user starts the server: offered while none answers (home_status)    *)
(* and no update is pending (perform).                                     *)
UserStarts ==
    /\ PanelIsFree /\ ~up /\ state.phase \in {"current", "failed"}
    /\ BeginStart /\ panel' = "working"
    /\ UNCHANGED <<vars, serving, bin, executable, version, overtaken, recordVars,
                   panelVersion, willStart, scriptVars, faults>>

(* prepare_update: a newer version is downloaded and staged beside the one *)
(* that runs.  A version that failed is tried again at the user's request. *)
PrepareUpdate ==
    /\ PanelIsFree /\ state.phase \in {"current", "failed"}
    /\ \E v \in Versions : v > panelVersion /\ state' = [phase |-> "preparing", version |-> v]
    /\ panel' = "preparing"
    /\ UNCHANGED <<vars, serving, fileVars, journal, prepared, panelVersion,
                   willStart, scriptVars, faults>>

(* install.ps1 -PrepareOnly *)
UpdatePrepared ==
    /\ panel = "preparing" /\ panel' = "idle"
    /\ \/ /\ script = "none" /\ prepared' = state.version
          /\ state' = [state EXCEPT !.phase = "ready"] /\ UNCHANGED faults
       \/ /\ script # "none" \/ faults > 0
          /\ state' = [state EXCEPT !.phase = "failed"]
          /\ faults' = IF script = "none" THEN faults - 1 ELSE faults
          /\ UNCHANGED prepared
    /\ UNCHANGED <<vars, serving, fileVars, journal, panelVersion, willStart, scriptVars>>

-----------------------------------------------------------------------------
(* What start-server.ps1 does without the lock, at the latest for the 60   *)
(* seconds of its deadline; it survives the control centre that waits.     *)

(* Save-ManagedProcess: the executable is written as it was read. *)
SavePointer ==
    /\ executable' = starter.exe
    /\ overtaken' = (overtaken \/ executable # starter.exe)
KeepPointer == UNCHANGED <<executable, overtaken>>

StarterMoves(at) == starter' = [starter EXCEPT !.at = at] /\ UNCHANGED panelVars

StarterEnds ==
    /\ starter' = NoStart
    /\ panel' = CASE panel = "launching" -> "reconciling"
                  [] panel = "working" -> "idle"
                  [] OTHER -> panel
    /\ UNCHANGED <<panelVersion, willStart>>

Expected == up /\ serving = starter.exe /\ starter.exe = starter.package

(* The catch clause kills the server that runs, if it is this executable. *)
KillOwn == IF up /\ serving = starter.exe THEN Kill ELSE UNCHANGED <<vars, serving>>

(* A server that runs is taken over or refused; else one is launched. *)
LookAtPort ==
    /\ starter.at = "read"
    /\ \/ Expected /\ StarterMoves("healthy") /\ KeepPointer
       \/ up /\ ~Expected /\ StarterEnds /\ KeepPointer
       \/ ~up /\ StarterMoves("waiting") /\ SavePointer
    /\ UNCHANGED <<vars, serving, faults>>

(* The process opens the port, or finds it taken, or comes to nothing. *)
AwaitHealth ==
    /\ starter.at = "waiting" /\ KeepPointer
    /\ \/ /\ Launch(starter.exe) /\ UNCHANGED faults
          /\ StarterMoves(IF starter.exe = starter.package THEN "healthy" ELSE "failing")
       \/ Expected /\ StarterMoves("healthy") /\ UNCHANGED <<vars, serving, faults>>
       \/ /\ StarterEnds
          /\ IF up THEN KillOwn /\ UNCHANGED faults
             ELSE Fault /\ UNCHANGED <<vars, serving>>

(* What is found healthy is saved once more; another version is given up. *)
FinishStart ==
    /\ StarterEnds /\ UNCHANGED faults
    /\ \/ starter.at = "healthy" /\ SavePointer /\ UNCHANGED <<vars, serving>>
       \/ /\ starter.at = "failing" /\ KeepPointer
          /\ KillOwn

StartGoesOn ==
    /\ LookAtPort \/ AwaitHealth \/ FinishStart
    /\ UNCHANGED <<bin, version, recordVars, scriptVars>>

-----------------------------------------------------------------------------
(* acquire, for an update or to stop the server. *)
PanelAsks ==
    /\ panel = "idle" /\ AskForHold
    /\ UNCHANGED switchVars

(* try_apply: the phase is saved, with the hold if a server runs. *)
Announce ==
    /\ panel = "idle" /\ state.phase = "ready"
    /\ controller = (IF up THEN "holding" ELSE "none")
    /\ panel' = "switching" /\ state' = [state EXCEPT !.phase = "switching"]
    /\ UNCHANGED <<vars, serving, fileVars, journal, prepared, panelVersion,
                   willStart, scriptVars, faults>>

(* The script is started, looks whether a server runs, and the control      *)
(* centre exits.                                                            *)
SpawnUpdate ==
    /\ panel = "switching" /\ PanelEnds
    /\ SpawnScript \/ RunScript
    /\ keep' = (controller = "none" \/ ~up)
    /\ UNCHANGED <<serving, fileVars, recordVars, script, by, wasRunning, oldServer, faults>>

(* It cannot be started: update_failed. *)
SpawnFails ==
    /\ panel = "switching" /\ panel' = "idle" /\ Fault
    /\ GiveBack \/ (controller = "none" /\ UNCHANGED vars)
    /\ state' = [state EXCEPT !.phase = "failed"]
    /\ UNCHANGED <<serving, fileVars, journal, prepared, panelVersion, willStart,
                   scriptVars>>

(* stop_safely *)
PanelStops ==
    /\ panel = "idle" /\ script = "none"
    /\ \/ StopAtOnce /\ UNCHANGED serving
       \/ GiveBack /\ UNCHANGED serving
       \/ Managed /\ StopServer /\ serving' = 0
    /\ UNCHANGED <<fileVars, recordVars, panelVars, scriptVars, faults>>

(* The installer that the user runs prepares and applies at once.  Run     *)
(* into a switch that is not over, or for what is installed, it is one of  *)
(* the Faults.                                                             *)
UserInstalls ==
    /\ RunScript /\ script = "none"
    /\ script' = "entered" /\ by' = "install" /\ keep' = FALSE
    /\ prepared' = Releases
    /\ IF Settled /\ state.phase # "switching" /\ version < Releases
       THEN UNCHANGED faults ELSE Fault
    /\ UNCHANGED <<serving, fileVars, journal, state, panelVars, wasRunning, oldServer>>

-----------------------------------------------------------------------------
(* apply-update.ps1 takes the lock. *)
EnterRuntimeOperation ==
    /\ controller = "script" /\ script = "none"
    /\ script' = "entered" /\ by' = "update"
    /\ UNCHANGED <<vars, serving, fileVars, recordVars, panelVars, wasRunning, oldServer,
                   keep, faults>>

(* Another script has it, or the control centre does not exit. *)
EnterFails ==
    /\ controller = "script" /\ by \notin {"update", "install"}
    /\ IF script = "none" THEN Fault ELSE UNCHANGED faults
    /\ ScriptDies /\ StartPanel(~keep)
    /\ UNCHANGED <<serving, fileVars, recordVars, scriptVars>>

(* The owner of the lock ends: apply-update.ps1 starts the control centre  *)
(* whatever happened, recover-install.ps1 when it has restored.            *)
ScriptEnds(restored) ==
    /\ script' = "none" /\ by' = "none" /\ wasRunning' = FALSE /\ oldServer' = 0
    /\ CASE by = "update" -> StartPanel(~keep)
         [] by = "recover" /\ restored -> StartPanel(journal.wasRunning)
         [] OTHER -> UNCHANGED panelVars
    /\ keep' = FALSE

(* Apply-PreparedRuntime up to the hold, for which server-executable.txt is *)
(* read, and why it goes no further: an unsettled journal, a server of     *)
(* somebody else, work under way.                                          *)
RequestHold ==
    /\ script = "entered"
    /\ \/ /\ Settled /\ prepared # 0 /\ script' = "held" /\ wasRunning' = up
          /\ oldServer' = executable
          /\ IF up THEN /\ Managed /\ serving = version
                        /\ RequestSafeMaintenance /\ controller' = "stopping"
             ELSE ScriptDies
          /\ UNCHANGED <<panelVars, by, keep>>
       \/ /\ ~Settled \/ prepared = 0 \/ (up /\ ~(Managed /\ serving = version))
          /\ ScriptDies /\ ScriptEnds(FALSE)
       \/ /\ Settled /\ Managed
          /\ RequestSafeMaintenance /\ controller' = "none" /\ ScriptEnds(FALSE)
    /\ UNCHANGED <<serving, fileVars, recordVars, faults>>

(* The files of bin are saved, then the journal says what is to be undone. *)
WriteJournal ==
    /\ script = "held" /\ script' = "journalled"
    /\ journal' = [phase |-> "switching", old |-> version, server |-> oldServer,
                   new |-> prepared, wasRunning |-> wasRunning /\ ~keep]
    /\ UNCHANGED <<vars, serving, fileVars, state, prepared, panelVars, by,
                   wasRunning, oldServer, keep, faults>>

(* stop-server.ps1; it refuses when the process is gone. *)
StopOld ==
    /\ script = "journalled"
    /\ \/ wasRunning /\ Managed /\ StopServer /\ serving' = 0 /\ script' = "stopped"
       \/ wasRunning /\ ~Managed /\ ScriptDies /\ script' = "restoring" /\ UNCHANGED serving
       \/ ~wasRunning /\ script' = "stopped" /\ UNCHANGED <<vars, serving>>
    /\ UNCHANGED <<fileVars, recordVars, panelVars, by, wasRunning, oldServer, keep, faults>>

(* Stop-ManagedControlPanel; what it was about to stop stays held. *)
StopPanel ==
    /\ \/ script = "stopped" /\ script' = "alone"
       \/ script = "restoring" /\ script' = "restoringAlone"
    /\ PanelEnds
    /\ IF controller = "holding" THEN ScriptDies ELSE UNCHANGED vars
    /\ UNCHANGED <<serving, fileVars, recordVars, by, wasRunning, oldServer, keep, faults>>

(* A step of the script that touches neither the server nor the records. *)
Step(from, to) ==
    /\ script = from /\ script' = to
    /\ UNCHANGED <<vars, serving, recordVars, by, wasRunning, oldServer, keep, faults>>

(* Files are copied over bin; a control centre that runs keeps its own     *)
(* from being replaced by another version.                                 *)
CopyFiles(from, through, to, target) ==
    /\ UNCHANGED <<executable, version, starter, overtaken, panelVars>>
    /\ panel = "off" \/ (script = through /\ panelVersion = target)
    /\ \/ Step(from, through) /\ bin' = bin \cup {target}
       \/ Step(through, to) /\ bin' = {target}

CopyCandidate == CopyFiles("alone", "copying", "copied", journal.new)
CopyBackup == CopyFiles("restoringStopped", "copyingBack", "copiedBack", journal.old)

(* Mutant of PointBack: the server's path is left to the next start. *)
PointNowhere ==
    /\ Step("markedBack", "restored") /\ UNCHANGED <<fileVars, panelVars>>

PointToCandidate ==
    /\ Step("copied", "pointed") /\ executable' = journal.new
    /\ UNCHANGED <<bin, version, starter, overtaken, panelVars>>
MarkCandidate ==
    /\ Step("pointed", "marked") /\ version' = journal.new
    /\ UNCHANGED <<bin, executable, starter, overtaken, panelVars>>
MarkBack ==
    /\ Step("copiedBack", "markedBack") /\ version' = journal.old
    /\ UNCHANGED <<bin, executable, starter, overtaken, panelVars>>
PointBack ==
    /\ Step("markedBack", "restored") /\ executable' = journal.server
    /\ UNCHANGED <<bin, version, starter, overtaken, panelVars>>

(* start-server.ps1, under the lock: the candidate is started, if that is  *)
(* still what server-executable.txt says ...                               *)
StartCandidate ==
    /\ script = "marked"
    /\ \/ /\ executable = journal.new /\ script' = "launched"
          /\ Launch(executable) \/ (Managed /\ UNCHANGED <<vars, serving>>)
       \/ /\ executable # journal.new \/ (up /\ ~Managed)
          /\ script' = "restoring" /\ UNCHANGED <<vars, serving>>
    /\ UNCHANGED <<fileVars, recordVars, panelVars, by, wasRunning, oldServer, keep, faults>>

(* ... and is healthy or not; the executable is saved as it was read.      *)
CandidateHealthy ==
    /\ script = "launched"
    /\ \/ /\ up /\ serving = journal.new /\ script' = (IF wasRunning /\ ~keep THEN "checked" ELSE "healthy")
          /\ executable' = journal.new /\ UNCHANGED <<vars, serving, faults>>
       \/ /\ up /\ serving = journal.new /\ Fault /\ Kill /\ script' = "restoring"
          /\ UNCHANGED executable
       \/ /\ ~(up /\ serving = journal.new) /\ script' = "restoring"
          /\ UNCHANGED <<vars, serving, executable, faults>>
    /\ UNCHANGED <<bin, version, starter, overtaken, recordVars, panelVars, by,
                   wasRunning, oldServer, keep>>

(* An installation that did not run, or is not to, is stopped again: there *)
(* is no hold on the candidate.                                            *)
StopAgain ==
    /\ script = "healthy"
    /\ \/ Managed /\ Kill /\ script' = "checked"
       \/ ~Managed /\ script' = "restoring" /\ UNCHANGED <<vars, serving>>
    /\ UNCHANGED <<fileVars, recordVars, panelVars, by, wasRunning, oldServer, keep, faults>>

(* The transaction in memory is committed before the file is written: when *)
(* that fails nothing is restored, and the file says switching.            *)
Commit ==
    /\ script = "checked"
    /\ \/ /\ journal' = [journal EXCEPT !.phase = "committed"] /\ script' = "committed"
          /\ overtaken' = (overtaken /\ executable # journal.new)
          /\ UNCHANGED <<panelVars, by, wasRunning, oldServer, keep, faults>>
       \/ Fault /\ ScriptEnds(FALSE) /\ UNCHANGED <<journal, overtaken>>
    /\ UNCHANGED <<vars, serving, bin, executable, version, starter, state, prepared>>

(* state.json and the end, of a commit and of a restoration. *)
SaveState ==
    /\ \/ script = "committed" /\ script' = "saved"
          /\ state' = [phase |-> "current", version |-> journal.new]
       \/ script = "rolledBack" /\ script' = "savedBack"
          /\ state' = [phase |-> "failed", version |-> journal.new]
    /\ UNCHANGED <<vars, serving, fileVars, journal, prepared, panelVars, by,
                   wasRunning, oldServer, keep, faults>>

Finish ==
    /\ \/ script = "saved" /\ prepared' = 0
       \/ script = "savedBack" /\ UNCHANGED prepared
    /\ ScriptEnds(TRUE)
    /\ UNCHANGED <<vars, serving, fileVars, journal, state, faults>>

-----------------------------------------------------------------------------
(* Restore-RuntimeTransaction, of the script that failed or of a later one. *)
StopCandidate ==
    /\ script = "restoringAlone" /\ script' = "restoringStopped"
    /\ IF Managed THEN Kill ELSE UNCHANGED <<vars, serving>>
    /\ UNCHANGED <<fileVars, recordVars, panelVars, by, wasRunning, oldServer, keep, faults>>

(* start-server.ps1, under the lock, for what was running: as for the      *)
(* candidate, but what fails here ends the restoration.                    *)
RestartOld ==
    /\ script = "restored"
    /\ \/ /\ ~journal.wasRunning /\ script' = "restarted"
          /\ UNCHANGED <<vars, serving, panelVars, by, wasRunning, oldServer, keep>>
       \/ /\ journal.wasRunning /\ executable = journal.old /\ script' = "restarting"
          /\ Launch(executable) \/ (Managed /\ UNCHANGED <<vars, serving>>)
          /\ UNCHANGED <<panelVars, by, wasRunning, oldServer, keep>>
       \/ /\ journal.wasRunning
          /\ executable # journal.old \/ (up /\ ~Managed)
          /\ ScriptEnds(FALSE) /\ UNCHANGED <<vars, serving>>
    /\ UNCHANGED <<fileVars, recordVars, faults>>

OldHealthy ==
    /\ script = "restarting"
    /\ \/ /\ up /\ serving = journal.old /\ script' = "restarted"
          /\ executable' = journal.old
          /\ UNCHANGED <<vars, serving, panelVars, by, wasRunning, oldServer, keep, faults>>
       \/ /\ up /\ serving = journal.old /\ Fault /\ Kill
          /\ ScriptEnds(FALSE) /\ UNCHANGED executable
       \/ /\ ~(up /\ serving = journal.old) /\ ScriptEnds(FALSE)
          /\ UNCHANGED <<vars, serving, executable, faults>>
    /\ UNCHANGED <<bin, version, starter, overtaken, recordVars>>

RollBack ==
    /\ script = "restarted" /\ script' = "rolledBack"
    /\ journal' = [journal EXCEPT !.phase = "rolledBack"]
    /\ overtaken' = (overtaken /\ executable # journal.old)
    /\ UNCHANGED <<vars, serving, bin, executable, version, starter, state, prepared,
                   panelVars, by, wasRunning, oldServer, keep, faults>>

(* What fails in the try of Apply-PreparedRuntime is restored. *)
ApplyFails ==
    /\ script \in {"journalled", "stopped", "alone", "copying", "copied", "pointed",
                   "marked", "healthy", "checked"}
    /\ \/ Fault
       \/ script \in {"alone", "copying"} /\ panel # "off" /\ UNCHANGED faults
    /\ script' = "restoring"
    /\ IF controller = "stopping" THEN ScriptDies ELSE UNCHANGED vars
    /\ UNCHANGED <<serving, fileVars, recordVars, panelVars, by, wasRunning, oldServer, keep>>

(* What fails while restoring ends the script.  A control centre that      *)
(* waits for it gives up.                                                  *)
RestoreFails ==
    /\ script \in {"restoring", "restoringAlone", "restoringStopped", "copyingBack",
                   "copiedBack", "markedBack", "restarted"}
    /\ \/ Fault
       \/ script \in {"restoringStopped", "copyingBack"} /\ panel # "off" /\ UNCHANGED faults
    /\ IF panel = "watching"
       THEN /\ script' = "none" /\ by' = "none" /\ wasRunning' = FALSE
            /\ oldServer' = 0 /\ keep' = FALSE
            /\ panel' = "stranded" /\ UNCHANGED <<panelVersion, willStart>>
       ELSE ScriptEnds(FALSE)
    /\ UNCHANGED <<vars, serving, fileVars, recordVars>>

(* The script dies with its lock; nobody starts the control centre. *)
ScriptIsKilled ==
    /\ script # "none" /\ Fault
    /\ script' = "none" /\ by' = "none" /\ wasRunning' = FALSE /\ oldServer' = 0 /\ keep' = FALSE
    /\ panel' = IF panel = "watching" THEN "stranded" ELSE panel
    /\ IF script = "entered" \/ controller = "stopping" THEN ScriptDies ELSE UNCHANGED vars
    /\ UNCHANGED <<serving, fileVars, recordVars, panelVersion, willStart>>

-----------------------------------------------------------------------------
Panel ==
    \/ PanelStarts \/ PanelCloses \/ RecoverInstallation
    \/ StartService \/ Reconcile \/ UserStarts \/ PrepareUpdate \/ UpdatePrepared
    \/ PanelAsks \/ Announce \/ SpawnUpdate \/ SpawnFails \/ PanelStops

(* What the owner of the lock does of its own accord. *)
ScriptGoesOn ==
    \/ RequestHold \/ WriteJournal \/ StopOld \/ StopPanel \/ CopyCandidate
    \/ PointToCandidate \/ MarkCandidate \/ StartCandidate \/ CandidateHealthy
    \/ StopAgain \/ Commit \/ SaveState \/ Finish \/ ApplyFails \/ RestoreFails
    \/ StopCandidate \/ CopyBackup \/ MarkBack \/ PointBack \/ RestartOld
    \/ OldHealthy \/ RollBack

ServerDiesAlone ==
    /\ Kill /\ Fault
    /\ UNCHANGED <<fileVars, recordVars, panelVars, scriptVars>>

(* Bound: requests come and go while no script is past its journal and no  *)
(* start is between two of its looks, none of which is at the requests.    *)
GateMoves ==
    /\ \/ Tick
       \/ /\ script \in {"none", "entered", "held", "journalled"}
          /\ starter.at \in {"none", "waiting"}
          /\ Serve /\ UNCHANGED controlVars
    /\ UNCHANGED switchVars

SwitchInit ==
    /\ Init /\ serving = 1 /\ bin = {1} /\ executable = 1 /\ version = 1
    /\ starter = NoStart /\ overtaken = FALSE
    /\ journal = [phase |-> "committed", old |-> 1, server |-> 1, new |-> 1,
                  wasRunning |-> TRUE]
    /\ state = [phase |-> "current", version |-> 1] /\ prepared = 0
    /\ panel = "idle" /\ panelVersion = 1 /\ willStart = FALSE
    /\ script = "none" /\ by = "none" /\ wasRunning = FALSE
    /\ oldServer = 0 /\ keep = FALSE
    /\ faults = Faults

SwitchNext ==
    \/ Panel \/ UserInstalls \/ EnterRuntimeOperation \/ EnterFails
    \/ ScriptGoesOn \/ StartGoesOn \/ ScriptIsKilled \/ ServerDiesAlone \/ GateMoves

(* What the control centre does of its own accord. *)
PanelGoesOn ==
    \/ PanelStarts \/ RecoverInstallation \/ StartService \/ Reconcile
    \/ UpdatePrepared \/ SpawnUpdate

SwitchSpec == SwitchInit /\ [][SwitchNext]_allVars

(* Time passes, scripts go on (start-server.ps1 has a deadline), and the   *)
(* control centre is started and, at the end of a session, closed.         *)
SwitchFairSpec ==
    /\ SwitchSpec
    /\ WF_allVars(Tick /\ UNCHANGED switchVars)
    /\ WF_script(ScriptGoesOn \/ EnterRuntimeOperation)
    /\ WF_starter(StartGoesOn)
    /\ WF_panelVars(PanelGoesOn) /\ WF_allVars(PanelStops)
    /\ SF_panel(panel \in {"idle", "stranded"} /\ PanelCloses)

-----------------------------------------------------------------------------
FilesOK ==
    /\ serving \in 0..Releases /\ bin \subseteq Versions
    /\ executable \in Versions /\ version \in Versions
    /\ starter \in [at : {"none", "read", "waiting", "healthy", "failing"},
                    exe : Versions, package : Versions]
    /\ overtaken \in BOOLEAN
RecordsOK ==
    /\ journal \in [phase : {"switching", "committed", "rolledBack"},
                    old : Versions, server : Versions, new : Versions,
                    wasRunning : BOOLEAN]
    /\ state \in [phase : {"current", "preparing", "ready", "switching", "failed"},
                  version : Versions]
    /\ prepared \in 0..Releases
PanelOK ==
    /\ panel \in {"off", "recovering", "watching", "stranded", "starting",
                  "launching", "reconciling", "idle", "working", "preparing",
                  "switching"}
    /\ panelVersion \in 0..Releases /\ willStart \in BOOLEAN
ScriptOK ==
    /\ by \in {"none", "update", "install", "recover"}
    /\ wasRunning \in BOOLEAN /\ oldServer \in 0..Releases
    /\ keep \in BOOLEAN /\ faults \in 0..Faults

SwitchTypeOK == FilesOK /\ RecordsOK /\ PanelOK /\ ScriptOK

(* Whatever failed or died, when nothing is left to recover one version is *)
(* installed: the files, the server that they start and the version that   *)
(* they say they are belong together, and are the ones that the journal    *)
(* names (Apply-PreparedRuntime, Restore-RuntimeTransaction).  The server   *)
(* is excepted once a start that waited outside the lock has put back what *)
(* server-executable.txt said when it began.                               *)
OldOrNew ==
    Settled =>
        /\ version = (IF journal.phase = "committed" THEN journal.new ELSE journal.old)
        /\ bin = {version} /\ (~overtaken => executable = version)

(* A control centre that is at rest is the one that is installed, and the  *)
(* phase it shows is true: no update is announced that nobody carries out, *)
(* none is called current that is not installed (reconcile_update).        *)
PhaseIsTrue ==
    panel = "idle" /\ script = "none" =>
        /\ panelVersion = version
        /\ state.phase # "switching"
        /\ state.phase = "current" => state.version <= version

(* An interrupted switch does not stay so: the journal is settled and the  *)
(* phase is no longer switching (recover_installation, reconcile_update).  *)
(* Unless a start without the lock has put back what it had read: then     *)
(* stop-server.ps1 does not find the server that runs, and every           *)
(* restoration may end because the port is used.                           *)
SwitchEnds ==
    ~Settled \/ state.phase = "switching"
        ~> (Settled /\ state.phase # "switching") \/ overtaken

(* The gate sees what SafeStop allows. *)
SafeStopSpec == Spec
=============================================================================
