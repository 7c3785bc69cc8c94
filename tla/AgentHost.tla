------------------------------ MODULE AgentHost ------------------------------
(***************************************************************************)
(* One monitored host: scripts/agent-updater.py and the installer it runs  *)
(* (install-agent.sh, lib/skybeat_agent_install.sh). A timer starts the    *)
(* updater as a one-shot; it repairs an interrupted switch, then finishes  *)
(* the operation of its own marker or fetches one. An upgrade or a         *)
(* rollback moves virtual environments and version records about, one      *)
(* rename at a time, and power may fail between any two of them.           *)
(*                                                                         *)
(* disk is what survives a power loss: the environments venv, venv.new,    *)
(* venv.candidate and venv.previous, the records VERSION,                  *)
(* VERSION.candidate and VERSION.previous, the installer's marker and the  *)
(* updater's. A tree being removed or built, and a file being rewritten in *)
(* place, is Torn. Renames and fsynced writes are atomic. Unit files       *)
(* follow the records and are left out. A release is identified by its     *)
(* wheel; the registry keeps versions and wheels one to one.               *)
(*                                                                         *)
(* What the host asks of the server is in Upgrade.tla. The installer is    *)
(* not run by hand while the updater is running.                           *)
(***************************************************************************)
EXTENDS Naturals

CONSTANTS
  Release,      \* the releases there are
  Version(_),   \* the version each carries
  Bootstrap,    \* the release installed by hand first
  Broken,       \* releases whose service never becomes healthy
  None, Torn,
  MaxFaults     \* bound: power losses, kills, failed commands and messages

VARIABLES
  disk,      \* everything under /opt/skybeat and /var/lib/skybeat
  running,   \* the release whose service runs, None when it is stopped
  pc,        \* where the updater, or the installer it runs, is
  job,       \* the updater's local variables
  faults

\* What the markers hold: the installer's, and the updater's for its operation
\* with the release it starts from and, once there is one, the result.
Phases == {"STAGED", "SWITCHING", "SWITCHED", "ROLLED_BACK", "ROLLBACK_FAILED"}
Actions == {"UPGRADE", "ROLLBACK"}
InstallMarkers == [phase : Phases, action : Actions, target : Release, previous : Release]
Requests == [id : Nat, action : Actions, target : Release, version : {Version(r) : r \in Release}]
Results ==
  [state : {"SUCCEEDED", "FAILED", "ROLLED_BACK", "ROLLBACK_FAILED"},
   detail : {"archive_digest_mismatch", "bundle_verification_failed", "previous_release_mismatch",
             "installer_failed", "interrupted_switch", "rollback_target_unhealthy",
             "previous_service_unhealthy", "none"},
   previous : Release \union {None}, available : BOOLEAN]
UpdaterMarkers == [op : Requests, previous : Release, final : Results \union {None}]

Goto(here, next) == pc = here /\ pc' = next
Fault == faults < MaxFaults /\ faults' = faults + 1

\* A result of an operation: what report sends and the marker keeps.
Result(state, detail, previous, available) ==
  [state |-> state, detail |-> detail, previous |-> previous, available |-> available]
Failure(state, detail) == Result(state, detail, None, FALSE)

NoJob == [op |-> None, before |-> None, recovered |-> "none", context |-> "none", result |-> None]

HostInit ==
  /\ disk = [venv |-> Bootstrap, new |-> None, candidate |-> None, previous |-> None,
             record |-> Bootstrap, recordCandidate |-> None, recordPrevious |-> None,
             install |-> None, marker |-> None]
  /\ running = Bootstrap /\ pc = "idle" /\ job = NoJob /\ faults = 0

\* What a restart of the service runs: nothing without an intact environment. A
\* start of a service that runs does nothing.
Startable == IF disk.venv \in Release THEN disk.venv ELSE None
Started == IF running # None THEN running ELSE Startable

\* A stop that fails, or times out, may have stopped the service or not.
MaybeStopped == running' \in {running, None}

\* local_health and verify_local_health: the environment holds the expected
\* version and the service stays up, whichever environment it was started from. A
\* healthy service may miss the check.
Healthy(version, service) ==
  version \in Release /\ disk.venv = version /\ service \in Release \ Broken
HealthCheck(version, service, ok) ==
  IF ok THEN Healthy(version, service) /\ UNCHANGED faults
        ELSE IF Healthy(version, service) THEN Fault ELSE UNCHANGED faults

Finish(result) == job' = [job EXCEPT !.result = result] /\ pc' = "saveFinal"

\* rm -rf and shutil.rmtree: power may fail when half of the tree is gone.
RemoveTree(dir, here, next) ==
  /\ pc = here
  /\ IF disk[dir] # Torn
     THEN disk' = [disk EXCEPT ![dir] = Torn] /\ pc' = here
     ELSE disk' = [disk EXCEPT ![dir] = None] /\ pc' = next
  /\ UNCHANGED <<running, job, faults>>

(***************************************************************************)
(* The timer, and what ends a run early.                                   *)
(***************************************************************************)
\* main, under the lock: each run begins by looking for an interrupted switch.
TimerFires ==
  /\ Goto("idle", "recover")
  /\ job' = NoJob
  /\ UNCHANGED <<disk, running, faults>>

PowerLoss ==
  /\ pc # "off" /\ Fault
  /\ pc' = "off" /\ running' = None /\ job' = NoJob
  /\ UNCHANGED disk

Boot ==
  /\ Goto("off", "idle")
  /\ running' = Startable
  /\ UNCHANGED <<disk, job, faults>>

\* systemd ends a run that exceeds TimeoutStartSec, its installer with it.
UpdaterKilled ==
  /\ pc \notin {"idle", "off"} /\ Fault
  /\ pc' = "idle" /\ job' = NoJob
  /\ UNCHANGED <<disk, running>>

\* systemd restarts a service that fails, from the environment in place.
ServiceFails ==
  /\ running # None /\ running' = Startable
  /\ UNCHANGED <<disk, pc, job, faults>>

(***************************************************************************)
(* recover_install                                                         *)
(***************************************************************************)
Recovered(outcome) == pc' = "pending" /\ job' = [job EXCEPT !.recovered = outcome]
InstallPhase == IF disk.install = None THEN "NONE" ELSE disk.install.phase

\* A removal cut short leaves phase STAGED and is repeated by the next run.
RecoverAtRest ==
  /\ pc = "recover"
  /\ \/ /\ InstallPhase = "NONE" /\ Recovered("none")
        /\ UNCHANGED disk
     \/ /\ InstallPhase = "STAGED" /\ Recovered("retry")
        /\ disk' = [disk EXCEPT !.new = None, !.recordCandidate = None, !.install = None]
     \/ /\ InstallPhase = "ROLLED_BACK" /\ Recovered("rolled_back")
        /\ disk' = [disk EXCEPT !.install = None]
     \/ /\ InstallPhase = "ROLLBACK_FAILED" /\ Recovered("rollback_failed")
        /\ UNCHANGED disk
  /\ UNCHANGED <<running, faults>>

(* Mutant: a new release that VERSION names is accepted though it may not run. *)
RecoverSwitchedUnchecked ==
  /\ pc = "recover" /\ InstallPhase \in {"SWITCHING", "SWITCHED"}
  /\ pc' = IF disk.record = disk.install.target THEN "acceptPrune" ELSE "recoverPrevious"
  /\ job' = [job EXCEPT !.context = "recovery"]
  /\ UNCHANGED <<disk, running, faults>>

\* The new release is in place and healthy: its acceptance is completed.
RecoverSwitched ==
  /\ pc = "recover" /\ InstallPhase \in {"SWITCHING", "SWITCHED"}
  /\ \E ok \in BOOLEAN :
       /\ IF disk.record = disk.install.target
          THEN HealthCheck(disk.record, running, ok) ELSE ~ok /\ UNCHANGED faults
       /\ pc' = IF ok THEN "acceptPrune" ELSE "recoverPrevious"
  /\ job' = [job EXCEPT !.context = "recovery"]
  /\ UNCHANGED <<disk, running>>

(* Mutant: what is in place is never looked at, only the candidate. *)
RecoverFromCandidate ==
  /\ Goto("recoverPrevious", "restore")
  /\ UNCHANGED <<disk, running, job, faults>>

\* The old release was never replaced, or was put back.
RecoverPrevious ==
  /\ pc = "recoverPrevious"
  /\ IF disk.record # disk.install.previous
     THEN pc' = "restore" /\ UNCHANGED <<disk, running, job, faults>>
     ELSE \/ \E ok \in BOOLEAN :
               /\ running' = Started
               /\ HealthCheck(disk.record, Started, ok)
               /\ IF ok THEN Recovered("rolled_back") /\ disk' = [disk EXCEPT !.install = None]
                        ELSE pc' = "restore" /\ UNCHANGED <<disk, job>>
          \/ Fault /\ pc' = "restore" /\ UNCHANGED <<disk, running, job>>   \* the start fails

(***************************************************************************)
(* Acceptance of a switch: accept_switch, the same moves in                *)
(* recover_install, and the end of rollback.                               *)
(***************************************************************************)
PruneNeeded ==
  disk.previous # None /\ (job.context = "installer" \/ disk.candidate # None)

AcceptPrune ==
  IF PruneNeeded
  THEN RemoveTree("previous", "acceptPrune", "acceptMove")
  ELSE Goto("acceptPrune", "acceptMove") /\ UNCHANGED <<disk, running, job, faults>>

(* Mutant: the old environment is deleted instead of retained. *)
AcceptWithoutRetaining ==
  /\ Goto("acceptMove", "acceptRecord")
  /\ disk' = [disk EXCEPT !.candidate = None]
  /\ UNCHANGED <<running, job, faults>>

AcceptMove ==
  /\ Goto("acceptMove", "acceptRecord")
  /\ disk' = IF disk.candidate = None THEN disk
             ELSE [disk EXCEPT !.previous = disk.candidate, !.candidate = None]
  /\ UNCHANGED <<running, job, faults>>

(* Mutant: VERSION.previous is not replaced. *)
AcceptWithoutRecord == Goto("acceptRecord", "acceptDone") /\ UNCHANGED <<disk, running, job, faults>>

AcceptRecord ==
  /\ Goto("acceptRecord", "acceptDone")
  /\ disk' = IF disk.recordCandidate = None THEN disk
             ELSE [disk EXCEPT !.recordPrevious = disk.recordCandidate, !.recordCandidate = None]
  /\ UNCHANGED <<running, job, faults>>

AcceptDone ==
  /\ pc = "acceptDone"
  /\ disk' = [disk EXCEPT !.install = None]
  /\ CASE job.context = "recovery"  -> Recovered("succeeded")
       [] job.context = "installer" -> Finish(Result("SUCCEEDED", "none", job.before, TRUE))
       [] job.context = "rollback"  -> Finish(Failure("ROLLED_BACK", "none"))
  /\ UNCHANGED <<running, faults>>

\* A command of the acceptance fails. recover_install tries the old release
\* instead, rollback restores it; accept_switch ends the installer (InstallerKilled).
AcceptStepFails ==
  /\ Fault
  /\ \/ /\ job.context = "recovery"
        /\ pc \in {"acceptMove", "acceptRecord", "acceptDone"} \/ (pc = "acceptPrune" /\ PruneNeeded)
        /\ pc' = "recoverPrevious"
     \/ /\ job.context = "rollback" /\ pc \in {"acceptMove", "acceptRecord", "acceptDone"}
        /\ pc' = "restore"
  /\ UNCHANGED <<disk, running, job>>

(***************************************************************************)
(* Putting the old environment back: restore_candidate for the updater,    *)
(* rollback_switch for the installer. restore_candidate gives up at the    *)
(* first command that fails; rollback_switch goes on when stop fails.      *)
(***************************************************************************)
OperatorSwitch == disk.install # None /\ disk.install.action = "ROLLBACK"

(* Mutant: the environment is removed without a candidate to take its place. *)
RestoreUnchecked ==
  /\ Goto("restore", "restoreRemove")
  /\ running' = None
  /\ UNCHANGED <<disk, job, faults>>

\* Without a candidate restore_candidate gives up at once; rollback_switch starts
\* what is there.
RestoreBegin ==
  /\ pc = "restore"
  /\ \/ running' = (IF disk.candidate = None /\ job.context # "installer" THEN running ELSE None)
        /\ UNCHANGED faults
     \/ job.context = "installer" /\ Fault /\ UNCHANGED running      \* systemctl stop || true
  /\ \/ /\ disk.candidate = None
        /\ pc' = IF job.context = "installer" THEN "restoreStart" ELSE "restoreFailed"
        /\ UNCHANGED disk
     \/ /\ disk.candidate # None /\ (disk.venv = None \/ ~OperatorSwitch)
        /\ pc' = IF disk.venv = None THEN "restoreMove" ELSE "restoreRemove"
        /\ UNCHANGED disk
     \/ /\ disk.candidate # None /\ disk.venv # None /\ OperatorSwitch
        /\ disk.previous = None
        /\ pc' = "restoreMove"
        /\ disk' = [disk EXCEPT !.previous = disk.venv, !.venv = None]
  /\ UNCHANGED job

RestoreRemove == RemoveTree("venv", "restoreRemove", "restoreMove")

RestoreMove ==
  /\ Goto("restoreMove", "restoreRecord")
  /\ disk' = [disk EXCEPT !.venv = disk.candidate, !.candidate = None]
  /\ UNCHANGED <<running, job, faults>>

RestoreRecord ==
  /\ Goto("restoreRecord", "restoreStart")
  /\ disk' = IF disk.recordCandidate = None THEN disk
             ELSE [disk EXCEPT !.record = disk.recordCandidate, !.recordCandidate = None]
  /\ UNCHANGED <<running, job, faults>>

\* The installer starts the service and asks the environment for its version, the
\* updater restarts it and asks the record.
RestoreStart ==
  /\ pc = "restoreStart"
  /\ running' = IF job.context = "installer" THEN Started ELSE Startable
  /\ \E ok \in BOOLEAN :
       /\ HealthCheck(IF job.context = "installer" THEN disk.venv ELSE disk.record, running', ok)
       /\ pc' = IF ok THEN "restoreDone" ELSE "restoreFailed"
  /\ UNCHANGED <<disk, job>>

\* restore_candidate returns False where stop, a rename or the restart fails (of
\* the installer's commands only the start, the health check then fails).
RestoreStepFails ==
  /\ Fault /\ MaybeStopped
  /\ \/ job.context # "installer" /\ pc = "restore" /\ disk.candidate # None
     \/ job.context # "installer" /\ pc \in {"restoreRemove", "restoreMove", "restoreRecord"}
     \/ pc = "restoreStart" /\ running = None
  /\ pc' = "restoreFailed"
  /\ UNCHANGED <<disk, job>>

RestoreDone ==
  /\ pc = "restoreDone"
  /\ CASE job.context = "recovery" ->
            Recovered("rolled_back") /\ disk' = [disk EXCEPT !.install = None]
       [] job.context = "rollback" ->
            /\ Finish(Failure("FAILED", "rollback_target_unhealthy"))
            /\ disk' = [disk EXCEPT !.install = None]
       [] job.context = "installer" ->
            /\ disk' = [disk EXCEPT !.install.phase = "ROLLED_BACK"]
            /\ pc' = "restoreSettle" /\ UNCHANGED job
  /\ UNCHANGED <<running, faults>>

RestoreSettle ==
  /\ Goto("restoreSettle", "installerFailed")
  /\ disk' = [disk EXCEPT !.recordCandidate = None, !.install = None]
  /\ UNCHANGED <<running, job, faults>>

\* recover_install gives up: the run ends with an error, the marker stays.
RestoreFailed ==
  /\ pc = "restoreFailed"
  /\ CASE job.context = "recovery"  -> pc' = "idle" /\ job' = NoJob /\ UNCHANGED disk
       [] job.context = "rollback"  -> pc' = "rollbackRecheck" /\ UNCHANGED <<disk, job>>
       [] job.context = "installer" -> /\ pc' = "installerFailed" /\ UNCHANGED job
                                       /\ disk' = [disk EXCEPT !.install.phase = "ROLLBACK_FAILED"]
  /\ UNCHANGED <<running, faults>>

(***************************************************************************)
(* main: the operation in the marker, or a new one (Upgrade.tla fetches).  *)
(***************************************************************************)
Synthesized(recovered, action) ==
  CASE recovered = "succeeded" /\ action = "UPGRADE" ->
         Result("SUCCEEDED", "none", disk.marker.previous, disk.previous # None)
    [] recovered = "succeeded" /\ action = "ROLLBACK" -> Failure("ROLLED_BACK", "none")
    [] recovered = "rolled_back" /\ action = "UPGRADE" -> Failure("ROLLED_BACK", "interrupted_switch")
    [] recovered = "rolled_back" /\ action = "ROLLBACK" -> Failure("FAILED", "rollback_target_unhealthy")
    [] recovered = "rollback_failed" -> Failure("ROLLBACK_FAILED", "previous_service_unhealthy")

Pending ==
  /\ pc = "pending"
  /\ \/ /\ disk.marker = None
        /\ pc' = "fetch" /\ UNCHANGED job
     \/ /\ disk.marker # None /\ disk.marker.final # None
        /\ job' = [job EXCEPT !.op = disk.marker.op, !.result = disk.marker.final]
        /\ pc' = "reportFinal"
     \/ /\ disk.marker # None /\ disk.marker.final = None
        /\ IF job.recovered \in {"none", "retry"}
           THEN job' = [job EXCEPT !.op = disk.marker.op] /\ pc' = "run"
           ELSE /\ job' = [job EXCEPT !.op = disk.marker.op,
                             !.result = Synthesized(job.recovered, disk.marker.op.action)]
                /\ pc' = "saveFinal"
  /\ UNCHANGED <<disk, running, faults>>

SaveFinal ==
  /\ Goto("saveFinal", "reportFinal")
  /\ disk' = [disk EXCEPT !.marker.final = job.result]
  /\ UNCHANGED <<running, job, faults>>

(***************************************************************************)
(* upgrade, with the installer's steps. pc "report..." and "download" are  *)
(* taken by Upgrade.tla.                                                   *)
(***************************************************************************)
UpgradeBegin ==
  /\ pc = "run" /\ job.op.action = "UPGRADE"
  /\ IF disk.record = job.op.target
     THEN Finish(Result("SUCCEEDED", "none", disk.recordPrevious,
                        disk.recordPrevious # None /\ disk.previous # None))
     ELSE job' = [job EXCEPT !.before = disk.record] /\ pc' = "reportDownloading"
  /\ UNCHANGED <<disk, running, faults>>

\* verify-agent-release.py on the unpacked bundle, as it may also time out.
VerifyBundle ==
  /\ pc = "verify"
  /\ \/ pc' = "reportInstalling" /\ UNCHANGED <<job, faults>>
     \/ Fault /\ Finish(Failure("FAILED", "bundle_verification_failed"))
  /\ UNCHANGED <<disk, running>>

\* The installer recovers first when it finds a marker. Here recover_install has
\* just run and left one only in phase ROLLBACK_FAILED, so that it fails.
InstallPackage ==
  /\ pc = "install"
  /\ IF disk.install # None
     THEN pc' = "installerFailed" /\ UNCHANGED disk
     ELSE disk' = [disk EXCEPT !.new = Torn] /\ pc' = "build"
  /\ UNCHANGED <<running, job, faults>>

BuildEnvironment ==
  /\ pc = "build"
  /\ \/ /\ disk' = [disk EXCEPT !.new = job.op.target] /\ pc' = "stage"
        /\ UNCHANGED faults
     \/ pc' = "installerFailed" /\ Fault /\ UNCHANGED disk
  /\ UNCHANGED <<running, job>>

\* switch_package, up to its first marker.
StageSwitch ==
  /\ pc = "stage"
  /\ IF running = None \/ disk.candidate # None
     THEN pc' = "installerFailed" /\ UNCHANGED disk
     ELSE /\ pc' = "markStaged"
          /\ disk' = [disk EXCEPT !.recordCandidate = disk.record]
  /\ UNCHANGED <<running, job, faults>>

InstallMarker(phase, action) ==
  [phase |-> phase, action |-> action, target |-> job.op.target, previous |-> disk.record]

\* The rest of switch_package, one durable step after the other.
SwitchPackage ==
  \/ /\ Goto("markStaged", "markSwitching")
     /\ disk' = [disk EXCEPT !.install = InstallMarker("STAGED", "UPGRADE")]
     /\ UNCHANGED <<running, job, faults>>
  \/ /\ Goto("markSwitching", "stop")
     /\ disk' = [disk EXCEPT !.install.phase = "SWITCHING"]
     /\ UNCHANGED <<running, job, faults>>
  \/ /\ Goto("stop", "moveOut")
     /\ running' = None
     /\ UNCHANGED <<disk, job, faults>>
  \/ /\ Goto("moveOut", "moveIn")
     /\ disk' = [disk EXCEPT !.candidate = disk.venv, !.venv = None]
     /\ UNCHANGED <<running, job, faults>>
  \/ /\ Goto("moveIn", "record")
     /\ disk' = [disk EXCEPT !.venv = disk.new, !.new = None]
     /\ UNCHANGED <<running, job, faults>>
  \/ /\ Goto("record", "markSwitched")
     /\ disk' = [disk EXCEPT !.record = job.op.target]
     /\ UNCHANGED <<running, job, faults>>
  \/ /\ Goto("markSwitched", "start")
     /\ disk' = [disk EXCEPT !.install.phase = "SWITCHED"]
     /\ UNCHANGED <<running, job, faults>>

\* install_service and verify_installation; the new updater is then installed.
StartNew ==
  /\ pc = "start"
  /\ running' = Startable
  /\ \E ok \in BOOLEAN :
       /\ HealthCheck(job.op.target, Startable, ok)
       /\ pc' = IF ok THEN "acceptPrune" ELSE "restore"
  /\ job' = [job EXCEPT !.context = "installer"]
  /\ UNCHANGED disk

\* A command of the installer fails once the switch has started: the trap
\* restores the old environment.
InstallerStepFails ==
  /\ pc \in {"markSwitching", "stop", "moveOut", "moveIn", "record", "markSwitched", "start"} /\ Fault
  /\ IF pc = "stop" THEN MaybeStopped ELSE UNCHANGED running
  /\ pc' = "restore" /\ job' = [job EXCEPT !.context = "installer"]
  /\ UNCHANGED disk

InInstaller ==
  \/ pc \in {"install", "build", "stage", "markStaged", "markSwitching", "stop", "moveOut",
             "moveIn", "record", "markSwitched", "start", "restoreSettle"}
  \/ job.context = "installer" /\ pc \in {"acceptPrune", "acceptMove", "acceptRecord", "acceptDone",
       "restore", "restoreRemove", "restoreMove", "restoreRecord", "restoreStart",
       "restoreDone", "restoreFailed"}

\* run(timeout=600) kills the installer, which then restores nothing.
InstallerKilled ==
  /\ InInstaller /\ Fault
  /\ pc' = "installerFailed"
  /\ UNCHANGED <<disk, running, job>>

(* Mutant: the installer is trusted to have restored the old environment. *)
InstallerFailedUnchecked ==
  /\ pc = "installerFailed" /\ Finish(Failure("ROLLED_BACK", "installer_failed"))
  /\ UNCHANGED <<disk, running, faults>>

InstallerFailed ==
  /\ pc = "installerFailed"
  /\ \E ok \in BOOLEAN :
       /\ HealthCheck(job.before, running, ok)
       /\ Finish(IF ok THEN Failure("ROLLED_BACK", "installer_failed")
                       ELSE Failure("ROLLBACK_FAILED", "previous_service_unhealthy"))
  /\ UNCHANGED <<disk, running>>

(***************************************************************************)
(* rollback                                                                *)
(***************************************************************************)
RollbackBegin ==
  /\ pc = "run" /\ job.op.action = "ROLLBACK"
  /\ IF disk.previous = None \/ disk.recordPrevious # job.op.target
        \/ Version(disk.recordPrevious) # job.op.version
     THEN Finish(Failure("FAILED", "previous_release_mismatch"))
     ELSE IF disk.candidate # None \/ disk.install # None
     THEN Finish(Failure("FAILED", "interrupted_switch"))
     ELSE pc' = "rollbackMark" /\ job' = [job EXCEPT !.context = "rollback"]
  /\ UNCHANGED <<disk, running, faults>>

RollbackSwitch ==
  \/ /\ Goto("rollbackMark", "rollbackCopy")
     /\ disk' = [disk EXCEPT !.install = InstallMarker("SWITCHING", "ROLLBACK")]
     /\ UNCHANGED <<running, job, faults>>
  \/ /\ Goto("rollbackCopy", "rollbackOut")
     /\ disk' = [disk EXCEPT !.recordCandidate = disk.record]
     /\ UNCHANGED <<running, job, faults>>
  \/ /\ Goto("rollbackOut", "rollbackIn")
     /\ running' = None
     /\ disk' = [disk EXCEPT !.candidate = disk.venv, !.venv = None]
     /\ UNCHANGED <<job, faults>>
  \/ /\ Goto("rollbackIn", "rollbackRecord")
     /\ disk' = [disk EXCEPT !.venv = disk.previous, !.previous = None]
     /\ UNCHANGED <<running, job, faults>>
  \/ /\ pc = "rollbackRecord"                    \* write_bytes rewrites VERSION in place
     /\ disk' = [disk EXCEPT !.record = IF disk.record = Torn THEN disk.recordPrevious ELSE Torn]
     /\ pc' = IF disk.record = Torn THEN "rollbackStart" ELSE "rollbackRecord"
     /\ UNCHANGED <<running, job, faults>>

RollbackStart ==
  /\ pc = "rollbackStart"
  /\ running' = Startable
  /\ \E ok \in BOOLEAN :
       /\ HealthCheck(job.op.target, Startable, ok)
       /\ pc' = IF ok THEN "acceptPrune" ELSE "restore"
  /\ UNCHANGED <<disk, job>>

\* A command of rollback fails, up to the restart. VERSION may be half rewritten.
RollbackStepFails ==
  /\ pc \in {"rollbackMark", "rollbackCopy", "rollbackOut", "rollbackIn", "rollbackRecord",
             "rollbackStart"}
  /\ Fault
  /\ IF pc = "rollbackOut" THEN MaybeStopped ELSE UNCHANGED running
  /\ pc' = "restore"
  /\ UNCHANGED <<disk, job>>

\* restore_candidate returned False: whatever VERSION names is kept when it is
\* healthy, the old release or the target.
RollbackRecheck ==
  /\ pc = "rollbackRecheck"
  /\ \E ok \in BOOLEAN :
       /\ HealthCheck(disk.record, running, ok)
       /\ disk' = IF ok THEN [disk EXCEPT !.install = None] ELSE disk
       /\ Finish(IF ok THEN Failure("FAILED", "interrupted_switch")
                       ELSE Failure("ROLLBACK_FAILED", "previous_service_unhealthy"))
  /\ UNCHANGED running

\* The steps the updater and its installer take without the server.
LocalStep ==
  \/ RecoverAtRest \/ RecoverSwitched \/ RecoverPrevious
  \/ AcceptPrune \/ AcceptMove \/ AcceptRecord \/ AcceptDone
  \/ RestoreBegin \/ RestoreRemove \/ RestoreMove \/ RestoreRecord \/ RestoreStart
  \/ RestoreDone \/ RestoreSettle \/ RestoreFailed
  \/ Pending \/ SaveFinal \/ UpgradeBegin \/ VerifyBundle
  \/ InstallPackage \/ BuildEnvironment \/ StageSwitch \/ SwitchPackage \/ StartNew \/ InstallerFailed
  \/ RollbackBegin \/ RollbackSwitch \/ RollbackStart \/ RollbackRecheck

StepFails == AcceptStepFails \/ RestoreStepFails \/ InstallerStepFails \/ RollbackStepFails

Interruption == PowerLoss \/ UpdaterKilled \/ InstallerKilled \/ StepFails \/ ServiceFails
=============================================================================
