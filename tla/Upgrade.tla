------------------------------- MODULE Upgrade -------------------------------
(***************************************************************************)
(* An operator manages the agent of one device: the release registry and   *)
(* the device's slot on the server (AgentLifecycle), the host with its     *)
(* updater (AgentHost), and the messages between them. The updater asks    *)
(* for its operation, for the archive, and reports; every failure of       *)
(* report is swallowed and looks the same to it. A request may be lost,    *)
(* its answer may be lost after the server has acted on it, and it may be  *)
(* acted on after the updater has given up waiting.                        *)
(***************************************************************************)
EXTENDS AgentLifecycle

CONSTANTS
  Broken, Torn, MaxFaults,   \* see AgentHost
  ServedFields               \* the keys of the operation the server serves

ASSUME TheFirstReleaseWorks == Broken \subseteq Release \ {Bootstrap}

VARIABLES
  disk, running, pc, job, faults,   \* see AgentHost
  late                              \* reports the server has yet to act on

Host == INSTANCE AgentHost

ASSUME NoneIsNoData ==
  /\ Torn \notin Release \union {None} /\ None \notin Release
  /\ None \notin Host!InstallMarkers /\ None \notin Host!UpdaterMarkers /\ None \notin Host!Results
  /\ None \notin [from : Release, to : Release] /\ None \notin Slots

serverVars == <<registryVars, lifecycleVars>>
agentVars == <<disk, running, pc, job, faults>>
vars == <<serverVars, agentVars, late>>

\* operation: the keys the updater knows; with any other key it refuses the
\* operation, and the run ends with an error.
AllowedFields ==
  {"operation_id", "action", "state", "target_version", "target_wheel_sha256", "archive_sha256",
   "previous_version", "failure_category", "rollback_available", "requested_at", "updated_at",
   "completed_at"}
Understood == ServedFields \subseteq AllowedFields

\* _view: the keys of every operation the server serves.
ViewFields == AllowedFields \union {"failure_detail"}

Init == RegistryInit /\ LifecycleInit /\ Host!HostInit /\ late = {}

(***************************************************************************)
(* The server on its own: operators, heartbeats, a damaged store.          *)
(***************************************************************************)
Operator ==
  /\ \/ (\E r \in Release : Register(r) \/ Activate(r)) /\ UNCHANGED lifecycleVars
     \/ (RequestUpgradeReads \/ RequestUpgrade \/ RequestRollback) /\ UNCHANGED registryVars
  /\ UNCHANGED <<agentVars, late>>

Heartbeat ==
  /\ running # None /\ HearVersion(Version(running))
  /\ UNCHANGED <<registryVars, agentVars, late>>

StoreDamaged ==
  /\ Host!Fault /\ \E r \in Release : LoseObject(r)
  /\ UNCHANGED <<lifecycleVars, disk, running, pc, job, late>>

(***************************************************************************)
(* The requests of the updater.                                            *)
(***************************************************************************)
\* request fails: the exception ends the run, what is on disk stays.
RequestFails ==
  /\ pc \in {"fetch", "download"} /\ Host!Fault
  /\ pc' = "idle" /\ job' = Host!NoJob
  /\ UNCHANGED <<serverVars, disk, running, late>>

\* main without a marker: nothing to do, an operation it refuses, or a new one,
\* saved with the release it starts from.
FetchOperation ==
  /\ pc = "fetch"
  /\ IF DeviceOperation = None \/ ~Understood
     THEN pc' = "idle" /\ job' = Host!NoJob /\ UNCHANGED disk
     ELSE LET op == [id |-> slot.id, action |-> slot.action,
                     target |-> slot.target, version |-> slot.version]
          IN /\ disk' = [disk EXCEPT !.marker = [op |-> op, previous |-> disk.record, final |-> None]]
             /\ job' = [job EXCEPT !.op = op] /\ pc' = "run"
  /\ UNCHANGED <<serverVars, running, faults, late>>

Download ==
  /\ pc = "download"
  /\ IF DeviceArchive(job.op.id) = None
     THEN pc' = "idle" /\ job' = Host!NoJob /\ UNCHANGED faults
     ELSE \/ pc' = "reportVerifying" /\ UNCHANGED <<job, faults>>
          \/ Host!Fault /\ Host!Finish(Host!Failure("FAILED", "archive_digest_mismatch"))
  /\ UNCHANGED <<serverVars, disk, running, late>>

Send(report, accepted) ==
  /\ \/ accepted = ReportAccepted(report) /\ DeviceReport(report) /\ UNCHANGED <<late, faults>>
     \/ ~accepted /\ Host!Fault /\ UNCHANGED <<lifecycleVars, late>>
     \/ ~accepted /\ Host!Fault /\ DeviceReport(report) /\ UNCHANGED late
     \/ ~accepted /\ Host!Fault /\ late' = late \union {report} /\ UNCHANGED lifecycleVars
  /\ UNCHANGED registryVars

LateReportArrives ==
  /\ \E report \in late : DeviceReport(report) /\ late' = late \ {report}
  /\ UNCHANGED <<registryVars, agentVars>>

\* upgrade reports each stage and goes on whatever comes of it.
Stage ==
  [reportDownloading |-> "DOWNLOADING", reportVerifying |-> "VERIFYING", reportInstalling |-> "INSTALLING"]
StageWork == [reportDownloading |-> "download", reportVerifying |-> "verify", reportInstalling |-> "install"]
ReportStage ==
  /\ pc \in DOMAIN Stage /\ pc' = StageWork[pc]
  /\ \E accepted \in BOOLEAN :
       Send([id |-> job.op.id, state |-> Stage[pc], detail |-> "none",
             previous |-> None, available |-> FALSE], accepted)
  /\ UNCHANGED <<disk, running, job>>

\* The result is in the marker before it is reported, and the marker stays
\* until the server has answered.
ReportFinal ==
  /\ pc = "reportFinal"
  /\ \E accepted \in BOOLEAN :
       /\ Send([id |-> job.op.id, state |-> job.result.state, detail |-> job.result.detail,
                previous |-> job.result.previous, available |-> job.result.available], accepted)
       /\ pc' = IF accepted THEN "unlink" ELSE "idle"
       /\ job' = IF accepted THEN job ELSE Host!NoJob
  /\ UNCHANGED <<disk, running>>

ForgetOperation ==
  /\ pc = "unlink" /\ pc' = "idle" /\ job' = Host!NoJob
  /\ disk' = [disk EXCEPT !.marker = None]
  /\ UNCHANGED <<serverVars, running, faults, late>>

Updater ==
  \/ (Host!LocalStep \/ Host!TimerFires) /\ UNCHANGED <<serverVars, late>>
  \/ FetchOperation \/ Download \/ ReportStage \/ ReportFinal \/ ForgetOperation

Interrupted == Host!Interruption /\ UNCHANGED <<serverVars, late>>
Restarted == Host!Boot /\ UNCHANGED <<serverVars, late>>
BrokenServiceFails == running \in Broken /\ Host!ServiceFails /\ UNCHANGED <<serverVars, late>>

Next ==
  \/ Operator \/ Heartbeat \/ StoreDamaged
  \/ Updater \/ Interrupted \/ Restarted \/ RequestFails \/ LateReportArrives

\* The timer goes on firing, a host that lost power comes back, the updater takes
\* its steps, and a service that never becomes healthy does not stay up. Faults are
\* bounded, so that its requests are answered.
Fairness == WF_vars(Updater) /\ WF_vars(Restarted) /\ WF_vars(BrokenServiceFails)

Spec == Init /\ [][Next]_vars /\ Fairness

(***************************************************************************)
(* Properties                                                              *)
(***************************************************************************)
\* At every instant, through every interruption, the host holds an intact
\* environment that it can run or put back (switch_package, rollback).
AgentIsNeverLost == disk.venv \in Release \/ disk.candidate \in Release

\* When no switch is under way or interrupted, VERSION names the environment in
\* place. The retained environment is another one and VERSION.previous names it,
\* unless a rollback was cut short by a failure of its own recovery: then either
\* what it gave up is left as venv.candidate and nothing is retained, or
\* VERSION.previous names the release in place, to which no later operation rolls
\* back (rollback l.565-584). The retained environment need not be whole: when its removal
\* fails and the switch is then undone, what is left of it stays.
SettledDiskIsConsistent ==
  pc = "idle" /\ disk.install = None =>
    /\ disk.venv = disk.record /\ disk.venv \in Release
    /\ disk.candidate # None =>
         /\ disk.previous = None
         /\ disk.candidate = disk.recordCandidate /\ disk.candidate \in Release \ {disk.venv}
    /\ disk.previous # None =>
         /\ disk.previous # disk.record
         /\ \/ disk.recordPrevious = disk.record
            \/ disk.recordPrevious \in Release /\ disk.previous \in {disk.recordPrevious, Torn}

\* What a result says of the host. ROLLBACK_FAILED asks for local repair and
\* promises nothing. A rollback that FAILED leaves the host whole on either release:
\* its own recovery may have failed with the target in place, and when power fails
\* between its success and its result it runs again and finds nothing to do.
ResultIsTrue(op, before, final) ==
  /\ final.state = "SUCCEEDED" => disk.venv = op.target /\ disk.record = op.target
  /\ final.state = "ROLLED_BACK" /\ op.action = "UPGRADE" => disk.venv = before
  /\ final.state = "ROLLED_BACK" /\ op.action = "ROLLBACK" => disk.venv = op.target /\ disk.record = op.target
  /\ final.state = "FAILED" /\ op.action = "UPGRADE" => disk.venv = before
  /\ final.state = "FAILED" /\ op.action = "ROLLBACK" =>
       disk.venv = disk.record /\ disk.venv \in {before, op.target}

\* The result on disk describes the host until it is reported, however often the
\* run was interrupted, and a result the server holds for that operation is it.
FinalResultIsTrue ==
  disk.marker # None /\ disk.marker.final # None =>
    LET final == disk.marker.final
    IN /\ ResultIsTrue(disk.marker.op, disk.marker.previous, final)
       /\ slot # None /\ slot.id = disk.marker.op.id /\ slot.state \in Terminal =>
            /\ slot.state = final.state /\ slot.detail = final.detail
            /\ slot.available = final.available

\* What the dashboard offers can be had: the upgrade it offers is accepted, and
\* the rollback it offers is to the release VERSION.previous names, whose
\* environment the host has retained. (It may be the remains of it: the updater
\* offers what it finds under venv.previous. And VERSION.previous may name the
\* release in place: see SettledDiskIsConsistent.)
OffersAreReal ==
  /\ UpgradeOffered => UpgradeAllowed(ActiveArtifact)
  /\ slot # None /\ slot.state = "SUCCEEDED" /\ slot.available =>
       /\ disk.venv = slot.target /\ disk.recordPrevious = slot.previous
       /\ disk.previous \in {slot.previous, Torn} \/ slot.previous = slot.target

\* States the updater never leaves by itself. Power failed after the old
\* environment was put back and before its record was; the answer to a result was
\* lost and the operator has replaced the operation; the archive is unavailable.
HalfRestored == pc = "idle" /\ disk.install # None /\ disk.candidate = None /\ disk.record # disk.venv
ResultOrphaned == disk.marker # None /\ disk.marker.final # None /\ slot.id # disk.marker.op.id
ArchiveUnavailable == InProgress /\ slot.action = "UPGRADE" /\ ArchiveFor(slot.target) = None
Stranded == HalfRestored \/ ResultOrphaned \/ ArchiveUnavailable

\* Every operation ends, whatever was interrupted or lost, unless the host is
\* stranded.
OperationsEnd ==
  \A id \in 1..MaxOperations :
    (InProgress /\ slot.id = id) ~> (~(InProgress /\ slot.id = id) \/ Stranded)

\* An operation that is served is taken up by the updater (API_SPEC.md: the read
\* returns only action, identifier, version and digests).
OperationsAreTakenUp == (InProgress /\ slot.state = "REQUESTED") ~> disk.marker # None

\* The host implements what Installation promises. The release it keeps is the one
\* that waits as venv.candidate of a marked switch, or else the one in place: the
\* rename of venv.candidate on acceptance is the commit, or the removal of the marker
\* when rollback keeps the target it could not undo. A switch is under way while its
\* marker says so and the old environment is out of its place.
Installed == IF disk.candidate # None /\ disk.install # None THEN disk.candidate ELSE disk.venv
UnderWay ==
  IF Host!InstallPhase \in {"SWITCHING", "SWITCHED"} /\ disk.venv # disk.install.previous
  THEN [from |-> disk.install.previous, to |-> disk.install.target] ELSE None
Begun ==
  IF disk.marker # None THEN disk.marker.op.id
  ELSE IF InProgress THEN operations - 1 ELSE operations

Contract == INSTANCE Installation WITH
  installed <- Installed, switch <- UnderWay, attempt <- disk.marker, turn <- Begun

\* Through every interruption and every lost or late message, operations are
\* attempted in order, once each; one moves the host at most once, and only to a
\* release that runs there; and it ends with one result, which says which release
\* the host keeps (agent-updater.py main, switch_package, recover_install).
ImplementsInstallation == Contract!Spec
=============================================================================
