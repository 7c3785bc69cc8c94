---------------------------- MODULE AgentLifecycle ----------------------------
(***************************************************************************)
(* The server's side of managing one device's agent:                       *)
(* server/app/lifecycle/service.py behind api/lifecycle.py. A device has   *)
(* one slot, which holds the operation an operator asked for last. The     *)
(* device's updater reads it, fetches its archive and reports progress and *)
(* one result. A new operation replaces a finished one.                    *)
(*                                                                         *)
(* A request for an upgrade reads the active release in a transaction of   *)
(* its own and the slot in the next, under the device's row lock; between  *)
(* the two another release may be activated and the slot may change. Every *)
(* other request is one transaction. The device's credential is accepted   *)
(* (Identity.tla is about that); a refused one is a message that is lost.  *)
(***************************************************************************)
EXTENDS Releases

CONSTANTS
  FirstCapable,   \* FIRST_CAPABLE_VERSION
  MaxOperations   \* bound: operations requested of the device

\* Versions are compared by their order alone: a version stands for its place.
ASSUME VersionsAreNumbers == FirstCapable \in Nat /\ \A r \in Release : Version(r) \in Nat

VARIABLES
  slot,         \* the DeviceAgentLifecycle row, None when there is none
  latest,       \* DeviceLatest.agent_version: the version last heard of
  intent,       \* the artifact an upgrade request has read, None without one
  operations    \* operations requested so far

lifecycleVars == <<slot, latest, intent, operations>>

Progress == <<"REQUESTED", "DOWNLOADING", "VERIFYING", "INSTALLING", "RESTARTING", "VERIFYING_HEALTH">>
Active == {Progress[i] : i \in DOMAIN Progress}
Terminal == {"SUCCEEDED", "FAILED", "ROLLED_BACK", "ROLLBACK_FAILED"}

\* DETAIL_CATEGORY: a detail fixes its category, "none" has none.
DetailCategory ==
  [archive_digest_mismatch |-> "verification_failed", bundle_verification_failed |-> "verification_failed",
   previous_release_mismatch |-> "verification_failed", installer_failed |-> "installation_failed",
   interrupted_switch |-> "installation_failed", rollback_target_unhealthy |-> "health_check_failed",
   previous_service_unhealthy |-> "rollback_failed", none |-> "none"]

States == Active \union Terminal
Versions == {Version(r) : r \in Release}
Slots ==
  [id : Nat, action : {"UPGRADE", "ROLLBACK"}, state : States, target : Release, version : Versions,
   previousVersion : Versions \union {None}, previous : Release \union {None}, available : BOOLEAN,
   detail : DOMAIN DetailCategory]

LifecycleInit == slot = None /\ latest = None /\ intent = None /\ operations = 0

InProgress == slot # None /\ slot.state \in Active

(***************************************************************************)
(* Requests of operators.                                                  *)
(***************************************************************************)
NewOperation(action, target, version, previousVersion, previousWheel) ==
  [id |-> operations + 1, action |-> action, state |-> "REQUESTED", target |-> target,
   version |-> version, previousVersion |-> previousVersion, previous |-> previousWheel,
   available |-> FALSE, detail |-> "none"]

RequestUpgradeReads ==
  /\ intent = None /\ ActiveArtifact # None
  /\ intent' = ActiveArtifact
  /\ UNCHANGED <<slot, latest, operations>>

\* The operation in progress, or a success with the same release, is returned as
\* it is; anything else in progress is a conflict.
Repeated(release) ==
  /\ slot # None /\ slot.target = release
  /\ slot.state = "SUCCEEDED" \/ (InProgress /\ slot.action = "UPGRADE")
UpgradeAllowed(release) ==
  /\ ~InProgress /\ ~Repeated(release)
  /\ latest # None /\ latest >= FirstCapable /\ Version(release) > latest

RequestUpgrade ==
  /\ intent # None /\ operations < MaxOperations
  /\ intent' = None
  /\ IF UpgradeAllowed(intent)
     THEN /\ slot' = NewOperation("UPGRADE", intent, Version(intent), latest, None)
          /\ operations' = operations + 1
     ELSE UNCHANGED <<slot, operations>>
  /\ UNCHANGED latest

RollbackAllowed ==
  /\ slot # None /\ slot.state = "SUCCEEDED" /\ slot.available
  /\ slot.previousVersion # None /\ slot.previous # None
  /\ latest = slot.version

RequestRollback ==
  /\ RollbackAllowed /\ operations < MaxOperations
  /\ slot' = NewOperation("ROLLBACK", slot.previous, slot.previousVersion, slot.version, slot.target)
  /\ operations' = operations + 1
  /\ UNCHANGED <<latest, intent>>

\* overview: the actions the dashboard offers.
Compatibility ==
  CASE InProgress -> "IN_PROGRESS"
    [] ~InProgress /\ latest = None -> "UNKNOWN"
    [] ~InProgress /\ latest # None /\ latest < FirstCapable -> "BOOTSTRAP_REQUIRED"
    [] ~InProgress /\ latest # None /\ latest >= FirstCapable ->
         IF ActiveArtifact = None THEN "RELEASE_UNAVAILABLE"
         ELSE IF latest = Version(ActiveArtifact) THEN "CURRENT"
         ELSE IF latest < Version(ActiveArtifact) THEN "UPGRADE_AVAILABLE" ELSE "NEWER_THAN_APPROVED"
UpgradeOffered ==
  /\ Compatibility = "UPGRADE_AVAILABLE"
  /\ ~(slot # None /\ slot.state = "SUCCEEDED" /\ slot.version = Version(ActiveArtifact))

\* A heartbeat is accepted; it names the version that sent it.
HearVersion(version) ==
  /\ latest' = version
  /\ UNCHANGED <<slot, intent, operations>>

(***************************************************************************)
(* Requests of the device.                                                 *)
(***************************************************************************)
DeviceOperation == IF InProgress THEN slot ELSE None

\* The release device_archive serves, None for 404 and 503.
DeviceArchive(id) ==
  IF InProgress /\ slot.id = id /\ slot.action = "UPGRADE" THEN ArchiveFor(slot.target) ELSE None

\* What device_report refuses before it looks at the slot.
WellFormed(report) ==
  LET category == DetailCategory[report.detail]
  IN /\ report.state \in {"FAILED", "ROLLBACK_FAILED"} => category # "none"
     /\ category # "none" => report.state \in {"FAILED", "ROLLBACK_FAILED", "ROLLED_BACK"}
     /\ report.previous # None => report.state = "SUCCEEDED"
     /\ report.available => report.previous # None

SameResult(report) ==
  /\ slot.detail = report.detail /\ slot.available = report.available
  /\ slot.state = "SUCCEEDED" => slot.previous = report.previous

FitsAction(report) ==
  /\ report.state = "SUCCEEDED" => slot.action = "UPGRADE"
  /\ report.state = "ROLLED_BACK" => (slot.action = "ROLLBACK" <=> report.detail = "none")

Step(state) == CHOOSE i \in DOMAIN Progress : Progress[i] = state
InOrder(report) == report.state \in Active => Step(report.state) > Step(slot.state)

ReportIsNew(report) ==
  /\ WellFormed(report) /\ slot # None /\ slot.id = report.id
  /\ InProgress /\ slot.state # report.state /\ InOrder(report) /\ FitsAction(report)

\* Repeating the state of the slot succeeds if a result is the recorded one.
ReportAccepted(report) ==
  \/ ReportIsNew(report)
  \/ /\ WellFormed(report) /\ slot # None /\ slot.id = report.id /\ slot.state = report.state
     /\ slot.state \in Terminal => SameResult(report)

SlotAfter(report) ==
  IF ~ReportIsNew(report) THEN slot
  ELSE [slot EXCEPT
    !.state = report.state,
    !.detail = IF report.state \in Terminal THEN report.detail ELSE "none",
    !.previous = IF report.state = "SUCCEEDED" /\ report.previous # None THEN report.previous ELSE @,
    !.available = IF report.state = "SUCCEEDED" /\ report.previous # None THEN report.available ELSE @]

DeviceReport(report) == slot' = SlotAfter(report) /\ UNCHANGED <<latest, intent, operations>>
=============================================================================
