-------------------------- MODULE NotificationPolicy --------------------------
(***************************************************************************)
(* Who is told of an event: server/app/notifications/configuration.py and  *)
(* management.py, and the snapshot _create_event (health/service.py) takes *)
(* of it while the sweep or the heartbeat holds the device's row lock. A   *)
(* device's own policy replaces its project's, and that the deployment's   *)
(* list. Recipients are read in a second statement: of READ COMMITTED, one *)
(* that sees what was committed in between.                                *)
(***************************************************************************)
EXTENDS Fleet

CONSTANTS
  Policy,      \* what may be asked for: [events, recipients]
  Kind,        \* kinds of events
  Deployment   \* alert_email_recipients

VARIABLES
  projectPolicy,   \* ProjectNotificationSettings and -Recipient rows; None without settings
  devicePolicy,    \* DeviceNotificationSettings and -Recipient rows; None without settings
  raising,         \* the alert that is being raised: see AlertBegins
  alerts           \* AlertEvent rows, by id, with the destinations of their deliveries

policyVars == <<projectPolicy, devicePolicy, raising, alerts>>

NothingRaised == [device |-> None]

RecipientsOf(policy) == IF policy = None THEN {} ELSE policy.recipients

\* select_email_policy
SelectEmailPolicy(project, device) ==
  IF device # None THEN [source |-> "DEVICE", policy |-> device]
  ELSE IF project # None THEN [source |-> "PROJECT", policy |-> project]
  ELSE [source |-> "GLOBAL", policy |-> [events |-> Kind, recipients |-> Deployment]]

\* resolve_email_recipients: an empty policy never falls through to another.
Resolved(kind, policy) == IF kind \in policy.events THEN policy.recipients ELSE {}

\* list_devices: the effective policy the console shows.
EffectivePolicy(d) == SelectEmailPolicy(projectPolicy[fleet[d].project], devicePolicy[d])

(***************************************************************************)
(* snapshot_device_email_recipients                                        *)
(***************************************************************************)
\* Mutant: the device is not locked while its policy is replaced.
EveryDeviceIsFree(d) == TRUE

\* A row lock on the device: the alert's transaction holds it until it ends.
DeviceFree(d) == raising.device # d

\* changed is history: the project's policy was replaced in between.
AlertBegins(d, kind) ==
  /\ raising = NothingRaised
  /\ raising' = [device |-> d, kind |-> kind, selected |-> EffectivePolicy(d), changed |-> FALSE]
  /\ UNCHANGED <<projectPolicy, devicePolicy, alerts>>

ReadAgain(d, selected) ==
  CASE selected.source = "DEVICE" -> RecipientsOf(devicePolicy[d])
    [] selected.source = "PROJECT" -> RecipientsOf(projectPolicy[fleet[d].project])
    [] OTHER -> selected.policy.recipients
AlertEnds ==
  LET d == raising.device
      policy == [raising.selected.policy EXCEPT !.recipients = ReadAgain(d, raising.selected)]
  IN /\ raising # NothingRaised /\ raising' = NothingRaised
     /\ alerts' = Append(alerts, [device |-> d, recipients |-> Resolved(raising.kind, policy)])
     /\ UNCHANGED <<projectPolicy, devicePolicy>>

(***************************************************************************)
(* NotificationManagementService                                           *)
(***************************************************************************)
UpdateProjectPolicy(p, policy) ==
  /\ projectPolicy' = [projectPolicy EXCEPT ![p] = policy]
  /\ raising' = IF raising # NothingRaised /\ fleet[raising.device].project = p
                THEN [raising EXCEPT !.changed = TRUE] ELSE raising
  /\ UNCHANGED <<devicePolicy, alerts>>

\* An address that is new to the device must be an active account's.
UpdateDevicePolicy(p, d, policy, active) ==
  /\ fleet[d].project = p /\ DeviceFree(d)
  /\ policy.recipients \ RecipientsOf(devicePolicy[d]) \subseteq active
  /\ devicePolicy' = [devicePolicy EXCEPT ![d] = policy]
  /\ UNCHANGED <<projectPolicy, raising, alerts>>

\* The recipients go with the settings.
ResetDevicePolicy(p, d) ==
  /\ fleet[d].project = p /\ DeviceFree(d)
  /\ devicePolicy' = [devicePolicy EXCEPT ![d] = None]
  /\ UNCHANGED <<projectPolicy, raising, alerts>>
=============================================================================
