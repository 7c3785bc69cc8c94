---------------------------- MODULE Availability ----------------------------
(***************************************************************************)
(* Device availability: server/app/health/service.py, with the handlers    *)
(* that change the same rows (heartbeat ingestion, enrolment, the          *)
(* administrator's monitoring switch) and the worker's sweep.              *)
(*                                                                         *)
(* Every transaction below takes the device's row lock before it reads     *)
(* anything it decides on, so it is one action. The sweep is not one       *)
(* transaction: it reads the ids of the enabled devices in one, then       *)
(* evaluates each device in a transaction of its own, and everything else  *)
(* can run in between.                                                     *)
(*                                                                         *)
(* Time. The code stores timestamps and compares only their distance from  *)
(* the database clock with two thresholds. The model stores the distances: *)
(* an age grows by one per Tick and stops at OfflineAfter, beyond which    *)
(* no comparison can tell two ages apart, so time itself is not bounded.   *)
(***************************************************************************)
EXTENDS Naturals, FiniteSets, Sequences

CONSTANTS
  Device,         \* the devices that may be enrolled
  SuspectAfter,   \* age at which a silent device is SUSPECT   (75 s)
  OfflineAfter,   \* age at which a silent device is OFFLINE  (180 s)
  NeverSeen,      \* last_seen_at IS NULL
  MaxHeartbeats,  \* bound: heartbeats the agent of each device sends
  MaxCrashes      \* bound: worker crashes

(* The check of AvailabilityService.__init__ on the two thresholds. *)
ASSUME ThresholdsOrdered ==
  /\ SuspectAfter \in Nat /\ OfflineAfter \in Nat
  /\ 0 < SuspectAfter /\ SuspectAfter < OfflineAfter

ASSUME NeverSeenIsNoAge == NeverSeen \notin Nat

ASSUME BoundsAreNat == MaxHeartbeats \in [Device -> Nat] /\ MaxCrashes \in Nat

VARIABLES
  enrolled,      \* devices with a row in the devices table
  enabled,       \* Device.monitoring_enabled
  startedAge,    \* age of Device.monitoring_started_at
  seenAge,       \* age of Device.last_seen_at
  availability,  \* Device.availability_state
  incidents,     \* incidents[d]: the device's AVAILABILITY incidents, oldest
                 \* first, each with the kinds of the alert events it has
  sent,          \* sent[d]: heartbeats the agent has sent, numbered 1..sent[d]
  receipts,      \* receipts[d]: heartbeat ids with a HeartbeatReceipt row
  sweepQueue,    \* ids the running sweep read and has not evaluated yet
  crashes        \* worker crashes so far

deviceVars == <<enrolled, enabled, startedAge, seenAge, availability, incidents>>
workerVars == <<sweepQueue, crashes>>
vars == <<deviceVars, sent, receipts, workerVars>>

-----------------------------------------------------------------------------
(* Pure parts *)

AvailabilityStates == {"ONLINE", "SUSPECT", "OFFLINE"}
EventKinds == {"DEVICE_OFFLINE", "DEVICE_RECOVERED"}
Ages == 0 .. OfflineAfter
HeartbeatIds(d) == 1 .. MaxHeartbeats[d]

IncidentRows == [open : BOOLEAN, events : SUBSET EventKinds]

(* The state that an age implies. *)
AvailabilityState(age) ==
  IF age < SuspectAfter THEN "ONLINE"
  ELSE IF age < OfflineAfter THEN "SUSPECT" ELSE "OFFLINE"

(* last_seen_at or monitoring_started_at. *)
MonitoringBaseline(d) ==
  IF seenAge[d] = NeverSeen THEN startedAge[d] ELSE seenAge[d]

Overdue(d) == AvailabilityState(MonitoringBaseline(d)) = "OFFLINE"

(* The rows whose closed_at IS NULL. *)
ActiveIncidents(rows) == {i \in DOMAIN rows : rows[i].open}

OutageIncident == [open |-> TRUE, events |-> {"DEVICE_OFFLINE"}]

(* Mutant: the lookup of an active incident is forgotten. *)
EnsureAnotherIncident(rows) == Append(rows, OutageIncident)

(* Keep the active incident, or open one with its DEVICE_OFFLINE event. *)
EnsureOfflineIncident(rows) ==
  IF ActiveIncidents(rows) # {} THEN rows ELSE Append(rows, OutageIncident)

(* The incidents that have ended. *)
ClosedIncidents(rows) == DOMAIN rows \ ActiveIncidents(rows)

(* Mutant: the incident is closed with no DEVICE_RECOVERED event. *)
CloseSilently(rows) ==
  [i \in DOMAIN rows |-> IF rows[i].open THEN [rows[i] EXCEPT !.open = FALSE] ELSE rows[i]]

(* Close the active incident, if there is one, with its DEVICE_RECOVERED event. *)
CloseForRecovery(rows) ==
  [i \in DOMAIN rows |->
     IF rows[i].open
       THEN [open |-> FALSE, events |-> rows[i].events \union {"DEVICE_RECOVERED"}]
       ELSE rows[i]]

-----------------------------------------------------------------------------
(* The initial state: an empty devices table and an idle worker *)

Init ==
  /\ enrolled = {}
  /\ enabled = [d \in Device |-> FALSE]
  /\ startedAge = [d \in Device |-> 0]
  /\ seenAge = [d \in Device |-> NeverSeen]
  /\ availability = [d \in Device |-> "ONLINE"]
  /\ incidents = [d \in Device |-> << >>]
  /\ sent = [d \in Device |-> 0]
  /\ receipts = [d \in Device |-> {}]
  /\ sweepQueue = {}
  /\ crashes = 0

-----------------------------------------------------------------------------
(* Time and the agents *)

(* Ages saturate: nothing in the code tells two ages past OfflineAfter apart. *)
Older(age) == IF age < OfflineAfter THEN age + 1 ELSE age

(* The database clock advances for every device at once. *)
Tick ==
  /\ startedAge' = [d \in Device |-> Older(startedAge[d])]
  /\ seenAge' = [d \in Device |-> IF seenAge[d] = NeverSeen THEN NeverSeen ELSE Older(seenAge[d])]
  /\ UNCHANGED <<enrolled, enabled, availability, incidents, sent, receipts, workerVars>>

(* The agent of d sends a heartbeat with a new id. From then on the network   *)
(* may deliver it at any time, late, out of order, more than once or never.   *)
SendHeartbeat(d) ==
  /\ d \in enrolled
  /\ sent[d] < MaxHeartbeats[d]
  /\ sent' = [sent EXCEPT ![d] = @ + 1]
  /\ UNCHANGED <<deviceVars, receipts, workerVars>>

-----------------------------------------------------------------------------
(* API transactions *)

(* The row that enrolment inserts. *)
EnrollDevice(d) ==
  /\ d \notin enrolled
  /\ enrolled' = enrolled \union {d}
  /\ enabled' = [enabled EXCEPT ![d] = TRUE]
  /\ startedAge' = [startedAge EXCEPT ![d] = 0]
  /\ UNCHANGED <<seenAge, availability, incidents, sent, receipts, workerVars>>

(* The administrator's monitoring switch: only enabling restarts the period. *)
SetEnabled(d) ==
  /\ d \in enrolled
  /\ enabled' = [enabled EXCEPT ![d] = ~ @]
  /\ startedAge' = [startedAge EXCEPT ![d] = IF enabled[d] THEN @ ELSE 0]
  /\ UNCHANGED <<enrolled, seenAge, availability, incidents, sent, receipts, workerVars>>

(* Mutant: the overdue state is not reconciled before the baseline moves. *)
AcceptWithoutReconciling(d) ==
  LET wasOffline == availability[d] = "OFFLINE"
  IN  /\ incidents' = [incidents EXCEPT ![d] = IF wasOffline THEN CloseForRecovery(@) ELSE @]
      /\ availability' = [availability EXCEPT ![d] = "ONLINE"]
      /\ seenAge' = [seenAge EXCEPT ![d] = 0]

(* Mutant: the recovery closes the incident and leaves the device OFFLINE. *)
AcceptAndStayOffline(d) ==
  LET rows == IF Overdue(d) THEN EnsureOfflineIncident(incidents[d]) ELSE incidents[d]
      wasOffline == Overdue(d) \/ availability[d] = "OFFLINE"
  IN  /\ incidents' = [incidents EXCEPT ![d] = IF wasOffline THEN CloseForRecovery(rows) ELSE @]
      /\ availability' = [availability EXCEPT ![d] = IF wasOffline THEN "OFFLINE" ELSE "ONLINE"]
      /\ seenAge' = [seenAge EXCEPT ![d] = 0]

(* A fresh heartbeat first declares an outage that is already overdue, then  *)
(* moves the baseline, then closes the outage it found.                      *)
AcceptHeartbeat(d) ==
  LET rows == IF Overdue(d) THEN EnsureOfflineIncident(incidents[d]) ELSE incidents[d]
      wasOffline == Overdue(d) \/ availability[d] = "OFFLINE"
  IN  /\ incidents' = [incidents EXCEPT ![d] = IF wasOffline THEN CloseForRecovery(rows) ELSE @]
      /\ availability' = [availability EXCEPT ![d] = "ONLINE"]
      /\ seenAge' = [seenAge EXCEPT ![d] = 0]

(* Mutant: a repeated heartbeat is accepted again. *)
ReceiveWithoutReceiptCheck(d, h) ==
  /\ h <= sent[d]
  /\ enabled[d]
  /\ AcceptHeartbeat(d)
  /\ receipts' = [receipts EXCEPT ![d] = @ \union {h}]
  /\ UNCHANGED <<enrolled, enabled, startedAge, sent, workerVars>>

(* Ingestion of heartbeat h: refused while the device is disabled; a repeat  *)
(* is answered from its receipt and changes nothing.                         *)
ReceiveHeartbeat(d, h) ==
  /\ h <= sent[d]
  /\ enabled[d]
  /\ h \notin receipts[d]
  /\ AcceptHeartbeat(d)
  /\ receipts' = [receipts EXCEPT ![d] = @ \union {h}]
  /\ UNCHANGED <<enrolled, enabled, startedAge, sent, workerVars>>

-----------------------------------------------------------------------------
(* The worker *)

(* Mutant: only the devices still ONLINE are read. *)
SweepOnlineOnly ==
  /\ sweepQueue = {}
  /\ sweepQueue' = {d \in enrolled : enabled[d] /\ availability[d] = "ONLINE"}
  /\ UNCHANGED <<deviceVars, sent, receipts, crashes>>

(* The sweep's first transaction: the ids of the enabled devices. *)
SweepBegin ==
  /\ sweepQueue = {}
  /\ sweepQueue' = {d \in enrolled : enabled[d]}
  /\ UNCHANGED <<deviceVars, sent, receipts, crashes>>

(* The state an evaluation writes. OFFLINE is left only through a heartbeat. *)
Evaluated(d) ==
  LET desired == AvailabilityState(MonitoringBaseline(d))
  IN  /\ availability' = [availability EXCEPT ![d] =
                            IF desired # "OFFLINE" /\ @ = "OFFLINE" THEN @ ELSE desired]
      /\ incidents' = [incidents EXCEPT ![d] =
                         IF desired = "OFFLINE" THEN EnsureOfflineIncident(@) ELSE @]

(* Mutant: the evaluation trusts the ids the sweep read. *)
EvaluateWithoutRecheck(d) ==
  /\ d \in sweepQueue
  /\ sweepQueue' = sweepQueue \ {d}
  /\ Evaluated(d)
  /\ UNCHANGED <<enrolled, enabled, startedAge, seenAge, sent, receipts, crashes>>

(* One device of the sweep, in its own transaction: the switch is read again  *)
(* under the row lock.                                                        *)
EvaluateDevice(d) ==
  /\ d \in sweepQueue
  /\ sweepQueue' = sweepQueue \ {d}
  /\ IF enabled[d] THEN Evaluated(d) ELSE UNCHANGED <<availability, incidents>>
  /\ UNCHANGED <<enrolled, enabled, startedAge, seenAge, sent, receipts, crashes>>

(* A database error or a signal ends the worker in the middle of a sweep; the *)
(* restarted process begins a new one.                                        *)
WorkerCrash ==
  /\ sweepQueue # {}
  /\ crashes < MaxCrashes
  /\ crashes' = crashes + 1
  /\ sweepQueue' = {}
  /\ UNCHANGED <<deviceVars, sent, receipts>>

-----------------------------------------------------------------------------

Next ==
  \/ Tick
  \/ SweepBegin
  \/ WorkerCrash
  \/ \E d \in Device :
       \/ EnrollDevice(d)
       \/ SetEnabled(d)
       \/ SendHeartbeat(d)
       \/ EvaluateDevice(d)
       \/ \E h \in HeartbeatIds(d) : ReceiveHeartbeat(d, h)

(* The clock advances, and the worker's loop starts sweeps and goes through  *)
(* them. Nothing is assumed of agents, administrators or the network.        *)
Fairness ==
  /\ WF_vars(Tick)
  /\ WF_vars(SweepBegin)
  /\ \A d \in Device : WF_vars(EvaluateDevice(d))

Spec == Init /\ [][Next]_vars /\ Fairness

-----------------------------------------------------------------------------
(* Properties *)

(* Every variable has its type. *)
TypeOK ==
  /\ enrolled \in SUBSET Device
  /\ enabled \in [Device -> BOOLEAN]
  /\ startedAge \in [Device -> Ages]
  /\ seenAge \in [Device -> Ages \union {NeverSeen}]
  /\ availability \in [Device -> AvailabilityStates]
  /\ incidents \in [Device -> Seq(IncidentRows)]
  /\ sent \in [Device -> Nat] /\ \A d \in Device : sent[d] <= MaxHeartbeats[d]
  /\ receipts \in [Device -> SUBSET Nat] /\ \A d \in Device : receipts[d] \subseteq 1 .. sent[d]
  /\ sweepQueue \in SUBSET enrolled
  /\ crashes \in 0 .. MaxCrashes

(* A device is reported OFFLINE exactly while it has an open incident, and    *)
(* that incident is its latest one. The sweep, an overdue heartbeat and a     *)
(* recovery each write both sides of this, and may interleave.                *)
OfflineIffOpenIncident ==
  \A d \in Device :
    /\ ActiveIncidents(incidents[d]) =
         IF availability[d] = "OFFLINE" THEN {Len(incidents[d])} ELSE {}
    /\ availability[d] = "OFFLINE" => incidents[d] # << >>

(* An incident has the kinds of events its own life calls for, and no other:  *)
(* DEVICE_OFFLINE from the moment it is opened, DEVICE_RECOVERED once it is   *)
(* closed, also when a heartbeat opens and closes it in one transaction.      *)
EventsMatchIncident ==
  \A d \in Device : \A i \in DOMAIN incidents[d] :
    incidents[d][i].events = IF incidents[d][i].open THEN {"DEVICE_OFFLINE"} ELSE EventKinds

(* A device reported OFFLINE has not been heard for OfflineAfter: no order of *)
(* heartbeats, switches and half-finished sweeps leaves a talking device      *)
(* OFFLINE, or an old sweep result behind a newer heartbeat.                  *)
OfflineMeansSilent ==
  \A d \in Device : availability[d] = "OFFLINE" => seenAge[d] \in {NeverSeen, OfflineAfter}

(* A retransmitted heartbeat is no sign of life: a device recovers at most    *)
(* once for each distinct heartbeat that was accepted, however often the      *)
(* network repeats one.                                                       *)
RecoveriesNeedNewHeartbeats ==
  \A d \in Device :
    Cardinality(ClosedIncidents(incidents[d])) <= Cardinality(receipts[d])

(* An outage that ends before the sweep notices it is still reported: a step  *)
(* in which a device that was due to be OFFLINE is heard closes an incident   *)
(* that was not closed before it, whether or not a sweep had opened one.      *)
NoOutageForgotten ==
  [][\A d \in Device :
       Overdue(d) /\ receipts'[d] # receipts[d]
         => ClosedIncidents(incidents'[d]) \ ClosedIncidents(incidents[d]) # {}]_vars

(* A disabled device is left alone: no step of a sweep that read its id while *)
(* it was enabled, and no late heartbeat, changes its state or its incidents. *)
DisabledIsFrozen ==
  [][\A d \in Device :
       ~ enabled[d] => availability'[d] = availability[d] /\ incidents'[d] = incidents[d]]_vars

(* A device that stays enabled and silent is eventually OFFLINE, although     *)
(* sweeps work from an old list of ids and the worker may crash.              *)
SilenceIsDetected ==
  \A d \in Device :
    (enabled[d] /\ Overdue(d)) ~> (availability[d] = "OFFLINE" \/ ~ enabled[d] \/ ~ Overdue(d))

(* docs/ALERTING.md section 11: "Availability uses the later relevant         *)
(* baseline" and "Re-enabling monitoring starts a fresh monitoring period":   *)
(* no outage is declared before the current period is OfflineAfter old.       *)
ReenablingStartsFreshPeriod ==
  [][\A d \in Device : incidents'[d] # incidents[d] /\ availability[d] # "OFFLINE"
                         => startedAge[d] = OfflineAfter]_vars

(* The sweep, the heartbeats and the switch together implement the contract:  *)
(* outages are raised one at a time, each is cleared at most once and after   *)
(* it was raised, and a late discovery raises and clears in one step.         *)
Contract == INSTANCE OutageContract WITH
  down    <- [d \in Device |-> availability[d] = "OFFLINE"],
  raised  <- [d \in Device |-> Len(incidents[d])],
  cleared <- [d \in Device |->
                {i \in DOMAIN incidents[d] : "DEVICE_RECOVERED" \in incidents[d][i].events}]

ImplementsContract == Contract!Spec

=============================================================================
