------------------------- MODULE AvailabilityProofs -------------------------
(***************************************************************************)
(* Availability, for every set of devices, every pair of thresholds and    *)
(* every bound: type correctness, the ledger of incidents, silence behind  *)
(* OFFLINE, the frozen disabled device, no forgotten outage, no recovery    *)
(* without a heartbeat of its own, and the implementation of              *)
(* OutageContract.                                                         *)
(***************************************************************************)
EXTENDS Availability, FiniteSetTheorems, TLAPS

USE ThresholdsOrdered, NeverSeenIsNoAge, BoundsAreNat

-----------------------------------------------------------------------------
(* What the helpers on incident rows return *)

(* The state an age implies is one of the three, and it is OFFLINE exactly    *)
(* from the last threshold on.                                                *)
LEMMA StateOfAge ==
  ASSUME NEW age \in Ages
  PROVE  /\ AvailabilityState(age) \in AvailabilityStates
         /\ AvailabilityState(age) = "OFFLINE" <=> age = OfflineAfter
BY DEF Ages, AvailabilityState, AvailabilityStates

(* Closing rows keeps their number and leaves none open. *)
LEMMA ClosingRows ==
  ASSUME NEW rows \in Seq(IncidentRows)
  PROVE  /\ CloseForRecovery(rows) \in Seq(IncidentRows)
         /\ Len(CloseForRecovery(rows)) = Len(rows)
         /\ ActiveIncidents(CloseForRecovery(rows)) = {}
         /\ \A i \in DOMAIN rows : ~ rows[i].open => CloseForRecovery(rows)[i] = rows[i]
         /\ \A i \in DOMAIN rows : rows[i].open =>
              CloseForRecovery(rows)[i].events = rows[i].events \union {"DEVICE_RECOVERED"}
<1> DEFINE closed == CloseForRecovery(rows)
<1>1. \A i \in 1 .. Len(rows) : rows[i] \in IncidentRows
  OBVIOUS
<1>2. DOMAIN rows = 1 .. Len(rows) /\ Len(rows) \in Nat
  OBVIOUS
<1>3. \A i \in 1 .. Len(rows) : closed[i] \in IncidentRows
  BY <1>1, <1>2 DEF CloseForRecovery, IncidentRows, EventKinds
<1>4. closed = [i \in 1 .. Len(rows) |-> closed[i]]
  BY <1>2 DEF CloseForRecovery
<1>5. closed \in Seq(IncidentRows)
  <2>1. closed \in [1 .. Len(rows) -> IncidentRows]
    BY <1>3, <1>4
  <2>2. QED
    BY <2>1, <1>2
<1>6. Len(closed) = Len(rows) /\ DOMAIN closed = DOMAIN rows
  BY <1>2, <1>5 DEF CloseForRecovery
<1>7. \A i \in DOMAIN closed : ~ closed[i].open
  BY <1>1, <1>2, <1>6 DEF CloseForRecovery, IncidentRows
<1>8. QED
  BY <1>1, <1>2, <1>5, <1>6, <1>7 DEF CloseForRecovery, ActiveIncidents, IncidentRows

(* Ensuring an incident keeps the rows that have an open one, and otherwise   *)
(* appends the only open one.                                                 *)
LEMMA EnsuringRows ==
  ASSUME NEW rows \in Seq(IncidentRows)
  PROVE  /\ EnsureOfflineIncident(rows) \in Seq(IncidentRows)
         /\ ActiveIncidents(rows) # {} => EnsureOfflineIncident(rows) = rows
         /\ ActiveIncidents(rows) = {} =>
              /\ EnsureOfflineIncident(rows) = Append(rows, OutageIncident)
              /\ Len(EnsureOfflineIncident(rows)) = Len(rows) + 1
              /\ ActiveIncidents(EnsureOfflineIncident(rows)) = {Len(rows) + 1}
<1>1. OutageIncident \in IncidentRows /\ OutageIncident.open
  BY DEF OutageIncident, IncidentRows, EventKinds
<1>2. CASE ActiveIncidents(rows) # {}
  BY <1>2 DEF EnsureOfflineIncident
<1>3. CASE ActiveIncidents(rows) = {}
  <2>1. EnsureOfflineIncident(rows) = Append(rows, OutageIncident)
    BY <1>3 DEF EnsureOfflineIncident
  <2>2. Append(rows, OutageIncident) \in Seq(IncidentRows)
    BY <1>1
  <2>3. \A i \in 1 .. Len(rows) : ~ Append(rows, OutageIncident)[i].open
    BY <1>3 DEF ActiveIncidents
  <2>4. ActiveIncidents(Append(rows, OutageIncident)) = {Len(rows) + 1}
    BY <1>1, <2>2, <2>3 DEF ActiveIncidents
  <2>5. QED
    BY <1>3, <2>1, <2>2, <2>4
<1>4. QED
  BY <1>2, <1>3

-----------------------------------------------------------------------------
(* Type correctness *)

(* No transaction writes a value outside its column: an age never passes the  *)
(* last threshold and a sweep works only on enrolled devices.                 *)
THEOREM TypeCorrect == Spec => []TypeOK
<1>1. Init => TypeOK
  BY DEF Init, TypeOK, Ages, AvailabilityStates
<1>2. ASSUME TypeOK, [Next]_vars
      PROVE  TypeOK'
  <2> USE <1>2 DEF TypeOK
  <2>1. CASE Tick
    BY <2>1 DEF Tick, Older, Ages, workerVars
  <2>2. CASE SweepBegin
    BY <2>2 DEF SweepBegin, deviceVars
  <2>3. CASE WorkerCrash
    BY <2>3 DEF WorkerCrash, deviceVars
  <2>4. ASSUME NEW d \in Device, EnrollDevice(d)
        PROVE  TypeOK'
    BY <2>4 DEF EnrollDevice, Ages, workerVars
  <2>5. ASSUME NEW d \in Device, SetEnabled(d)
        PROVE  TypeOK'
    BY <2>5 DEF SetEnabled, Ages, workerVars
  <2>6. ASSUME NEW d \in Device, SendHeartbeat(d)
        PROVE  TypeOK'
    BY <2>6 DEF SendHeartbeat, deviceVars, workerVars
  <2>7. ASSUME NEW d \in Device, EvaluateDevice(d)
        PROVE  TypeOK'
    <3>1. MonitoringBaseline(d) \in Ages
      BY DEF MonitoringBaseline
    <3>2. AvailabilityState(MonitoringBaseline(d)) \in AvailabilityStates
      BY <3>1, StateOfAge
    <3>3. EnsureOfflineIncident(incidents[d]) \in Seq(IncidentRows)
      BY EnsuringRows
    <3>4. availability' \in [Device -> AvailabilityStates]
      BY <2>7, <3>2 DEF EvaluateDevice, Evaluated, AvailabilityStates
    <3>5. incidents' \in [Device -> Seq(IncidentRows)]
      <4>1. UNCHANGED incidents \/
            \E row \in {incidents[d], EnsureOfflineIncident(incidents[d])} :
              incidents' = [incidents EXCEPT ![d] = row]
        BY <2>7 DEF EvaluateDevice, Evaluated
      <4>2. QED
        BY <3>3, <4>1
    <3>6. UNCHANGED <<enrolled, enabled, startedAge, seenAge, sent, receipts, crashes>>
      BY <2>7 DEF EvaluateDevice
    <3>7. sweepQueue' \in SUBSET enrolled
      BY <2>7 DEF EvaluateDevice
    <3>8. QED
      BY <3>4, <3>5, <3>6, <3>7
  <2>8. ASSUME NEW d \in Device, NEW h \in HeartbeatIds(d), ReceiveHeartbeat(d, h)
        PROVE  TypeOK'
    <3>1. EnsureOfflineIncident(incidents[d]) \in Seq(IncidentRows)
      BY EnsuringRows
    <3>2. /\ CloseForRecovery(incidents[d]) \in Seq(IncidentRows)
          /\ CloseForRecovery(EnsureOfflineIncident(incidents[d])) \in Seq(IncidentRows)
      BY <3>1, ClosingRows
    <3>3. incidents' \in [Device -> Seq(IncidentRows)]
      BY <2>8, <3>1, <3>2 DEF ReceiveHeartbeat, AcceptHeartbeat
    <3>4. seenAge' \in [Device -> Ages \union {NeverSeen}]
      BY <2>8 DEF ReceiveHeartbeat, AcceptHeartbeat, Ages
    <3>5. availability' \in [Device -> AvailabilityStates]
      BY <2>8 DEF ReceiveHeartbeat, AcceptHeartbeat, AvailabilityStates
    <3>6. receipts' \in [Device -> SUBSET Nat]
          /\ \A c \in Device : receipts'[c] \subseteq 1 .. sent'[c]
      BY <2>8 DEF ReceiveHeartbeat, HeartbeatIds
    <3>7. QED
      BY <2>8, <3>3, <3>4, <3>5, <3>6 DEF ReceiveHeartbeat, workerVars
  <2>9. CASE UNCHANGED vars
    BY <2>9 DEF vars, deviceVars, workerVars
  <2>10. QED
    BY <1>2, <2>1, <2>2, <2>3, <2>4, <2>5, <2>6, <2>7, <2>8, <2>9 DEF Next
<1>3. QED
  BY <1>1, <1>2, PTL DEF Spec

-----------------------------------------------------------------------------
(* The ledger of incidents *)

(* OfflineIffOpenIncident and EventsMatchIncident for one device: neither is  *)
(* inductive without the other, because the event an incident is given when   *)
(* it closes depends on the one it was given when it opened.                  *)
LedgerOf(state, rows) ==
  /\ ActiveIncidents(rows) = IF state = "OFFLINE" THEN {Len(rows)} ELSE {}
  /\ state = "OFFLINE" => rows # << >>
  /\ \A i \in DOMAIN rows :
       rows[i].events = IF rows[i].open THEN {"DEVICE_OFFLINE"} ELSE EventKinds

Ledger == \A d \in Device : LedgerOf(availability[d], incidents[d])

LEMMA LedgerIsBoth == Ledger <=> OfflineIffOpenIncident /\ EventsMatchIncident
BY DEF Ledger, LedgerOf, OfflineIffOpenIncident, EventsMatchIncident

(* An outage, found by the sweep or by a heartbeat, leaves the ledger right.  *)
LEMMA EnsuringKeepsLedger ==
  ASSUME NEW rows \in Seq(IncidentRows), NEW state \in AvailabilityStates,
         LedgerOf(state, rows)
  PROVE  LedgerOf("OFFLINE", EnsureOfflineIncident(rows))
<1>1. CASE state = "OFFLINE"
  <2>1. EnsureOfflineIncident(rows) = rows
    BY <1>1, EnsuringRows DEF LedgerOf
  <2>2. QED
    BY <1>1, <2>1
<1>2. CASE state # "OFFLINE"
  <2> DEFINE after == EnsureOfflineIncident(rows)
  <2>1. /\ after = Append(rows, OutageIncident)
        /\ after \in Seq(IncidentRows)
        /\ Len(after) = Len(rows) + 1
        /\ ActiveIncidents(after) = {Len(after)}
    BY <1>2, EnsuringRows DEF LedgerOf
  <2>2. \A i \in 1 .. Len(rows) : after[i] = rows[i]
    BY <2>1
  <2>3. after[Len(rows) + 1] = OutageIncident
    BY <2>1
  <2>4. \A i \in DOMAIN after :
          after[i].events = IF after[i].open THEN {"DEVICE_OFFLINE"} ELSE EventKinds
    BY <2>1, <2>2, <2>3 DEF LedgerOf, OutageIncident
  <2>5. QED
    BY <2>1, <2>4 DEF LedgerOf
<1>3. QED
  BY <1>1, <1>2

(* A recovery leaves the ledger right, with no open incident. *)
LEMMA ClosingKeepsLedger ==
  ASSUME NEW rows \in Seq(IncidentRows), NEW state \in AvailabilityStates,
         LedgerOf(state, rows)
  PROVE  LedgerOf("ONLINE", CloseForRecovery(rows))
<1> DEFINE after == CloseForRecovery(rows)
<1>1. /\ after \in Seq(IncidentRows)
      /\ Len(after) = Len(rows)
      /\ ActiveIncidents(after) = {}
  BY ClosingRows
<1>2. DOMAIN after = DOMAIN rows
  BY <1>1
<1>3. \A i \in DOMAIN after : ~ after[i].open
  BY <1>1 DEF ActiveIncidents
<1>4. \A i \in DOMAIN rows : after[i].events = EventKinds
  BY ClosingRows DEF LedgerOf, EventKinds
<1>5. QED
  BY <1>1, <1>2, <1>3, <1>4 DEF LedgerOf

(* The ledger does not distinguish the two states that are not OFFLINE. *)
LEMMA LedgerOfUpState ==
  ASSUME NEW rows, NEW s1, NEW s2, s1 # "OFFLINE", s2 # "OFFLINE", LedgerOf(s1, rows)
  PROVE  LedgerOf(s2, rows)
BY DEF LedgerOf

LEMMA LedgerStep == TypeOK /\ Ledger /\ [Next]_vars => Ledger'
<1> SUFFICES ASSUME TypeOK, Ledger, [Next]_vars
             PROVE  Ledger'
  OBVIOUS
<1>1. CASE UNCHANGED <<availability, incidents>>
  BY <1>1 DEF Ledger
<1>2. ASSUME NEW d \in Device, EvaluateDevice(d)
      PROVE  Ledger'
  <2>1. CASE ~ enabled[d]
    BY <1>1, <1>2, <2>1 DEF EvaluateDevice
  <2>2. CASE enabled[d]
    <3> DEFINE desired == AvailabilityState(MonitoringBaseline(d))
    <3>1. incidents[d] \in Seq(IncidentRows) /\ availability[d] \in AvailabilityStates
      BY DEF TypeOK
    <3>2. LedgerOf(availability[d], incidents[d])
      BY DEF Ledger
    <3>3. /\ availability' = [availability EXCEPT ![d] =
                 IF desired # "OFFLINE" /\ @ = "OFFLINE" THEN @ ELSE desired]
          /\ incidents' = [incidents EXCEPT ![d] =
                 IF desired = "OFFLINE" THEN EnsureOfflineIncident(@) ELSE @]
      BY <1>2, <2>2 DEF EvaluateDevice, Evaluated
    <3>4. \A c \in Device \ {d} : availability'[c] = availability[c] /\ incidents'[c] = incidents[c]
      BY <3>3 DEF TypeOK
    <3>5. LedgerOf(availability'[d], incidents'[d])
      <4>1. CASE desired = "OFFLINE"
        <5>1. availability'[d] = "OFFLINE" /\ incidents'[d] = EnsureOfflineIncident(incidents[d])
          BY <3>3, <4>1 DEF TypeOK
        <5>2. QED
          BY <3>1, <3>2, <5>1, EnsuringKeepsLedger
      <4>2. CASE desired # "OFFLINE" /\ availability[d] = "OFFLINE"
        BY <3>2, <3>3, <4>2 DEF TypeOK
      <4>3. CASE desired # "OFFLINE" /\ availability[d] # "OFFLINE"
        <5>1. availability'[d] = desired /\ incidents'[d] = incidents[d]
          BY <3>3, <4>3 DEF TypeOK
        <5>2. QED
          BY <3>2, <4>3, <5>1, LedgerOfUpState
      <4>4. QED
        BY <4>1, <4>2, <4>3
    <3>6. QED
      BY <3>4, <3>5 DEF Ledger
  <2>3. QED
    BY <2>1, <2>2
<1>3. ASSUME NEW d \in Device, NEW h \in HeartbeatIds(d), ReceiveHeartbeat(d, h)
      PROVE  Ledger'
  <2> DEFINE rows == IF Overdue(d) THEN EnsureOfflineIncident(incidents[d]) ELSE incidents[d]
             wasOffline == Overdue(d) \/ availability[d] = "OFFLINE"
  <2>1. incidents[d] \in Seq(IncidentRows) /\ availability[d] \in AvailabilityStates
    BY DEF TypeOK
  <2>2. LedgerOf(availability[d], incidents[d])
    BY DEF Ledger
  <2>3. /\ availability' = [availability EXCEPT ![d] = "ONLINE"]
        /\ incidents' = [incidents EXCEPT ![d] = IF wasOffline THEN CloseForRecovery(rows) ELSE @]
    BY <1>3 DEF ReceiveHeartbeat, AcceptHeartbeat
  <2>4. \A c \in Device \ {d} : availability'[c] = availability[c] /\ incidents'[c] = incidents[c]
    BY <2>3 DEF TypeOK
  <2>5. LedgerOf(availability'[d], incidents'[d])
    <3>1. CASE Overdue(d)
      <4>1. rows \in Seq(IncidentRows) /\ LedgerOf("OFFLINE", rows)
        BY <2>1, <2>2, <3>1, EnsuringRows, EnsuringKeepsLedger
      <4>2. LedgerOf("ONLINE", CloseForRecovery(rows))
        BY <4>1, ClosingKeepsLedger DEF AvailabilityStates
      <4>3. QED
        BY <2>3, <3>1, <4>2 DEF TypeOK
    <3>2. CASE ~ Overdue(d) /\ availability[d] = "OFFLINE"
      <4>1. LedgerOf("ONLINE", CloseForRecovery(incidents[d]))
        BY <2>1, <2>2, ClosingKeepsLedger
      <4>2. QED
        BY <2>3, <3>2, <4>1 DEF TypeOK
    <3>3. CASE ~ wasOffline
      <4>1. availability'[d] = "ONLINE" /\ incidents'[d] = incidents[d]
        BY <2>3, <3>3 DEF TypeOK
      <4>2. QED
        BY <2>2, <3>3, <4>1, LedgerOfUpState
    <3>4. QED
      BY <3>1, <3>2, <3>3
  <2>6. QED
    BY <2>4, <2>5 DEF Ledger
<1>4. QED
  BY <1>1, <1>2, <1>3 DEF Next, Tick, SweepBegin, WorkerCrash, EnrollDevice, SetEnabled,
     SendHeartbeat, vars, deviceVars

(* At any time, in every fleet: OFFLINE and an open incident go together, and *)
(* every incident has exactly the alert events of its life so far.            *)
THEOREM LedgerCorrect == Spec => [](OfflineIffOpenIncident /\ EventsMatchIncident)
<1>1. Init => Ledger
  BY DEF Init, Ledger, LedgerOf, ActiveIncidents
<1>2. QED
  BY <1>1, LedgerStep, TypeCorrect, LedgerIsBoth, PTL DEF Spec

(* An open incident has its DEVICE_OFFLINE event and no other; a closed one   *)
(* has its DEVICE_RECOVERED too, however it was opened and closed.            *)
THEOREM EventsAgree == Spec => []EventsMatchIncident
BY LedgerCorrect, PTL

-----------------------------------------------------------------------------
(* Silence behind OFFLINE, and what disabling freezes *)

(* No device that has been heard within the last OfflineAfter is ever         *)
(* reported OFFLINE, whatever the sweep read and whenever it evaluates.       *)
THEOREM OfflineDevicesAreSilent == Spec => []OfflineMeansSilent
<1>1. Init => OfflineMeansSilent
  BY DEF Init, OfflineMeansSilent
<1>2. TypeOK /\ OfflineMeansSilent /\ [Next]_vars => OfflineMeansSilent'
  <2> SUFFICES ASSUME TypeOK, OfflineMeansSilent, [Next]_vars
               PROVE  OfflineMeansSilent'
    OBVIOUS
  <2> USE DEF OfflineMeansSilent, TypeOK
  <2>1. CASE UNCHANGED <<availability, seenAge>>
    BY <2>1
  <2>2. CASE Tick
    BY <2>2 DEF Tick, Older, Ages
  <2>3. ASSUME NEW d \in Device, EvaluateDevice(d)
        PROVE  OfflineMeansSilent'
    <3>1. MonitoringBaseline(d) \in Ages
      BY DEF MonitoringBaseline
    <3>2. AvailabilityState(MonitoringBaseline(d)) = "OFFLINE"
            => seenAge[d] \in {NeverSeen, OfflineAfter}
      BY <3>1, StateOfAge DEF MonitoringBaseline
    <3>3. QED
      BY <2>3, <3>2 DEF EvaluateDevice, Evaluated
  <2>4. ASSUME NEW d \in Device, NEW h \in HeartbeatIds(d), ReceiveHeartbeat(d, h)
        PROVE  OfflineMeansSilent'
    BY <2>4 DEF ReceiveHeartbeat, AcceptHeartbeat
  <2>5. QED
    BY <2>1, <2>2, <2>3, <2>4 DEF Next, SweepBegin, WorkerCrash, EnrollDevice, SetEnabled,
       SendHeartbeat, vars, deviceVars
<1>3. QED
  BY <1>1, <1>2, TypeCorrect, PTL DEF Spec

(* No step changes the state or the incidents of a disabled device.           *)
THEOREM DisabledDevicesAreFrozen == Spec => DisabledIsFrozen
<1> DEFINE Frozen == \A d \in Device :
      ~ enabled[d] => availability'[d] = availability[d] /\ incidents'[d] = incidents[d]
<1>1. TypeOK /\ [Next]_vars => [Frozen]_vars
  <2> SUFFICES ASSUME TypeOK, Next
               PROVE  Frozen
    OBVIOUS
  <2>1. CASE UNCHANGED <<availability, incidents>>
    BY <2>1
  <2>2. ASSUME NEW d \in Device, EvaluateDevice(d)
        PROVE  Frozen
    BY <2>2 DEF EvaluateDevice, Evaluated, TypeOK
  <2>3. ASSUME NEW d \in Device, NEW h \in HeartbeatIds(d), ReceiveHeartbeat(d, h)
        PROVE  Frozen
    BY <2>3 DEF ReceiveHeartbeat, AcceptHeartbeat, TypeOK
  <2>4. QED
    BY <2>1, <2>2, <2>3 DEF Next, Tick, SweepBegin, WorkerCrash, EnrollDevice, SetEnabled,
       SendHeartbeat, deviceVars
<1>2. QED
  BY <1>1, TypeCorrect, PTL DEF Spec, DisabledIsFrozen

-----------------------------------------------------------------------------
(* No forgotten outage *)

(* A heartbeat that ends an overdue silence always closes an incident that    *)
(* was not closed before: the open one, or the one this very step opened.     *)
THEOREM NoOutageIsForgotten == Spec => NoOutageForgotten
<1> DEFINE Told == \A d \in Device :
      Overdue(d) /\ receipts'[d] # receipts[d]
        => ClosedIncidents(incidents'[d]) \ ClosedIncidents(incidents[d]) # {}
<1>1. TypeOK /\ Ledger /\ [Next]_vars => [Told]_vars
  <2> SUFFICES ASSUME TypeOK, Ledger, Next,
                      NEW d \in Device, Overdue(d), receipts'[d] # receipts[d]
               PROVE  ClosedIncidents(incidents'[d]) \ ClosedIncidents(incidents[d]) # {}
    OBVIOUS
  <2> DEFINE rows == EnsureOfflineIncident(incidents[d])
  <2>1. PICK h \in HeartbeatIds(d) : ReceiveHeartbeat(d, h)
    BY DEF Next, Tick, SweepBegin, WorkerCrash, EnrollDevice, SetEnabled, SendHeartbeat,
       EvaluateDevice, ReceiveHeartbeat, deviceVars, TypeOK
  <2>2. incidents'[d] = CloseForRecovery(rows)
    BY <2>1 DEF ReceiveHeartbeat, AcceptHeartbeat, TypeOK
  <2>3. incidents[d] \in Seq(IncidentRows) /\ availability[d] \in AvailabilityStates
        /\ LedgerOf(availability[d], incidents[d])
    BY DEF TypeOK, Ledger
  <2>4. rows \in Seq(IncidentRows) /\ LedgerOf("OFFLINE", rows)
    BY <2>3, EnsuringRows, EnsuringKeepsLedger
  <2>5. Len(rows) \in ActiveIncidents(rows)
    BY <2>4 DEF LedgerOf
  <2>6. Len(rows) \notin ClosedIncidents(incidents[d])
    <3>1. CASE ActiveIncidents(incidents[d]) # {}
      BY <2>3, <2>5, <3>1, EnsuringRows DEF ClosedIncidents
    <3>2. CASE ActiveIncidents(incidents[d]) = {}
      <4>1. Len(rows) = Len(incidents[d]) + 1
        BY <2>3, <3>2, EnsuringRows
      <4>2. DOMAIN incidents[d] = 1 .. Len(incidents[d]) /\ Len(incidents[d]) \in Nat
        BY <2>3
      <4>3. QED
        BY <4>1, <4>2 DEF ClosedIncidents
    <3>3. QED
      BY <3>1, <3>2
  <2>7. Len(rows) \in ClosedIncidents(incidents'[d])
    <3>1. /\ CloseForRecovery(rows) \in Seq(IncidentRows)
          /\ Len(CloseForRecovery(rows)) = Len(rows)
          /\ ActiveIncidents(CloseForRecovery(rows)) = {}
      BY <2>4, ClosingRows
    <3>2. Len(rows) \in 1 .. Len(rows)
      BY <2>4, <2>5 DEF ActiveIncidents
    <3>3. QED
      BY <2>2, <3>1, <3>2 DEF ClosedIncidents
  <2>8. QED
    BY <2>6, <2>7
<1>2. Init => Ledger
  BY DEF Init, Ledger, LedgerOf, ActiveIncidents
<1>3. QED
  BY <1>1, <1>2, LedgerStep, TypeCorrect, PTL DEF Spec, NoOutageForgotten

-----------------------------------------------------------------------------
(* No invented recovery *)

(* The recoveries of a device are paid for, one by one, with receipts.        *)
RecoveryInv ==
  \A d \in Device :
    /\ IsFiniteSet(receipts[d]) /\ IsFiniteSet(ClosedIncidents(incidents[d]))
    /\ Cardinality(ClosedIncidents(incidents[d])) <= Cardinality(receipts[d])

(* An outage that begins closes no incident. *)
LEMMA EnsuringClosesNone ==
  ASSUME NEW rows \in Seq(IncidentRows)
  PROVE  ClosedIncidents(EnsureOfflineIncident(rows)) = ClosedIncidents(rows)
<1>1. CASE ActiveIncidents(rows) # {}
  BY <1>1, EnsuringRows
<1>2. CASE ActiveIncidents(rows) = {}
  <2> DEFINE after == EnsureOfflineIncident(rows)
  <2>1. /\ after \in Seq(IncidentRows)
        /\ Len(after) = Len(rows) + 1 /\ ActiveIncidents(after) = {Len(rows) + 1}
    BY <1>2, EnsuringRows
  <2>2. DOMAIN rows = 1 .. Len(rows) /\ Len(rows) \in Nat /\ DOMAIN after = 1 .. (Len(rows) + 1)
    BY <2>1
  <2>3. QED
    BY <1>2, <2>1, <2>2 DEF ClosedIncidents
<1>3. QED
  BY <1>1, <1>2

(* An outage that ends closes its own incident and no other. *)
LEMMA ClosingClosesOne ==
  ASSUME NEW rows \in Seq(IncidentRows), LedgerOf("OFFLINE", rows)
  PROVE  ClosedIncidents(CloseForRecovery(rows)) \subseteq ClosedIncidents(rows) \union {Len(rows)}
<1>1. Len(CloseForRecovery(rows)) = Len(rows) /\ CloseForRecovery(rows) \in Seq(IncidentRows)
  BY ClosingRows
<1>2. DOMAIN CloseForRecovery(rows) = DOMAIN rows
  BY <1>1
<1>3. QED
  BY <1>2 DEF LedgerOf, ClosedIncidents

LEMMA RecoveryInvStep == TypeOK /\ Ledger /\ RecoveryInv /\ [Next]_vars => RecoveryInv'
<1> SUFFICES ASSUME TypeOK, Ledger, RecoveryInv, [Next]_vars
             PROVE  RecoveryInv'
  OBVIOUS
<1>1. CASE UNCHANGED <<incidents, receipts>>
  BY <1>1 DEF RecoveryInv
<1>2. ASSUME NEW d \in Device, EvaluateDevice(d)
      PROVE  RecoveryInv'
  <2>1. \A c \in Device : ClosedIncidents(incidents'[c]) = ClosedIncidents(incidents[c])
    BY <1>2, EnsuringClosesNone DEF EvaluateDevice, Evaluated, TypeOK
  <2>2. receipts' = receipts
    BY <1>2 DEF EvaluateDevice
  <2>3. QED
    BY <2>1, <2>2 DEF RecoveryInv
<1>3. ASSUME NEW d \in Device, NEW h \in HeartbeatIds(d), ReceiveHeartbeat(d, h)
      PROVE  RecoveryInv'
  <2> DEFINE rows == IF Overdue(d) THEN EnsureOfflineIncident(incidents[d]) ELSE incidents[d]
             wasOffline == Overdue(d) \/ availability[d] = "OFFLINE"
             before == ClosedIncidents(incidents[d])
             after == ClosedIncidents(incidents'[d])
  <2>1. /\ incidents[d] \in Seq(IncidentRows) /\ availability[d] \in AvailabilityStates
        /\ LedgerOf(availability[d], incidents[d])
    BY DEF TypeOK, Ledger
  <2>2. /\ incidents'[d] = IF wasOffline THEN CloseForRecovery(rows) ELSE incidents[d]
        /\ receipts'[d] = receipts[d] \union {h} /\ h \notin receipts[d]
        /\ \A c \in Device \ {d} : incidents'[c] = incidents[c] /\ receipts'[c] = receipts[c]
    BY <1>3 DEF ReceiveHeartbeat, AcceptHeartbeat, TypeOK
  <2>3. wasOffline => rows \in Seq(IncidentRows) /\ LedgerOf("OFFLINE", rows)
    BY <2>1, EnsuringRows, EnsuringKeepsLedger
  <2>4. ClosedIncidents(rows) = before
    BY <2>1, EnsuringClosesNone
  <2>5. after \subseteq before \union {Len(rows)}
    BY <2>2, <2>3, <2>4, ClosingClosesOne
  <2>6. /\ IsFiniteSet(before) /\ IsFiniteSet(receipts[d])
        /\ Cardinality(before) <= Cardinality(receipts[d])
        /\ Cardinality(before) \in Nat /\ Cardinality(receipts[d]) \in Nat
    BY FS_CardinalityType DEF RecoveryInv
  <2> HIDE DEF before, after, rows
  <2>7. /\ IsFiniteSet(before \union {Len(rows)})
        /\ \/ Cardinality(before \union {Len(rows)}) = Cardinality(before)
           \/ Cardinality(before \union {Len(rows)}) = Cardinality(before) + 1
    BY <2>6, FS_AddElement
  <2>8. IsFiniteSet(after) /\ Cardinality(after) <= Cardinality(before \union {Len(rows)})
    BY <2>5, <2>7, FS_Subset
  <2>9. IsFiniteSet(receipts'[d]) /\ Cardinality(receipts'[d]) = Cardinality(receipts[d]) + 1
    <3>1. receipts'[d] = receipts[d] \union {h} /\ h \notin receipts[d]
      BY <2>2
    <3>2. IsFiniteSet(receipts[d] \union {h})
          /\ Cardinality(receipts[d] \union {h}) = Cardinality(receipts[d]) + 1
      BY <2>6, <3>1, FS_AddElement
    <3>3. QED
      BY <3>1, <3>2
  <2>10. Cardinality(after) <= Cardinality(receipts'[d])
    <3>1. Cardinality(after) \in Nat
      BY <2>8, FS_CardinalityType
    <3>2. QED
      BY <2>6, <2>7, <2>8, <2>9, <3>1
  <2>11. QED
    BY <2>2, <2>8, <2>9, <2>10 DEF RecoveryInv, after
<1>4. QED
  BY <1>1, <1>2, <1>3 DEF Next, Tick, SweepBegin, WorkerCrash, EnrollDevice, SetEnabled,
     SendHeartbeat, vars, deviceVars

(* However often the network repeats heartbeats, a device recovers at most    *)
(* once for each heartbeat that was accepted.                                 *)
THEOREM RecoveriesAreHeard == Spec => []RecoveriesNeedNewHeartbeats
<1>1. Init => Ledger /\ RecoveryInv
  <2> SUFFICES ASSUME Init
               PROVE  Ledger /\ RecoveryInv
    OBVIOUS
  <2>1. \A d \in Device : receipts[d] = {} /\ ClosedIncidents(incidents[d]) = {}
    BY DEF Init, ClosedIncidents
  <2>2. RecoveryInv
    BY <2>1, FS_EmptySet DEF RecoveryInv
  <2>3. QED
    BY <2>2 DEF Init, Ledger, LedgerOf, ActiveIncidents
<1>2. RecoveryInv => RecoveriesNeedNewHeartbeats
  BY DEF RecoveryInv, RecoveriesNeedNewHeartbeats
<1>3. QED
  BY <1>1, <1>2, LedgerStep, RecoveryInvStep, TypeCorrect, PTL DEF Spec

-----------------------------------------------------------------------------
(* The contract *)

(* What the contract sees of a device's rows is fixed by their number and by  *)
(* the device's state.                                                        *)
LEMMA ClearedRows ==
  ASSUME NEW rows \in Seq(IncidentRows), NEW state \in AvailabilityStates,
         LedgerOf(state, rows)
  PROVE  {i \in DOMAIN rows : "DEVICE_RECOVERED" \in rows[i].events}
           = IF state = "OFFLINE" THEN 1 .. (Len(rows) - 1) ELSE 1 .. Len(rows)
<1>1. DOMAIN rows = 1 .. Len(rows) /\ Len(rows) \in Nat
  OBVIOUS
<1>2. \A i \in DOMAIN rows : "DEVICE_RECOVERED" \in rows[i].events <=> ~ rows[i].open
  BY DEF LedgerOf, EventKinds
<1>3. \A i \in DOMAIN rows : rows[i].open <=> state = "OFFLINE" /\ i = Len(rows)
  BY DEF LedgerOf, ActiveIncidents
<1>4. QED
  BY <1>1, <1>2, <1>3

(* Every behaviour of the component is a behaviour of OutageContract: each    *)
(* alert raises the next outage or clears the open one, and nothing else.     *)
THEOREM ContractImplemented == Spec => ImplementsContract
<1>1. Init => Contract!Init
  <2> SUFFICES ASSUME Init
               PROVE  Contract!Init
    OBVIOUS
  <2>1. \A d \in Device : availability[d] # "OFFLINE" /\ incidents[d] = << >>
    BY DEF Init
  <2>2. \A d \in Device : Len(incidents[d]) = 0 /\ DOMAIN incidents[d] = {}
    BY <2>1
  <2>3. QED
    BY <2>1, <2>2 DEF Contract!Init
<1>2. TypeOK /\ TypeOK' /\ Ledger /\ Ledger' /\ [Next]_vars => [Contract!Next]_(Contract!vars)
  <2> SUFFICES ASSUME TypeOK, TypeOK', Ledger, Ledger', [Next]_vars
               PROVE  [Contract!Next]_(Contract!vars)
    OBVIOUS
  <2> DEFINE Down(c) == availability[c] = "OFFLINE"
             Cleared(c) == {i \in DOMAIN incidents[c] :
                              "DEVICE_RECOVERED" \in incidents[c][i].events}
             SameElsewhere(d) == \A c \in Device \ {d} :
               availability'[c] = availability[c] /\ incidents'[c] = incidents[c]
  <2>1. CASE UNCHANGED <<availability, incidents>>
    BY <2>1 DEF Contract!vars
  <2>2. \A c \in Device :
          /\ Len(incidents[c]) \in Nat
          /\ Cleared(c) = IF Down(c) THEN 1 .. (Len(incidents[c]) - 1) ELSE 1 .. Len(incidents[c])
    BY ClearedRows DEF Ledger, TypeOK
  <2>3. \A c \in Device :
          (Cleared(c))' = IF (Down(c))' THEN 1 .. (Len(incidents'[c]) - 1) ELSE 1 .. Len(incidents'[c])
    BY ClearedRows DEF Ledger, TypeOK
  <2>4. ASSUME NEW d \in Device, EvaluateDevice(d)
        PROVE  [Contract!Next]_(Contract!vars)
    <3>1. CASE ~ enabled[d]
      BY <2>1, <2>4, <3>1 DEF EvaluateDevice
    <3>2. CASE enabled[d]
      <4> DEFINE desired == AvailabilityState(MonitoringBaseline(d))
      <4>1. /\ availability' = [availability EXCEPT ![d] =
                   IF desired # "OFFLINE" /\ @ = "OFFLINE" THEN @ ELSE desired]
            /\ incidents' = [incidents EXCEPT ![d] =
                   IF desired = "OFFLINE" THEN EnsureOfflineIncident(@) ELSE @]
        BY <2>4, <3>2 DEF EvaluateDevice, Evaluated
      <4>2. CASE desired = "OFFLINE" /\ ~ Down(d)
        <5>1. Len(incidents'[d]) = Len(incidents[d]) + 1
          <6>1. incidents[d] \in Seq(IncidentRows) /\ ActiveIncidents(incidents[d]) = {}
            BY <4>2 DEF TypeOK, Ledger, LedgerOf
          <6>2. incidents'[d] = EnsureOfflineIncident(incidents[d])
            BY <4>1, <4>2 DEF TypeOK
          <6>3. QED
            BY <6>1, <6>2, EnsuringRows
        <5>2. /\ (Down(d))'
              /\ Len(incidents'[d]) = Len(incidents[d]) + 1
              /\ (Cleared(d))' = Cleared(d)
          BY <2>2, <2>3, <4>1, <4>2, <5>1 DEF TypeOK
        <5>3. SameElsewhere(d)
          BY <4>1 DEF TypeOK
        <5>4. Contract!Raise(d)
          BY <4>2, <5>2, <5>3 DEF Contract!Raise
        <5>5. QED
          BY <5>4 DEF Contract!Next
      <4>3. CASE desired = "OFFLINE" /\ Down(d)
        <5>1. incidents'[d] = incidents[d]
          <6>1. incidents[d] \in Seq(IncidentRows) /\ ActiveIncidents(incidents[d]) # {}
            BY <4>3 DEF TypeOK, Ledger, LedgerOf
          <6>2. incidents'[d] = EnsureOfflineIncident(incidents[d])
            BY <4>1, <4>3 DEF TypeOK
          <6>3. QED
            BY <6>1, <6>2, EnsuringRows
        <5>2. availability' = availability /\ incidents' = incidents
          BY <4>1, <4>3, <5>1 DEF TypeOK
        <5>3. QED
          BY <2>1, <5>2
      <4>4. CASE desired # "OFFLINE"
        <5>1. incidents' = incidents /\ \A c \in Device : (Down(c))' <=> Down(c)
          BY <4>1, <4>4 DEF TypeOK
        <5>2. QED
          BY <5>1 DEF Contract!vars
      <4>5. QED
        BY <4>2, <4>3, <4>4
    <3>3. QED
      BY <3>1, <3>2
  <2>5. ASSUME NEW d \in Device, NEW h \in HeartbeatIds(d), ReceiveHeartbeat(d, h)
        PROVE  [Contract!Next]_(Contract!vars)
    <3> DEFINE rows == IF Overdue(d) THEN EnsureOfflineIncident(incidents[d]) ELSE incidents[d]
               wasOffline == Overdue(d) \/ Down(d)
    <3>1. /\ availability' = [availability EXCEPT ![d] = "ONLINE"]
          /\ incidents' = [incidents EXCEPT ![d] = IF wasOffline THEN CloseForRecovery(rows) ELSE @]
      BY <2>5 DEF ReceiveHeartbeat, AcceptHeartbeat
    <3>2. rows \in Seq(IncidentRows)
      BY EnsuringRows DEF TypeOK
    <3>3. ~ (Down(d))'
      BY <3>1 DEF TypeOK
    <3>same. SameElsewhere(d)
      BY <3>1 DEF TypeOK
    <3>4. CASE Down(d)
      <4>1. rows = incidents[d]
        BY <3>4, EnsuringRows DEF TypeOK, Ledger, LedgerOf
      <4>2. Len(incidents'[d]) = Len(incidents[d])
        BY <3>1, <3>2, <3>4, <4>1, ClosingRows DEF TypeOK
      <4>3. Len(incidents[d]) > 0
        BY <3>4 DEF Ledger, LedgerOf, TypeOK
      <4>4. (Cleared(d))' = Cleared(d) \union {Len(incidents[d])} /\ Len(incidents[d]) \notin Cleared(d)
        BY <2>2, <2>3, <3>3, <3>4, <4>2, <4>3
      <4>5. Contract!Clear(d)
        <5>1. [c \in Device |-> Down(c)]' = [[c \in Device |-> Down(c)] EXCEPT ![d] = FALSE]
          BY <3>3, <3>same
        <5>2. [c \in Device |-> Len(incidents[c])]' = [c \in Device |-> Len(incidents[c])]
          BY <3>same, <4>2
        <5>3. [c \in Device |-> Cleared(c)]' =
                [[c \in Device |-> Cleared(c)] EXCEPT ![d] = @ \union {Len(incidents[d])}]
          BY <3>same, <4>4
        <5>4. QED
          BY <3>4, <4>4, <5>1, <5>2, <5>3 DEF Contract!Clear
      <4>6. QED
        BY <4>5 DEF Contract!Next
    <3>5. CASE Overdue(d) /\ ~ Down(d)
      <4>1. Len(rows) = Len(incidents[d]) + 1
        BY <3>5, EnsuringRows DEF TypeOK, Ledger, LedgerOf
      <4>2. Len(incidents'[d]) = Len(incidents[d]) + 1
        BY <3>1, <3>2, <3>5, <4>1, ClosingRows DEF TypeOK
      <4>3. (Cleared(d))' = Cleared(d) \union {Len(incidents[d]) + 1}
        BY <2>2, <2>3, <3>3, <3>5, <4>2
      <4>4. Contract!RaiseAndClear(d)
        BY <3>3, <3>5, <3>same, <4>2, <4>3 DEF Contract!RaiseAndClear
      <4>5. QED
        BY <4>4 DEF Contract!Next
    <3>6. CASE ~ wasOffline
      <4>1. incidents' = incidents /\ \A c \in Device : (Down(c))' <=> Down(c)
        BY <3>1, <3>6 DEF TypeOK
      <4>2. QED
        BY <4>1 DEF Contract!vars
    <3>7. QED
      BY <3>4, <3>5, <3>6
  <2>6. QED
    BY <2>1, <2>4, <2>5 DEF Next, Tick, SweepBegin, WorkerCrash, EnrollDevice, SetEnabled,
       SendHeartbeat, vars, deviceVars
<1>3. Init => Ledger
  BY DEF Init, Ledger, LedgerOf, ActiveIncidents
<1>4. QED
  BY <1>1, <1>2, <1>3, LedgerStep, TypeCorrect, PTL DEF Spec, ImplementsContract, Contract!Spec

=============================================================================
