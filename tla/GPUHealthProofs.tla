-------------------------- MODULE GPUHealthProofs --------------------------
(***************************************************************************)
(* GPU confirmation, for every fleet, every set of policies and reports    *)
(* and every gap below the OFFLINE threshold: type correctness, agreement  *)
(* of confirmed state, incidents and queued alerts, the two fresh samples  *)
(* behind each change, and the implementation of OutageContract.           *)
(***************************************************************************)
EXTENDS GPUHealth, TLAPS

USE GapBeforeOffline, MaxIncidentsIsNat

-----------------------------------------------------------------------------
(* What the helpers on incident rows return *)

(* Opening keeps the rows that have an open incident, and otherwise appends   *)
(* the only open one.                                                         *)
LEMMA OpeningRows ==
  ASSUME NEW rows \in Seq(IncidentRows), NEW reason \in BadStates
  PROVE  /\ Opened(rows, reason) \in Seq(IncidentRows)
         /\ ActiveIncidents(rows) # {} => Opened(rows, reason) = rows
         /\ ActiveIncidents(rows) = {} =>
              /\ Len(Opened(rows, reason)) = Len(rows) + 1
              /\ ActiveIncidents(Opened(rows, reason)) = {Len(rows) + 1}
              /\ Opened(rows, reason)[Len(rows) + 1].reason = reason
<1> DEFINE row == [open |-> TRUE, reason |-> reason]
           after == Append(rows, row)
<1>1. row \in IncidentRows /\ row.open /\ row.reason = reason
  BY DEF IncidentRows
<1>2. CASE ActiveIncidents(rows) # {}
  BY <1>2 DEF Opened
<1>3. CASE ActiveIncidents(rows) = {}
  <2>1. Opened(rows, reason) = after
    BY <1>3 DEF Opened
  <2>2. after \in Seq(IncidentRows) /\ Len(after) = Len(rows) + 1
    BY <1>1
  <2>3. \A i \in 1 .. Len(rows) : after[i] = rows[i]
    BY <1>1
  <2>4. after[Len(rows) + 1] = row
    BY <1>1
  <2>5. \A i \in 1 .. Len(rows) : ~ rows[i].open
    BY <1>3 DEF ActiveIncidents
  <2>6. ActiveIncidents(after) = {Len(rows) + 1}
    BY <1>1, <2>2, <2>3, <2>4, <2>5 DEF ActiveIncidents
  <2>7. QED
    BY <1>1, <1>3, <2>1, <2>2, <2>4, <2>6
<1>4. QED
  BY <1>2, <1>3

(* Closing keeps the number of rows and leaves none open. *)
LEMMA ClosingRows ==
  ASSUME NEW rows \in Seq(IncidentRows)
  PROVE  /\ Closed(rows) \in Seq(IncidentRows)
         /\ Len(Closed(rows)) = Len(rows)
         /\ ActiveIncidents(Closed(rows)) = {}
<1>1. DOMAIN rows = 1 .. Len(rows) /\ Len(rows) \in Nat
  OBVIOUS
<1>2. \A i \in 1 .. Len(rows) : rows[i] \in IncidentRows
  OBVIOUS
<1>3. \A i \in 1 .. Len(rows) : Closed(rows)[i] \in IncidentRows /\ ~ Closed(rows)[i].open
  BY <1>1, <1>2 DEF Closed, IncidentRows
<1>4. Closed(rows) = [i \in 1 .. Len(rows) |-> Closed(rows)[i]]
  BY <1>1 DEF Closed
<1>5. Closed(rows) \in Seq(IncidentRows)
  <2>1. Closed(rows) \in [1 .. Len(rows) -> IncidentRows]
    BY <1>3, <1>4
  <2>2. QED
    BY <1>1, <2>1
<1>6. Len(Closed(rows)) = Len(rows) /\ DOMAIN Closed(rows) = DOMAIN rows
  BY <1>1, <1>5 DEF Closed
<1>7. QED
  BY <1>1, <1>3, <1>5, <1>6 DEF ActiveIncidents

(* A new reason is written to the open rows and changes nothing else.         *)
LEMMA ReasonRows ==
  ASSUME NEW rows \in Seq(IncidentRows), NEW reason \in BadStates
  PROVE  /\ WithReason(rows, reason) \in Seq(IncidentRows)
         /\ Len(WithReason(rows, reason)) = Len(rows)
         /\ DOMAIN WithReason(rows, reason) = DOMAIN rows
         /\ \A i \in DOMAIN rows :
              /\ WithReason(rows, reason)[i].open = rows[i].open
              /\ rows[i].open => WithReason(rows, reason)[i].reason = reason
         /\ ActiveIncidents(WithReason(rows, reason)) = ActiveIncidents(rows)
<1> DEFINE after == WithReason(rows, reason)
<1>1. DOMAIN rows = 1 .. Len(rows) /\ Len(rows) \in Nat
  OBVIOUS
<1>2. \A i \in 1 .. Len(rows) : rows[i] \in IncidentRows
  OBVIOUS
<1>3. \A i \in 1 .. Len(rows) :
        /\ after[i] \in IncidentRows
        /\ after[i].open = rows[i].open
        /\ rows[i].open => after[i].reason = reason
  BY <1>1, <1>2 DEF WithReason, IncidentRows
<1>4. after = [i \in 1 .. Len(rows) |-> after[i]]
  BY <1>1 DEF WithReason
<1>5. after \in Seq(IncidentRows)
  <2>1. after \in [1 .. Len(rows) -> IncidentRows]
    BY <1>3, <1>4
  <2>2. QED
    BY <1>1, <2>1
<1>6. Len(after) = Len(rows) /\ DOMAIN after = DOMAIN rows
  BY <1>1, <1>5 DEF WithReason
<1>7. ActiveIncidents(after) = ActiveIncidents(rows)
  BY <1>1, <1>3, <1>6 DEF ActiveIncidents
<1>8. QED
  BY <1>1, <1>3, <1>5, <1>6, <1>7

-----------------------------------------------------------------------------
(* The five outcomes of the confirmation algorithm *)

Priors == [state : GPUEffectiveStates, failures : Streaks, ok : Streaks,
           hasSample : BOOLEAN, age : Ages]

MonitoringOff(p, c) ==
  ~ p.monitored /\ c = Confirmation("NOT_MONITORED", 0, 0, "none")

Recovers(prior, c) ==
  /\ prior.state # "OK" /\ prior.ok = 1 /\ Consecutive(prior)
  /\ c = Confirmation("OK", 0, 2, "GPU_RECOVERED")

StaysGood(prior, c) ==
  /\ c.state = prior.state /\ c.failures = 0 /\ c.ok \in {1, 2} /\ c.event = "none"
  /\ c.ok = 2 => prior.state = "OK" \/ prior.ok = 2

Degrades(prior, observed, c) ==
  /\ prior.state = "OK" /\ prior.failures = 1 /\ Consecutive(prior)
  /\ c = Confirmation(observed, 2, 0, "GPU_DEGRADED")

StaysBad(prior, c) ==
  /\ c.state = prior.state /\ c.failures \in {1, 2} /\ c.ok = 0 /\ c.event = "none"
  /\ c.failures = 2 => prior.state # "OK" \/ prior.failures = 2

LEMMA EffectiveStateIsConfirmable ==
  ASSUME NEW r \in Reports, NEW p \in Policies
  PROVE  EffectiveState(r, p) \in BadStates \union {"OK"}
BY ReportsAreValid DEF EffectiveState, BadStates

(* The algorithm has these outcomes and no other: a change of the incident    *)
(* needs a prior sample, still fresh, that began the streak.                  *)
LEMMA Outcomes ==
  ASSUME NEW prior \in Priors, NEW r \in Reports, NEW p \in Policies, NEW c,
         c = EvaluateGPUObservation(prior, r, p)
  PROVE  \/ Observation(r, p) = "NOT_MONITORED" /\ MonitoringOff(p, c)
         \/ Observation(r, p) = "OK" /\ (Recovers(prior, c) \/ StaysGood(prior, c))
         \/ /\ Observation(r, p) = "BAD" /\ EffectiveState(r, p) \in BadStates
            /\ Degrades(prior, EffectiveState(r, p), c) \/ StaysBad(prior, c)
<1> DEFINE observed == EffectiveState(r, p)
           ok == IF Consecutive(prior) THEN Streak(prior.ok) ELSE 1
           failures == IF Consecutive(prior) THEN Streak(prior.failures) ELSE 1
<1>1. prior.ok \in Streaks /\ prior.failures \in Streaks
  BY DEF Priors
<1>2. /\ ok \in {1, 2}
      /\ ok = 2 => Consecutive(prior) /\ prior.ok \in {1, 2}
  BY <1>1 DEF Streak, Streaks
<1>3. /\ failures \in {1, 2}
      /\ failures = 2 => Consecutive(prior) /\ prior.failures \in {1, 2}
  BY <1>1 DEF Streak, Streaks
<1>4. CASE ~ p.monitored
  BY <1>4 DEF EvaluateGPUObservation, Observation, MonitoringOff
<1>5. CASE p.monitored /\ observed = "OK"
  <2>1. CASE RecoveryConfirmed(prior, ok)
    <3>1. prior.state # "OK" /\ prior.ok = 1 /\ Consecutive(prior) /\ ok = 2
      BY <1>1, <1>2, <2>1 DEF RecoveryConfirmed, Streaks
    <3>2. c = Confirmation("OK", 0, 2, "GPU_RECOVERED")
      BY <1>5, <2>1, <3>1 DEF EvaluateGPUObservation
    <3>3. QED
      BY <1>5, <3>1, <3>2 DEF Recovers, Observation
  <2>2. CASE ~ RecoveryConfirmed(prior, ok)
    <3>1. c = Confirmation(prior.state, 0, ok, "none")
      BY <1>5, <2>2 DEF EvaluateGPUObservation
    <3>2. ok = 2 => prior.state = "OK" \/ prior.ok = 2
      BY <1>1, <1>2, <2>2 DEF RecoveryConfirmed, Streaks
    <3>3. QED
      BY <1>2, <1>5, <3>1, <3>2 DEF StaysGood, Observation, Confirmation
  <2>3. QED
    BY <2>1, <2>2
<1>6. CASE p.monitored /\ observed # "OK"
  <2>1. observed \in BadStates
    BY <1>6, EffectiveStateIsConfirmable
  <2>2. CASE DegradationConfirmed(prior, failures)
    <3>1. prior.state = "OK" /\ prior.failures = 1 /\ Consecutive(prior) /\ failures = 2
      BY <1>1, <1>3, <2>2 DEF DegradationConfirmed, Streaks
    <3>2. c = Confirmation(observed, 2, 0, "GPU_DEGRADED")
      BY <1>6, <2>2, <3>1 DEF EvaluateGPUObservation
    <3>3. QED
      BY <1>6, <2>1, <3>1, <3>2 DEF Degrades, Observation
  <2>3. CASE ~ DegradationConfirmed(prior, failures)
    <3>1. c = Confirmation(prior.state, failures, 0, "none")
      BY <1>6, <2>3 DEF EvaluateGPUObservation
    <3>2. failures = 2 => prior.state # "OK" \/ prior.failures = 2
      BY <1>1, <1>3, <2>3 DEF DegradationConfirmed, Streaks
    <3>3. QED
      BY <1>3, <1>6, <2>1, <3>1, <3>2 DEF StaysBad, Observation, Confirmation
  <2>4. QED
    BY <2>2, <2>3
<1>7. QED
  BY <1>4, <1>5, <1>6

-----------------------------------------------------------------------------
(* One device *)

(* What relates the confirmation state of a device, its incidents, its queued *)
(* alert and what it was last judged to be. The streaks are here because an   *)
(* incident may only be kept closed, or open, while no streak is complete.    *)
DeviceInv(state, failures, ok, rows, pending, off, last) ==
  /\ state = "OK" => ActiveIncidents(rows) = {}
  /\ state \in BadStates =>
       /\ ActiveIncidents(rows) = {Len(rows)}
       /\ rows # << >>
       /\ rows[Len(rows)].reason = state
  /\ ActiveIncidents(rows) \subseteq {Len(rows)}
  /\ failures = 2 /\ state # "NOT_MONITORED" => ActiveIncidents(rows) # {}
  /\ ok = 2 => state = "OK"
  /\ pending => ActiveIncidents(rows) # {} /\ ~ off
  /\ failures > 0 => last = "BAD"
  /\ ok > 0 => last = "OK"

Judged(prior, r, p) == EvaluateGPUObservation(prior, r, p)

(* Every row of the table of outcomes keeps the types. *)
LEMMA HeartbeatKeepsTypes ==
  ASSUME NEW prior \in Priors, NEW r \in Reports, NEW p \in Policies,
         NEW rows \in Seq(IncidentRows)
  PROVE  /\ Judged(prior, r, p).state \in GPUEffectiveStates
         /\ Judged(prior, r, p).failures \in Streaks
         /\ Judged(prior, r, p).ok \in Streaks
         /\ RowsAfter(rows, Judged(prior, r, p)) \in Seq(IncidentRows)
<1> DEFINE c == Judged(prior, r, p)
<1>1. prior.state \in GPUEffectiveStates
  BY DEF Priors
<1>2. /\ c.state \in GPUEffectiveStates
      /\ c.failures \in Streaks /\ c.ok \in Streaks
      /\ c.event \in {"none", "GPU_RECOVERED", "GPU_DEGRADED"}
      /\ c.event = "GPU_DEGRADED" => c.state \in BadStates
  <2>1. CASE MonitoringOff(p, c)
    BY <2>1 DEF MonitoringOff, Confirmation, Streaks, GPUEffectiveStates
  <2>2. CASE Recovers(prior, c)
    BY <2>2 DEF Recovers, Confirmation, Streaks, GPUEffectiveStates
  <2>3. CASE StaysGood(prior, c)
    BY <1>1, <2>3 DEF StaysGood, Streaks
  <2>4. CASE EffectiveState(r, p) \in BadStates /\ Degrades(prior, EffectiveState(r, p), c)
    BY <2>4 DEF Degrades, Confirmation, Streaks, GPUEffectiveStates
  <2>5. CASE StaysBad(prior, c)
    BY <1>1, <2>5 DEF StaysBad, Streaks
  <2>6. QED
    BY <2>1, <2>2, <2>3, <2>4, <2>5, Outcomes DEF Judged
<1>3. c.event = "GPU_DEGRADED" => RowsAfter(rows, c) \in Seq(IncidentRows)
  BY <1>2, OpeningRows DEF RowsAfter
<1>4. c.event = "GPU_RECOVERED" => RowsAfter(rows, c) \in Seq(IncidentRows)
  BY ClosingRows DEF RowsAfter
<1>5. c.event = "none" => RowsAfter(rows, c) \in Seq(IncidentRows)
  BY ReasonRows DEF RowsAfter
<1>6. QED
  BY <1>2, <1>3, <1>4, <1>5

(* A heartbeat keeps the relation, whatever it reports.                       *)
LEMMA HeartbeatKeepsDeviceInv ==
  ASSUME NEW prior \in Priors, NEW r \in Reports, NEW p \in Policies,
         NEW rows \in Seq(IncidentRows), NEW pending \in BOOLEAN, NEW off \in BOOLEAN, NEW last,
         DeviceInv(prior.state, prior.failures, prior.ok, rows, pending, off, last),
         NEW c, c = Judged(prior, r, p)
  PROVE  DeviceInv(c.state, c.failures, c.ok, RowsAfter(rows, c), PendingAfter(pending, rows, c),
                   FALSE, Observation(r, p))
<1>1. prior.state \in GPUEffectiveStates /\ "OK" \notin BadStates /\ "NOT_MONITORED" \notin BadStates
  BY DEF Priors, BadStates
<1>2. CASE MonitoringOff(p, c)
  <2>1. RowsAfter(rows, c) = rows
    BY <1>1, <1>2 DEF MonitoringOff, Confirmation, RowsAfter
  <2>2. PendingAfter(pending, rows, c) <=> pending
    BY <1>2 DEF MonitoringOff, Confirmation, PendingAfter
  <2>3. QED
    BY <1>1, <1>2, <2>1, <2>2 DEF MonitoringOff, Confirmation, DeviceInv
<1>3. CASE Observation(r, p) = "OK" /\ Recovers(prior, c)
  <2>1. RowsAfter(rows, c) = Closed(rows)
    BY <1>3 DEF Recovers, Confirmation, RowsAfter
  <2>2. ActiveIncidents(RowsAfter(rows, c)) = {}
    BY <2>1, ClosingRows
  <2>3. ~ PendingAfter(pending, rows, c)
    BY <1>3 DEF Recovers, Confirmation, PendingAfter, DeviceInv
  <2>4. QED
    BY <1>1, <1>3, <2>2, <2>3 DEF Recovers, Confirmation, DeviceInv
<1>4. ASSUME c.event = "none", c.state = prior.state
      PROVE  /\ ActiveIncidents(RowsAfter(rows, c)) = ActiveIncidents(rows)
             /\ Len(RowsAfter(rows, c)) = Len(rows)
             /\ c.state \in BadStates => /\ RowsAfter(rows, c) # << >>
                                        /\ RowsAfter(rows, c)[Len(rows)].reason = c.state
             /\ PendingAfter(pending, rows, c) <=> pending
  <2>1. PendingAfter(pending, rows, c) <=> pending
    BY <1>4 DEF PendingAfter
  <2>2. CASE c.state \notin BadStates
    BY <1>4, <2>1, <2>2 DEF RowsAfter
  <2>3. CASE c.state \in BadStates
    <3>1. RowsAfter(rows, c) = WithReason(rows, c.state)
      BY <1>4, <2>3 DEF RowsAfter
    <3>2. /\ Len(rows) \in ActiveIncidents(rows) /\ ActiveIncidents(rows) = {Len(rows)}
          /\ rows # << >>
      BY <1>4, <2>3 DEF DeviceInv
    <3>3. Len(rows) \in DOMAIN rows /\ rows[Len(rows)].open
      BY <3>2 DEF ActiveIncidents
    <3>4. QED
      BY <2>1, <2>3, <3>1, <3>2, <3>3, ReasonRows
  <2>4. QED
    BY <2>2, <2>3
<1>5. CASE Observation(r, p) = "OK" /\ StaysGood(prior, c)
  BY <1>1, <1>4, <1>5 DEF StaysGood, DeviceInv
<1>6. CASE /\ Observation(r, p) = "BAD" /\ EffectiveState(r, p) \in BadStates
           /\ Degrades(prior, EffectiveState(r, p), c)
  <2>1. ActiveIncidents(rows) = {}
    BY <1>6 DEF Degrades, DeviceInv
  <2>2. c.event = "GPU_DEGRADED" /\ c.state = EffectiveState(r, p) /\ c.failures = 2 /\ c.ok = 0
    BY <1>6 DEF Degrades, Confirmation
  <2>3. RowsAfter(rows, c) = Opened(rows, c.state)
    BY <2>2 DEF RowsAfter
  <2>4. /\ Len(RowsAfter(rows, c)) = Len(rows) + 1
        /\ ActiveIncidents(RowsAfter(rows, c)) = {Len(rows) + 1}
        /\ RowsAfter(rows, c)[Len(rows) + 1].reason = c.state
    BY <1>6, <2>1, <2>2, <2>3, OpeningRows
  <2>5. RowsAfter(rows, c) # << >>
    BY <2>4
  <2>6. QED
    BY <1>1, <1>6, <2>2, <2>4, <2>5 DEF DeviceInv
<1>7. CASE Observation(r, p) = "BAD" /\ StaysBad(prior, c)
  BY <1>1, <1>4, <1>7 DEF StaysBad, DeviceInv, GPUEffectiveStates
<1>8. QED
  BY <1>2, <1>3, <1>5, <1>6, <1>7, Outcomes DEF Judged

-----------------------------------------------------------------------------
(* Type correctness *)

LEMMA PriorIsPrior ==
  ASSUME TypeOK, NEW d \in Device
  PROVE  PriorConfirmation(d) \in Priors
BY DEF TypeOK, PriorConfirmation, Priors, Streaks

(* No heartbeat, reset or policy change writes a value outside its column.    *)
THEOREM TypeCorrect == Spec => []TypeOK
<1>1. Init => TypeOK
  BY DEF Init, TypeOK, GPUEffectiveStates, Streaks, Ages, Observations
<1>2. TypeOK /\ [Next]_vars => TypeOK'
  <2> SUFFICES ASSUME TypeOK, [Next]_vars
               PROVE  TypeOK'
    OBVIOUS
  <2>1. CASE UNCHANGED vars
    BY <2>1 DEF vars, confirmationVars, TypeOK
  <2>2. CASE Tick
    BY <2>2 DEF Tick, confirmationVars, TypeOK, Ages
  <2>3. ASSUME NEW d \in Device, SweepFindsSilent(d)
        PROVE  TypeOK'
    BY <2>3 DEF SweepFindsSilent, ResetForDeviceOffline, TypeOK, Streaks
  <2>4. ASSUME NEW d \in Device, AlertFinished(d)
        PROVE  TypeOK'
    BY <2>4 DEF AlertFinished, confirmationVars, TypeOK
  <2>5. ASSUME NEW d \in Device, NEW p \in Policies, SetGPUPolicy(d, p)
        PROVE  TypeOK'
    BY <2>5 DEF SetGPUPolicy, confirmationVars, TypeOK
  <2>6. ASSUME NEW d \in Device, NEW r \in Reports, AcceptHeartbeat(d, r)
        PROVE  TypeOK'
    <3> DEFINE c == Judged(PriorConfirmation(d), r, policy[d])
    <3>1. PriorConfirmation(d) \in Priors /\ policy[d] \in Policies
          /\ incidents[d] \in Seq(IncidentRows)
      BY PriorIsPrior DEF TypeOK
    <3>2. /\ c.state \in GPUEffectiveStates /\ c.failures \in Streaks /\ c.ok \in Streaks
          /\ RowsAfter(incidents[d], c) \in Seq(IncidentRows)
      BY <3>1, HeartbeatKeepsTypes
    <3>3. /\ gpuState' = [gpuState EXCEPT ![d] = c.state]
          /\ failureStreak' = [failureStreak EXCEPT ![d] = c.failures]
          /\ okStreak' = [okStreak EXCEPT ![d] = c.ok]
          /\ incidents' = [incidents EXCEPT ![d] = RowsAfter(incidents[d], c)]
      BY <2>6 DEF AcceptHeartbeat, Judged
    <3>4. /\ gpuState' \in [Device -> GPUEffectiveStates]
          /\ failureStreak' \in [Device -> Streaks]
          /\ okStreak' \in [Device -> Streaks]
          /\ incidents' \in [Device -> Seq(IncidentRows)]
      BY <3>2, <3>3 DEF TypeOK
    <3>5. /\ hasSample' \in [Device -> BOOLEAN] /\ silentAge' \in [Device -> Ages]
          /\ offline' \in [Device -> BOOLEAN]
      BY <2>6 DEF AcceptHeartbeat, TypeOK, Ages
    <3>6. alertPending' \in [Device -> BOOLEAN]
      BY <2>6 DEF AcceptHeartbeat, TypeOK, PendingAfter
    <3>7. lastObserved' \in [Device -> Observations]
      BY <2>6 DEF AcceptHeartbeat, TypeOK, Observation, Observations
    <3>8. policy' \in [Device -> Policies]
      BY <2>6 DEF AcceptHeartbeat, TypeOK
    <3>9. QED
      BY <3>4, <3>5, <3>6, <3>7, <3>8 DEF TypeOK
  <2>7. QED
    BY <2>1, <2>2, <2>3, <2>4, <2>5, <2>6 DEF Next
<1>3. QED
  BY <1>1, <1>2, PTL DEF Spec

-----------------------------------------------------------------------------
(* The inductive invariant *)

IInv ==
  \A d \in Device :
    DeviceInv(gpuState[d], failureStreak[d], okStreak[d], incidents[d], alertPending[d],
              offline[d], lastObserved[d])

LEMMA InitIInv == Init => IInv
BY DEF Init, IInv, DeviceInv, ActiveIncidents, BadStates

(* A silent device starts its next heartbeat from a confirmation already      *)
(* reset, which keeps the relation too.                                       *)
LEMMA ResetKeepsDeviceInv ==
  ASSUME TypeOK, IInv, NEW d \in Device
  PROVE  LET prior == PriorConfirmation(d)
         IN  DeviceInv(prior.state, prior.failures, prior.ok, incidents[d],
                       alertPending[d] /\ ~ Silent(d), offline[d], lastObserved[d])
BY DEF IInv, DeviceInv, PriorConfirmation, TypeOK

(* The row of the device a heartbeat arrives for. *)
LEMMA HeartbeatRow ==
  ASSUME TypeOK, NEW d \in Device, NEW r \in Reports, AcceptHeartbeat(d, r),
         NEW c, c = Judged(PriorConfirmation(d), r, policy[d])
  PROVE  /\ gpuState'[d] = c.state /\ failureStreak'[d] = c.failures /\ okStreak'[d] = c.ok
         /\ incidents'[d] = RowsAfter(incidents[d], c)
         /\ alertPending'[d] = PendingAfter(alertPending[d] /\ ~ Silent(d), incidents[d], c)
         /\ offline'[d] = FALSE
         /\ lastObserved'[d] = Observation(r, policy[d])
         /\ \A e \in Device \ {d} :
              /\ gpuState'[e] = gpuState[e] /\ failureStreak'[e] = failureStreak[e]
              /\ okStreak'[e] = okStreak[e] /\ incidents'[e] = incidents[e]
              /\ alertPending'[e] = alertPending[e] /\ offline'[e] = offline[e]
              /\ lastObserved'[e] = lastObserved[e]
BY DEF AcceptHeartbeat, Judged, TypeOK

LEMMA IInvStep == TypeOK /\ IInv /\ [Next]_vars => IInv'
<1> SUFFICES ASSUME TypeOK, IInv, [Next]_vars
             PROVE  IInv'
  OBVIOUS
<1>1. CASE UNCHANGED <<gpuState, failureStreak, okStreak, incidents, alertPending, offline,
                       lastObserved>>
  BY <1>1 DEF IInv
<1>2. ASSUME NEW d \in Device, SweepFindsSilent(d)
      PROVE  IInv'
  BY <1>2 DEF SweepFindsSilent, ResetForDeviceOffline, IInv, DeviceInv, TypeOK
<1>3. ASSUME NEW d \in Device, AlertFinished(d)
      PROVE  IInv'
  BY <1>3 DEF AlertFinished, confirmationVars, IInv, DeviceInv, TypeOK
<1>4. ASSUME NEW d \in Device, NEW r \in Reports, AcceptHeartbeat(d, r)
      PROVE  IInv'
  <2> DEFINE prior == PriorConfirmation(d)
             pending == alertPending[d] /\ ~ Silent(d)
             c == Judged(prior, r, policy[d])
  <2>1. /\ prior \in Priors /\ policy[d] \in Policies /\ incidents[d] \in Seq(IncidentRows)
        /\ pending \in BOOLEAN /\ offline[d] \in BOOLEAN
    BY PriorIsPrior DEF TypeOK
  <2>2. DeviceInv(prior.state, prior.failures, prior.ok, incidents[d], pending, offline[d],
                  lastObserved[d])
    BY ResetKeepsDeviceInv
  <2>3. DeviceInv(c.state, c.failures, c.ok, RowsAfter(incidents[d], c),
                  PendingAfter(pending, incidents[d], c), FALSE, Observation(r, policy[d]))
    BY <2>1, <2>2, HeartbeatKeepsDeviceInv
  <2> HIDE DEF c, prior, pending
  <2>4. DeviceInv(gpuState'[d], failureStreak'[d], okStreak'[d], incidents'[d], alertPending'[d],
                  offline'[d], lastObserved'[d])
    BY <1>4, <2>3, HeartbeatRow DEF c, prior, pending
  <2>5. \A e \in Device \ {d} :
          DeviceInv(gpuState'[e], failureStreak'[e], okStreak'[e], incidents'[e], alertPending'[e],
                    offline'[e], lastObserved'[e])
    BY <1>4, HeartbeatRow DEF IInv
  <2>6. QED
    BY <2>4, <2>5 DEF IInv
<1>5. QED
  BY <1>1, <1>2, <1>3, <1>4 DEF Next, Tick, SetGPUPolicy, confirmationVars, vars

(* In every reachable state of every fleet: confirmed states, complete        *)
(* streaks and queued alerts agree with the open incidents.                   *)
THEOREM ConfirmationCorrect ==
  Spec => [](ConfirmedStateMatchesIncident /\ ConfirmedFailureIsOpen
             /\ ConfirmedRecoveryIsClosed /\ QueuedAlertIsCurrent)
<1>1. IInv => /\ ConfirmedStateMatchesIncident /\ ConfirmedFailureIsOpen
              /\ ConfirmedRecoveryIsClosed /\ QueuedAlertIsCurrent
  BY DEF IInv, DeviceInv, ConfirmedStateMatchesIncident, ConfirmedFailureIsOpen,
     ConfirmedRecoveryIsClosed, QueuedAlertIsCurrent
<1>2. QED
  BY <1>1, InitIInv, IInvStep, TypeCorrect, PTL DEF Spec

(* A complete streak of failures has an open incident, unless the state is    *)
(* still that of a time without monitoring.                                   *)
THEOREM FailuresAreOpen == Spec => []ConfirmedFailureIsOpen
BY ConfirmationCorrect, PTL

(* A complete streak of good samples leaves no incident open.                 *)
THEOREM RecoveriesAreClosed == Spec => []ConfirmedRecoveryIsClosed
BY ConfirmationCorrect, PTL

(* A queued alert speaks of an open incident of a device that is not OFFLINE. *)
THEOREM QueuedAlertsAreCurrent == Spec => []QueuedAlertIsCurrent
BY ConfirmationCorrect, PTL

-----------------------------------------------------------------------------
(* What a change of the incidents takes *)

(* What a heartbeat does to the open incidents of its device: nothing, or the *)
(* opening that a fresh bad sample after a bad one allows, or the closing     *)
(* that a fresh good sample after a good one allows.                          *)
LEMMA HeartbeatChangesIncidents ==
  ASSUME TypeOK, IInv, NEW d \in Device, NEW r \in Reports, AcceptHeartbeat(d, r)
  PROVE  \/ /\ ActiveIncidents(incidents'[d]) = ActiveIncidents(incidents[d])
            /\ Len(incidents'[d]) = Len(incidents[d])
         \/ /\ ActiveIncidents(incidents[d]) = {}
            /\ Len(incidents'[d]) = Len(incidents[d]) + 1
            /\ ActiveIncidents(incidents'[d]) = {Len(incidents[d]) + 1}
            /\ silentAge[d] <= ConfirmationGap
            /\ lastObserved[d] = "BAD" /\ lastObserved'[d] = "BAD"
         \/ /\ ActiveIncidents(incidents[d]) = {Len(incidents[d])}
            /\ Len(incidents'[d]) = Len(incidents[d])
            /\ ActiveIncidents(incidents'[d]) = {}
            /\ silentAge[d] <= ConfirmationGap
            /\ lastObserved[d] = "OK" /\ lastObserved'[d] = "OK"
<1> DEFINE prior == PriorConfirmation(d)
           c == Judged(prior, r, policy[d])
<1>1. prior \in Priors /\ policy[d] \in Policies /\ incidents[d] \in Seq(IncidentRows)
  BY PriorIsPrior DEF TypeOK
<1>2. incidents'[d] = RowsAfter(incidents[d], c) /\ lastObserved'[d] = Observation(r, policy[d])
  BY HeartbeatRow
<1>3. DeviceInv(gpuState[d], failureStreak[d], okStreak[d], incidents[d], alertPending[d],
                offline[d], lastObserved[d])
  BY DEF IInv
<1>4. /\ prior.state = gpuState[d] /\ prior.age = silentAge[d]
      /\ prior.failures = 1 => failureStreak[d] = 1
      /\ prior.ok = 1 => okStreak[d] = 1
  BY DEF PriorConfirmation
<1>5. CASE c.event = "none"
  <2>1. CASE c.state \in BadStates
    BY <1>1, <1>2, <1>5, <2>1, ReasonRows DEF RowsAfter
  <2>2. CASE c.state \notin BadStates
    BY <1>2, <1>5, <2>2 DEF RowsAfter
  <2>3. QED
    BY <2>1, <2>2
<1>6. CASE /\ Observation(r, policy[d]) = "BAD" /\ EffectiveState(r, policy[d]) \in BadStates
           /\ Degrades(prior, EffectiveState(r, policy[d]), c)
  <2>1. c.event = "GPU_DEGRADED" /\ c.state \in BadStates
    BY <1>6 DEF Degrades, Confirmation
  <2>2. ActiveIncidents(incidents[d]) = {} /\ lastObserved[d] = "BAD"
    BY <1>3, <1>4, <1>6 DEF Degrades, DeviceInv
  <2>3. silentAge[d] <= ConfirmationGap
    BY <1>4, <1>6 DEF Degrades, Consecutive
  <2>4. incidents'[d] = Opened(incidents[d], c.state)
    BY <1>2, <2>1 DEF RowsAfter
  <2>5. /\ Len(incidents'[d]) = Len(incidents[d]) + 1
        /\ ActiveIncidents(incidents'[d]) = {Len(incidents[d]) + 1}
    BY <1>1, <2>1, <2>2, <2>4, OpeningRows
  <2>6. lastObserved'[d] = "BAD"
    BY <1>2, <1>6
  <2>7. QED
    BY <2>2, <2>3, <2>5, <2>6
<1>7. CASE Observation(r, policy[d]) = "OK" /\ Recovers(prior, c)
  <2>1. incidents'[d] = Closed(incidents[d])
    BY <1>2, <1>7 DEF Recovers, Confirmation, RowsAfter
  <2>2. Len(incidents'[d]) = Len(incidents[d]) /\ ActiveIncidents(incidents'[d]) = {}
    BY <1>1, <2>1, ClosingRows
  <2>3. /\ ActiveIncidents(incidents[d]) \subseteq {Len(incidents[d])}
        /\ lastObserved[d] = "OK"
    BY <1>3, <1>4, <1>7 DEF Recovers, DeviceInv
  <2>4. silentAge[d] <= ConfirmationGap
    BY <1>4, <1>7 DEF Recovers, Consecutive
  <2>5. ActiveIncidents(incidents[d]) \in {{}, {Len(incidents[d])}}
    BY <2>3
  <2>6. QED
    BY <1>2, <1>7, <2>2, <2>3, <2>4, <2>5
<1>8. CASE MonitoringOff(policy[d], c) \/ StaysGood(prior, c) \/ StaysBad(prior, c)
  <2>1. c.event = "none"
    BY <1>8 DEF MonitoringOff, StaysGood, StaysBad, Confirmation
  <2>2. QED
    BY <1>5, <2>1
<1>9. \/ MonitoringOff(policy[d], c) \/ StaysGood(prior, c) \/ StaysBad(prior, c)
      \/ Observation(r, policy[d]) = "OK" /\ Recovers(prior, c)
      \/ /\ Observation(r, policy[d]) = "BAD" /\ EffectiveState(r, policy[d]) \in BadStates
         /\ Degrades(prior, EffectiveState(r, policy[d]), c)
  BY <1>1, Outcomes DEF Judged
<1>10. QED
  BY <1>6, <1>7, <1>8, <1>9

(* Every step but a heartbeat leaves the incidents alone. *)
LEMMA OnlyHeartbeatsChangeIncidents ==
  ASSUME TypeOK, [Next]_vars
  PROVE  \/ UNCHANGED incidents
         \/ \E d \in Device : \E r \in Reports :
              /\ AcceptHeartbeat(d, r)
              /\ \A e \in Device \ {d} : incidents'[e] = incidents[e]
BY HeartbeatRow DEF Next, Tick, SweepFindsSilent, AlertFinished, SetGPUPolicy, confirmationVars, vars

(* No single sample, no stale sample and no policy change opens or closes an  *)
(* incident, in any fleet.                                                    *)
THEOREM ChangesAreConfirmed == Spec => ChangesNeedTwoFreshSamples
<1> DEFINE Confirmed ==
      \A d \in Device :
        LET active == ActiveIncidents(incidents[d])
        IN  ActiveIncidents(incidents'[d]) # active =>
              /\ silentAge[d] <= ConfirmationGap
              /\ lastObserved[d] = lastObserved'[d]
              /\ lastObserved'[d] = IF active = {} THEN "BAD" ELSE "OK"
<1>1. TypeOK /\ IInv /\ [Next]_vars => [Confirmed]_vars
  <2> SUFFICES ASSUME TypeOK, IInv, Next
               PROVE  Confirmed
    OBVIOUS
  <2>1. CASE UNCHANGED incidents
    BY <2>1
  <2>2. ASSUME NEW d \in Device, NEW r \in Reports, AcceptHeartbeat(d, r),
               \A e \in Device \ {d} : incidents'[e] = incidents[e]
        PROVE  Confirmed
    <3>1. ActiveIncidents(incidents'[d]) # ActiveIncidents(incidents[d]) =>
            /\ silentAge[d] <= ConfirmationGap
            /\ lastObserved[d] = lastObserved'[d]
            /\ lastObserved'[d] = IF ActiveIncidents(incidents[d]) = {} THEN "BAD" ELSE "OK"
      BY <2>2, HeartbeatChangesIncidents
    <3>2. QED
      BY <2>2, <3>1
  <2>3. QED
    BY <2>1, <2>2, OnlyHeartbeatsChangeIncidents
<1>2. QED
  BY <1>1, InitIInv, IInvStep, TypeCorrect, PTL DEF Spec, ChangesNeedTwoFreshSamples

-----------------------------------------------------------------------------
(* The contract *)

(* What is not open is closed. *)
LEMMA ClearedRows ==
  ASSUME NEW rows \in Seq(IncidentRows)
  PROVE  {i \in DOMAIN rows : ~ rows[i].open} = (1 .. Len(rows)) \ ActiveIncidents(rows)
BY DEF ActiveIncidents

(* Each GPU degradation is raised once, cleared at most once, and never       *)
(* overlaps another one of the same device.                                   *)
THEOREM ContractImplemented == Spec => ImplementsContract
<1>1. Init => Contract!Init
  <2> SUFFICES ASSUME Init
               PROVE  Contract!Init
    OBVIOUS
  <2>1. \A d \in Device : incidents[d] = << >>
    BY DEF Init
  <2>2. \A d \in Device : Len(incidents[d]) = 0 /\ DOMAIN incidents[d] = {}
    BY <2>1
  <2>3. QED
    BY <2>2 DEF Contract!Init, ActiveIncidents
<1>2. TypeOK /\ TypeOK' /\ IInv /\ [Next]_vars => [Contract!Next]_(Contract!vars)
  <2> SUFFICES ASSUME TypeOK, TypeOK', IInv, [Next]_vars
               PROVE  [Contract!Next]_(Contract!vars)
    OBVIOUS
  <2> DEFINE Cleared(e) == {i \in DOMAIN incidents[e] : ~ incidents[e][i].open}
             Active(e) == ActiveIncidents(incidents[e])
  <2>1. CASE UNCHANGED incidents
    BY <2>1 DEF Contract!vars
  <2>2. ASSUME NEW d \in Device, NEW r \in Reports, AcceptHeartbeat(d, r),
               \A e \in Device \ {d} : incidents'[e] = incidents[e]
        PROVE  [Contract!Next]_(Contract!vars)
    <3>1. /\ Cleared(d) = (1 .. Len(incidents[d])) \ Active(d)
          /\ (Cleared(d))' = (1 .. Len(incidents'[d])) \ (Active(d))'
          /\ Len(incidents[d]) \in Nat /\ Len(incidents'[d]) \in Nat
      BY ClearedRows DEF TypeOK
    <3>2. CASE (Active(d))' = Active(d) /\ Len(incidents'[d]) = Len(incidents[d])
      <4>1. \A e \in Device :
              /\ (Active(e))' = Active(e)
              /\ Len(incidents'[e]) = Len(incidents[e])
              /\ (Cleared(e))' = Cleared(e)
        BY <2>2, <3>1, <3>2
      <4>2. QED
        BY <4>1 DEF Contract!vars
    <3>3. CASE /\ Active(d) = {} /\ Len(incidents'[d]) = Len(incidents[d]) + 1
               /\ (Active(d))' = {Len(incidents[d]) + 1}
      <4>1. (Cleared(d))' = Cleared(d)
        BY <3>1, <3>3
      <4>2. Contract!Raise(d)
        BY <2>2, <3>3, <4>1 DEF Contract!Raise
      <4>3. QED
        BY <4>2 DEF Contract!Next
    <3>4. CASE /\ Active(d) = {Len(incidents[d])} /\ Len(incidents'[d]) = Len(incidents[d])
               /\ (Active(d))' = {}
      <4>1. Len(incidents[d]) \in 1 .. Len(incidents[d])
        BY <3>1, <3>4 DEF ActiveIncidents, TypeOK
      <4>2. (Cleared(d))' = Cleared(d) \union {Len(incidents[d])} /\ Len(incidents[d]) \notin Cleared(d)
        BY <3>1, <3>4, <4>1
      <4>3. Contract!Clear(d)
        BY <2>2, <3>4, <4>2 DEF Contract!Clear
      <4>4. QED
        BY <4>3 DEF Contract!Next
    <3>5. QED
      BY <2>2, <3>2, <3>3, <3>4, HeartbeatChangesIncidents
  <2>3. QED
    BY <2>1, <2>2, OnlyHeartbeatsChangeIncidents
<1>3. QED
  BY <1>1, <1>2, InitIInv, IInvStep, TypeCorrect, PTL DEF Spec, ImplementsContract, Contract!Spec

=============================================================================
