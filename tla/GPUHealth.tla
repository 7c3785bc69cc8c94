----------------------------- MODULE GPUHealth -----------------------------
(***************************************************************************)
(* GPU confirmation: server/app/gpu/service.py, inside the heartbeat       *)
(* transaction and under the availability sweep, with the administrator's  *)
(* GPU policy (devices/service.py).                                        *)
(*                                                                         *)
(* Each accepted heartbeat carries one GPU report. The server compares it  *)
(* with the device's policy and opens an incident after two consecutive    *)
(* fresh bad samples, closes it after two consecutive fresh good ones. A   *)
(* device that goes OFFLINE loses its confirmation state and its unsent    *)
(* GPU_DEGRADED alerts.                                                    *)
(*                                                                         *)
(* Time is modelled as in Availability: ages that stop at OfflineAfter.    *)
(* Every heartbeat that is accepted is a sample, so the age of the last    *)
(* heartbeat is also the age of the last sample, while there is one.       *)
(***************************************************************************)
EXTENDS Naturals, FiniteSets, Sequences

CONSTANTS
  Device,
  GPU,              \* identities of the GPUs a report may list
  Policies,         \* GPU policies the administrator may set
  Reports,          \* GPU reports an agent may send
  ConfirmationGap,  \* largest age of a consecutive sample (75 s)
  OfflineAfter,     \* age at which a silent device is OFFLINE (180 s)
  MaxIncidents      \* bound: GPU incidents of one device

ASSUME GapBeforeOffline ==
  /\ ConfirmationGap \in Nat /\ OfflineAfter \in Nat
  /\ 0 < ConfirmationGap /\ ConfirmationGap < OfflineAfter

BadStates == {"GPU_MISSING", "NVIDIA_SMI_FAILED", "DRIVER_ERROR", "UNKNOWN"}
GPUEffectiveStates == BadStates \union {"OK", "NOT_MONITORED"}

(* GPUPolicy: a policy that monitors nothing expects nothing. *)
ASSUME PoliciesAreValid ==
  /\ Policies \subseteq [monitored : BOOLEAN, minCount : Nat, uuids : SUBSET GPU]
  /\ \A p \in Policies : ~ p.monitored => p.minCount = 0 /\ p.uuids = {}

(* The schema of the heartbeat: an OK report is reliable and lists a GPU, the *)
(* reports of a failed driver or a failed nvidia-smi list none.               *)
ASSUME ReportsAreValid ==
  /\ Reports \subseteq [state : BadStates \union {"OK"}, reliable : BOOLEAN, gpus : SUBSET GPU]
  /\ \A r \in Reports :
       /\ r.state = "OK" => r.reliable /\ r.gpus # {}
       /\ r.state = "GPU_MISSING" => r.reliable /\ r.gpus = {}
       /\ r.state \in {"NVIDIA_SMI_FAILED", "DRIVER_ERROR"} => ~ r.reliable /\ r.gpus = {}

ASSUME MaxIncidentsIsNat == MaxIncidents \in Nat

VARIABLES
  policy,          \* Device.gpu_monitoring_enabled, expected_gpu_min_count, _uuids
  gpuState,        \* Device.gpu_effective_state
  failureStreak,   \* Device.gpu_failure_streak, saturated at 2
  okStreak,        \* Device.gpu_ok_streak, saturated at 2
  hasSample,       \* Device.gpu_last_sample_at IS NOT NULL
  silentAge,       \* age of the last accepted heartbeat
  offline,         \* Device.availability_state = 'OFFLINE'
  incidents,       \* the device's GPU incidents, oldest first
  alertPending,    \* a GPU_DEGRADED delivery of the device is neither finished
                   \* nor superseded
  lastObserved     \* history: what the last heartbeat was judged to be

confirmationVars == <<gpuState, failureStreak, okStreak, hasSample>>
vars == <<policy, confirmationVars, silentAge, offline, incidents, alertPending, lastObserved>>

Ages == 0 .. OfflineAfter
Streaks == 0 .. 2
NoReason == "none"
IncidentRows == [open : BOOLEAN, reason : BadStates \union {NoReason}]
Observations == {"none", "OK", "BAD", "NOT_MONITORED"}

-----------------------------------------------------------------------------
(* The confirmation algorithm *)

(* The effective state of a report under a policy. *)
EffectiveState(r, p) ==
  IF r.state # "OK" THEN r.state
  ELSE IF ~ r.reliable THEN "NVIDIA_SMI_FAILED"
  ELSE IF Cardinality(r.gpus) < p.minCount \/ ~ p.uuids \subseteq r.gpus THEN "GPU_MISSING"
  ELSE "OK"

(* A streak, one sample longer. *)
Streak(n) == IF n < 2 THEN n + 1 ELSE 2

(* Mutant: a sample after a long gap still continues the streak. *)
ConsecutiveWithoutGap(prior) == prior.hasSample

(* The prior sample exists and is not older than the gap. *)
Consecutive(prior) == prior.hasSample /\ prior.age <= ConfirmationGap

(* Mutant: only a confirmed failure can recover, not a device whose           *)
(* monitoring was off in between.                                             *)
RecoveryFromFailureOnly(prior, ok) == prior.state \in BadStates /\ prior.ok < 2 /\ ok = 2

(* The second good sample in a row, while anything but OK is confirmed. The   *)
(* streaks saturate, so "is 2 now" reads "was below 2 and is 2".              *)
RecoveryConfirmed(prior, ok) == prior.state # "OK" /\ prior.ok < 2 /\ ok = 2

(* The second bad sample in a row, while OK is confirmed. *)
DegradationConfirmed(prior, failures) ==
  prior.state = "OK" /\ prior.failures < 2 /\ failures = 2

Confirmation(state, failures, ok, event) ==
  [state |-> state, failures |-> failures, ok |-> ok, event |-> event]

(* The confirmation that follows prior when report r is judged under p. *)
EvaluateGPUObservation(prior, r, p) ==
  LET observed == EffectiveState(r, p)
      ok == IF Consecutive(prior) THEN Streak(prior.ok) ELSE 1
      failures == IF Consecutive(prior) THEN Streak(prior.failures) ELSE 1
  IN  IF ~ p.monitored THEN Confirmation("NOT_MONITORED", 0, 0, "none")
      ELSE IF observed = "OK"
        THEN IF RecoveryConfirmed(prior, ok)
               THEN Confirmation("OK", 0, ok, "GPU_RECOVERED")
               ELSE Confirmation(prior.state, 0, ok, "none")
      ELSE IF DegradationConfirmed(prior, failures)
        THEN Confirmation(observed, failures, 0, "GPU_DEGRADED")
        ELSE Confirmation(prior.state, failures, 0, "none")

-----------------------------------------------------------------------------
(* Incident rows *)

ActiveIncidents(rows) == {i \in DOMAIN rows : rows[i].open}

(* Mutant: an incident that has ended is taken for an open one. *)
OpenedOnce(rows, reason) ==
  IF rows # << >> THEN rows ELSE Append(rows, [open |-> TRUE, reason |-> reason])

(* Mutant: the latest incident is opened again. *)
OpenedByReopening(rows, reason) ==
  IF rows = << >> THEN << [open |-> TRUE, reason |-> reason] >>
  ELSE [rows EXCEPT ![Len(rows)] = [open |-> TRUE, reason |-> reason]]

(* Keep the open incident, or open a new one. *)
Opened(rows, reason) ==
  IF ActiveIncidents(rows) # {} THEN rows
  ELSE Append(rows, [open |-> TRUE, reason |-> reason])

Closed(rows) ==
  [i \in DOMAIN rows |-> IF rows[i].open THEN [open |-> FALSE, reason |-> NoReason] ELSE rows[i]]

WithReason(rows, reason) ==
  [i \in DOMAIN rows |-> IF rows[i].open THEN [rows[i] EXCEPT !.reason = reason] ELSE rows[i]]

(* What a confirmation does to the device's incidents. *)
RowsAfter(rows, c) ==
  CASE c.event = "GPU_DEGRADED"                     -> Opened(rows, c.state)
    [] c.event = "GPU_RECOVERED"                    -> Closed(rows)
    [] c.event = "none" /\ c.state \in BadStates    -> WithReason(rows, c.state)
    [] c.event = "none" /\ c.state \notin BadStates -> rows

(* A new incident queues its alert, a closed one supersedes it. *)
PendingAfter(pending, rows, c) ==
  \/ pending /\ ~ (c.event = "GPU_RECOVERED" /\ ActiveIncidents(rows) # {})
  \/ c.event = "GPU_DEGRADED" /\ ActiveIncidents(rows) = {}

-----------------------------------------------------------------------------

(* Devices as enrolment creates them, each with the policy it was given. *)
Init ==
  /\ policy \in [Device -> Policies]
  /\ gpuState = [d \in Device |-> "OK"]
  /\ failureStreak = [d \in Device |-> 0]
  /\ okStreak = [d \in Device |-> 0]
  /\ hasSample = [d \in Device |-> FALSE]
  /\ silentAge = [d \in Device |-> 0]
  /\ offline = [d \in Device |-> FALSE]
  /\ incidents = [d \in Device |-> << >>]
  /\ alertPending = [d \in Device |-> FALSE]
  /\ lastObserved = [d \in Device |-> "none"]

(* The database clock advances. *)
Tick ==
  /\ silentAge' = [d \in Device |-> IF silentAge[d] < OfflineAfter THEN silentAge[d] + 1 ELSE silentAge[d]]
  /\ UNCHANGED <<policy, confirmationVars, offline, incidents, alertPending, lastObserved>>

Silent(d) == silentAge[d] = OfflineAfter

(* Mutant: the policy change also confirms the state as good. *)
SetPolicyAndClear(d, p) ==
  /\ policy' = [policy EXCEPT ![d] = p]
  /\ gpuState' = [gpuState EXCEPT ![d] = "OK"]
  /\ UNCHANGED <<failureStreak, okStreak, hasSample, silentAge, offline, incidents,
                 alertPending, lastObserved>>

(* The administrator's policy change writes the policy and nothing else. *)
SetGPUPolicy(d, p) ==
  /\ policy' = [policy EXCEPT ![d] = p]
  /\ UNCHANGED <<confirmationVars, silentAge, offline, incidents, alertPending, lastObserved>>

(* Mutant: going OFFLINE forgets the last sample but not the queued alert. *)
ResetConfirmationOnly(d) ==
  /\ failureStreak' = [failureStreak EXCEPT ![d] = 0]
  /\ okStreak' = [okStreak EXCEPT ![d] = 0]
  /\ hasSample' = [hasSample EXCEPT ![d] = FALSE]
  /\ UNCHANGED alertPending

(* Streaks and last sample are forgotten, unsent degradation alerts dropped. *)
ResetForDeviceOffline(d) ==
  /\ failureStreak' = [failureStreak EXCEPT ![d] = 0]
  /\ okStreak' = [okStreak EXCEPT ![d] = 0]
  /\ hasSample' = [hasSample EXCEPT ![d] = FALSE]
  /\ alertPending' = [alertPending EXCEPT ![d] = FALSE]

(* Every sweep that finds the device silent resets it, again and again. *)
SweepFindsSilent(d) ==
  /\ Silent(d)
  /\ offline' = [offline EXCEPT ![d] = TRUE]
  /\ ResetForDeviceOffline(d)
  /\ UNCHANGED <<policy, gpuState, silentAge, incidents, lastObserved>>

(* The confirmation a heartbeat starts from: the columns of the row, already  *)
(* reset when the same transaction found the device overdue.                  *)
PriorConfirmation(d) ==
  [state     |-> gpuState[d],
   failures  |-> IF Silent(d) THEN 0 ELSE failureStreak[d],
   ok        |-> IF Silent(d) THEN 0 ELSE okStreak[d],
   hasSample |-> hasSample[d] /\ ~ Silent(d),
   age       |-> silentAge[d]]

Observation(r, p) ==
  IF ~ p.monitored THEN "NOT_MONITORED"
  ELSE IF EffectiveState(r, p) = "OK" THEN "OK" ELSE "BAD"

(* An accepted heartbeat with report r. *)
AcceptHeartbeat(d, r) ==
  LET c == EvaluateGPUObservation(PriorConfirmation(d), r, policy[d])
      pending == alertPending[d] /\ ~ Silent(d)
  IN  /\ c.event = "GPU_DEGRADED" => Len(incidents[d]) < MaxIncidents
      /\ gpuState' = [gpuState EXCEPT ![d] = c.state]
      /\ failureStreak' = [failureStreak EXCEPT ![d] = c.failures]
      /\ okStreak' = [okStreak EXCEPT ![d] = c.ok]
      /\ hasSample' = [hasSample EXCEPT ![d] = TRUE]
      /\ silentAge' = [silentAge EXCEPT ![d] = 0]
      /\ offline' = [offline EXCEPT ![d] = FALSE]
      /\ incidents' = [incidents EXCEPT ![d] = RowsAfter(@, c)]
      /\ alertPending' = [alertPending EXCEPT ![d] = PendingAfter(pending, incidents[d], c)]
      /\ lastObserved' = [lastObserved EXCEPT ![d] = Observation(r, policy[d])]
      /\ UNCHANGED policy

(* The notification worker sends the alert, or gives it up. *)
AlertFinished(d) ==
  /\ alertPending[d]
  /\ alertPending' = [alertPending EXCEPT ![d] = FALSE]
  /\ UNCHANGED <<policy, confirmationVars, silentAge, offline, incidents, lastObserved>>

Next ==
  \/ Tick
  \/ \E d \in Device :
       \/ SweepFindsSilent(d)
       \/ AlertFinished(d)
       \/ \E p \in Policies : SetGPUPolicy(d, p)
       \/ \E r \in Reports : AcceptHeartbeat(d, r)

Spec == Init /\ [][Next]_vars

-----------------------------------------------------------------------------
(* Properties *)

(* Every variable has its type. *)
TypeOK ==
  /\ policy \in [Device -> Policies]
  /\ gpuState \in [Device -> GPUEffectiveStates]
  /\ failureStreak \in [Device -> Streaks]
  /\ okStreak \in [Device -> Streaks]
  /\ hasSample \in [Device -> BOOLEAN]
  /\ silentAge \in [Device -> Ages]
  /\ offline \in [Device -> BOOLEAN]
  /\ incidents \in [Device -> Seq(IncidentRows)]
  /\ alertPending \in [Device -> BOOLEAN]
  /\ lastObserved \in [Device -> Observations]

(* The confirmed state and the incidents tell the same story: a confirmed bad *)
(* state has exactly one open incident, the latest, whose reason it is; a     *)
(* confirmed OK has none. Policy changes, outages and resets keep it so.      *)
ConfirmedStateMatchesIncident ==
  \A d \in Device :
    /\ gpuState[d] = "OK" => ActiveIncidents(incidents[d]) = {}
    /\ gpuState[d] \in BadStates =>
         /\ ActiveIncidents(incidents[d]) = {Len(incidents[d])}
         /\ incidents[d] # << >>
         /\ incidents[d][Len(incidents[d])].reason = gpuState[d]
    /\ ActiveIncidents(incidents[d]) \subseteq {Len(incidents[d])}

(* A device with a confirmed streak of failures has an open incident, unless  *)
(* its monitoring has been off since the last confirmation.                   *)
ConfirmedFailureIsOpen ==
  \A d \in Device :
    failureStreak[d] = 2 /\ gpuState[d] # "NOT_MONITORED" => ActiveIncidents(incidents[d]) # {}

(* A device with a confirmed streak of good samples has no open incident,     *)
(* even if its monitoring was off while the incident was open.                *)
ConfirmedRecoveryIsClosed ==
  \A d \in Device :
    okStreak[d] = 2 => gpuState[d] = "OK" /\ ActiveIncidents(incidents[d]) = {}

(* A queued degradation alert speaks of an open incident of a device that is  *)
(* not OFFLINE: recovery and outage both drop the alerts they make stale.     *)
QueuedAlertIsCurrent ==
  \A d \in Device :
    alertPending[d] => ActiveIncidents(incidents[d]) # {} /\ ~ offline[d]

(* docs/ALERTING.md sections 43, 45, 46: an incident is opened only by a bad  *)
(* sample that follows a bad one by at most the gap, and closed only by a     *)
(* good one that follows a good one so. Nothing else opens or closes one.     *)
ChangesNeedTwoFreshSamples ==
  [][\A d \in Device :
       LET active == ActiveIncidents(incidents[d])
       IN  ActiveIncidents(incidents'[d]) # active =>
             /\ silentAge[d] <= ConfirmationGap
             /\ lastObserved[d] = lastObserved'[d]
             /\ lastObserved'[d] = IF active = {} THEN "BAD" ELSE "OK"]_vars

(* docs/ALERTING.md section 43, "2 consecutive fresh non-OK samples", with no *)
(* exception: two consecutive bad samples of a monitored GPU have an incident.*)
ConfirmedFailureHasIncident ==
  \A d \in Device :
    policy[d].monitored /\ failureStreak[d] = 2 => ActiveIncidents(incidents[d]) # {}

(* The GPU component implements the same contract as availability does: each  *)
(* degradation is raised once, cleared at most once, and never overlaps.      *)
Contract == INSTANCE OutageContract WITH
  down    <- [d \in Device |-> ActiveIncidents(incidents[d]) # {}],
  raised  <- [d \in Device |-> Len(incidents[d])],
  cleared <- [d \in Device |-> {i \in DOMAIN incidents[d] : ~ incidents[d][i].open}]

ImplementsContract == Contract!Spec

=============================================================================
