---------------------------- MODULE Notifications ----------------------------
(***************************************************************************)
(* The notification queue: server/app/notifications/service.py, with the   *)
(* two transactions that supersede queued alerts (health/service.py and    *)
(* gpu/service.py).                                                        *)
(*                                                                         *)
(* Workers claim due deliveries under row locks, talk to the provider with *)
(* no lock held, and record the result in another transaction. A lease     *)
(* lets another worker take over a delivery whose worker died, or is only  *)
(* slow. Each worker transaction locks the rows it decides on before it    *)
(* reads them, so it is one action. The supersession is not: its SELECT    *)
(* takes no lock on the deliveries, and its UPDATE, at the flush, writes   *)
(* the columns the SELECT made it change. Other transactions commit in     *)
(* between.                                                                *)
(*                                                                         *)
(* Time. A delivery waits for one date at a time: next_attempt_at in       *)
(* RETRY_WAIT, lease_expires_at in IN_PROGRESS. elapsed says whether it    *)
(* has passed, expired whether expires_at has; both may pass at any time.  *)
(*                                                                         *)
(* The deliveries of one incident are superseded by one transaction that   *)
(* treats each alike; here each delivery has an incident of its own.       *)
(***************************************************************************)
EXTENDS Naturals, FiniteSets, Sequences

CONSTANTS
  Delivery,
  OfflineAlert,    \* the deliveries of DEVICE_OFFLINE events
  DegradedAlert,   \* the deliveries of GPU_DEGRADED events
  Worker,          \* worker processes that share the queue
  MaxAttempts,     \* MAX_ATTEMPTS (5)
  ClaimLimit,      \* notification_concurrency: claims of one poll (at most 4)
  MaxFailures      \* bound: worker crashes and aborted transactions

ASSUME AlertsAreDeliveries ==
  /\ OfflineAlert \subseteq Delivery /\ DegradedAlert \subseteq Delivery
  /\ OfflineAlert \intersect DegradedAlert = {}

ASSUME LimitsArePositive ==
  /\ MaxAttempts \in Nat \ {0} /\ ClaimLimit \in Nat \ {0} /\ MaxFailures \in Nat

VARIABLES
  status,         \* NotificationDelivery.status, "ABSENT" before the insert
  attemptCount,   \* NotificationDelivery.attempt_count
  lease,          \* lease_token: the attempt that holds the lease, 0 for NULL
  superseded,     \* superseded_at IS NOT NULL
  elapsed,        \* the date the delivery waits for has passed
  expired,        \* expires_at has passed
  attemptRows,    \* the delivery's NotificationAttempt rows, by outcome
  incidentClosed, \* the incident of the alert is closed
  supersession,   \* the transaction that is superseding the delivery
  phase,          \* where each worker is in process_due
  claims,         \* the worker's claims whose result is not recorded yet
  answer,         \* the provider's answer to the claim in hand: none or one
  sent,           \* history: calls that handed the message to the provider
  accepted,       \* history: the attempts whose call the provider answered ACCEPTED
  failures        \* worker crashes and aborted transactions so far

rowVars == <<status, attemptCount, lease, superseded, elapsed, expired, attemptRows>>
serverVars == <<incidentClosed, supersession>>
workerVars == <<phase, claims, answer>>
providerVars == <<sent, accepted>>
vars == <<rowVars, serverVars, workerVars, providerVars, failures>>

-----------------------------------------------------------------------------

Unfinished == {"PENDING", "RETRY_WAIT", "IN_PROGRESS"}
Finished == {"SUCCEEDED", "FAILED", "CANCELLED"}
Statuses == {"ABSENT"} \union Unfinished \union Finished
Outcomes == {"ACCEPTED", "TRANSIENT_FAILURE", "PERMANENT_FAILURE", "UNCERTAIN"}
NoOutcome == "none"
AttemptNumbers == 1 .. MaxAttempts
Claims == [delivery : Delivery, attempt : AttemptNumbers]
Answers == [claim : Claims, outcome : Outcomes]
NoSupersession == [cause |-> "none", seen |-> "none"]

Existing == {d \in Delivery : status[d] # "ABSENT"}
Alerts == OfflineAlert \union DegradedAlert

Init ==
  /\ status = [d \in Delivery |-> "ABSENT"]
  /\ attemptCount = [d \in Delivery |-> 0]
  /\ lease = [d \in Delivery |-> 0]
  /\ superseded = [d \in Delivery |-> FALSE]
  /\ elapsed = [d \in Delivery |-> TRUE]
  /\ expired = [d \in Delivery |-> FALSE]
  /\ attemptRows = [d \in Delivery |-> << >>]
  /\ incidentClosed = [d \in Delivery |-> FALSE]
  /\ supersession = [d \in Delivery |-> NoSupersession]
  /\ phase = [w \in Worker |-> "idle"]
  /\ claims = [w \in Worker |-> {}]
  /\ answer = [w \in Worker |-> {}]
  /\ sent = [d \in Delivery |-> 0]
  /\ accepted = [d \in Delivery |-> {}]
  /\ failures = 0

-----------------------------------------------------------------------------
(* Time and the alert events *)

(* The event's transaction inserts the delivery, due at once. *)
Enqueue(d) ==
  /\ status[d] = "ABSENT"
  /\ status' = [status EXCEPT ![d] = "PENDING"]
  /\ UNCHANGED <<attemptCount, lease, superseded, elapsed, expired, attemptRows,
                 serverVars, workerVars, providerVars, failures>>

(* The backoff of a retry, or the lease of a claim, runs out. *)
DateElapses(d) ==
  /\ status[d] \in {"RETRY_WAIT", "IN_PROGRESS"}
  /\ ~ elapsed[d]
  /\ elapsed' = [elapsed EXCEPT ![d] = TRUE]
  /\ UNCHANGED <<status, attemptCount, lease, superseded, expired, attemptRows,
                 serverVars, workerVars, providerVars, failures>>

(* The delivery reaches its 24 hours. *)
Expires(d) ==
  /\ status[d] \in Unfinished
  /\ ~ expired[d]
  /\ expired' = [expired EXCEPT ![d] = TRUE]
  /\ UNCHANGED <<status, attemptCount, lease, superseded, elapsed, attemptRows,
                 serverVars, workerVars, providerVars, failures>>

-----------------------------------------------------------------------------
(* Supersession *)

Supersedes(d, cause) ==
  /\ d \in Existing
  /\ supersession[d] = NoSupersession
  /\ supersession' = [supersession EXCEPT ![d] = [cause |-> cause, seen |-> status[d]]]
  /\ UNCHANGED <<rowVars, incidentClosed, workerVars, providerVars, failures>>

(* A recovery selects the unfinished deliveries of the incident it closes.   *)
(* It has already flushed the incident row, and so holds its lock.           *)
RecoveryReads(d) ==
  /\ d \in Alerts
  /\ ~ incidentClosed[d]
  /\ Supersedes(d, "recovery")

(* A device found OFFLINE: its unfinished GPU_DEGRADED deliveries are        *)
(* selected, and no lock of theirs or of their incident's is held.           *)
OfflineReads(d) ==
  /\ d \in DegradedAlert
  /\ Supersedes(d, "offline")

IncidentLocked(d) == supersession[d].cause = "recovery"

(* Mutant: only a delivery that has been tried before is cancelled. *)
SupersededRetryOnly(seen, now) == IF seen = "RETRY_WAIT" THEN "CANCELLED" ELSE now

(* Mutant: the write puts every column back as it was read. *)
SupersededWholeRow(seen, now) ==
  IF seen \in {"PENDING", "RETRY_WAIT"} THEN "CANCELLED" ELSE seen

(* The status after the write: CANCELLED if the delivery was waiting when it *)
(* was read, whatever it has become since; otherwise as it is.               *)
SupersededStatus(seen, now) == IF seen \in {"PENDING", "RETRY_WAIT"} THEN "CANCELLED" ELSE now

(* The write at the flush, and the commit. *)
SupersessionWrites(d) ==
  LET txn == supersession[d]
  IN  /\ txn # NoSupersession
      /\ superseded' = [superseded EXCEPT ![d] = @ \/ txn.seen \in Unfinished]
      /\ status' = [status EXCEPT ![d] = SupersededStatus(txn.seen, @)]
      /\ incidentClosed' = [incidentClosed EXCEPT ![d] = @ \/ txn.cause = "recovery"]
      /\ supersession' = [supersession EXCEPT ![d] = NoSupersession]
      /\ UNCHANGED <<attemptCount, lease, elapsed, expired, attemptRows, workerVars,
                     providerVars, failures>>

(* The heartbeat or the sweep fails before its commit. *)
SupersessionAborts(d) ==
  /\ supersession[d] # NoSupersession
  /\ failures < MaxFailures
  /\ failures' = failures + 1
  /\ supersession' = [supersession EXCEPT ![d] = NoSupersession]
  /\ UNCHANGED <<rowVars, incidentClosed, workerVars, providerVars>>

-----------------------------------------------------------------------------
(* The workers *)

(* Mutant: the budget allows one attempt more. *)
StatusAfterOneTooMany(d, outcome) ==
  CASE superseded[d]                                       -> "CANCELLED"
    [] ~ superseded[d] /\ outcome = "ACCEPTED"             -> "SUCCEEDED"
    [] ~ superseded[d] /\ outcome = "PERMANENT_FAILURE"    -> "FAILED"
    [] ~ superseded[d] /\ outcome \in {"TRANSIENT_FAILURE", "UNCERTAIN"} ->
         IF attemptCount[d] > MaxAttempts \/ expired[d] THEN "FAILED" ELSE "RETRY_WAIT"

(* Mutant: an uncertain outcome counts as success. *)
StatusAfterOptimistic(d, outcome) ==
  CASE superseded[d]                                              -> "CANCELLED"
    [] ~ superseded[d] /\ outcome \in {"ACCEPTED", "UNCERTAIN"}   -> "SUCCEEDED"
    [] ~ superseded[d] /\ outcome = "PERMANENT_FAILURE"           -> "FAILED"
    [] ~ superseded[d] /\ outcome = "TRANSIENT_FAILURE" ->
         IF attemptCount[d] >= MaxAttempts \/ expired[d] THEN "FAILED" ELSE "RETRY_WAIT"

(* What becomes of a delivery whose attempt ended in outcome. *)
StatusAfter(d, outcome) ==
  CASE superseded[d]                                       -> "CANCELLED"
    [] ~ superseded[d] /\ outcome = "ACCEPTED"             -> "SUCCEEDED"
    [] ~ superseded[d] /\ outcome = "PERMANENT_FAILURE"    -> "FAILED"
    [] ~ superseded[d] /\ outcome \in {"TRANSIENT_FAILURE", "UNCERTAIN"} ->
         IF attemptCount[d] >= MaxAttempts \/ expired[d] THEN "FAILED" ELSE "RETRY_WAIT"

(* Finish attempt n, with its outcome, if it has none. *)
FinishAttempt(rows, n, outcome) ==
  [i \in DOMAIN rows |-> IF i = n /\ rows[i] = NoOutcome THEN outcome ELSE rows[i]]

(* Mutant: a delivery is recovered only once it has expired. *)
StuckUntilExpired(d) == status[d] = "IN_PROGRESS" /\ elapsed[d] /\ expired[d]

Stuck(d) == status[d] = "IN_PROGRESS" /\ elapsed[d]

(* recover_stuck: the deliveries whose lease ran out were last held by a      *)
(* worker that crashed, or one that has not come back yet.                    *)
RecoverStuck(w) ==
  /\ phase[w] = "idle"
  /\ phase' = [phase EXCEPT ![w] = "claiming"]
  /\ attemptRows' = [d \in Delivery |->
       IF Stuck(d) THEN FinishAttempt(attemptRows[d], attemptCount[d], "UNCERTAIN")
       ELSE attemptRows[d]]
  /\ lease' = [d \in Delivery |-> IF Stuck(d) THEN 0 ELSE lease[d]]
  /\ status' = [d \in Delivery |-> IF Stuck(d) THEN StatusAfter(d, "UNCERTAIN") ELSE status[d]]
  /\ UNCHANGED <<attemptCount, superseded, elapsed, expired, serverVars, claims, answer,
                 providerVars, failures>>

Waiting(d) == status[d] \in {"PENDING", "RETRY_WAIT"}

(* Mutant: the claim does not lock the incident. *)
DueWithoutIncidentLock(d) == Waiting(d) /\ elapsed[d] /\ ~ expired[d]

(* SKIP LOCKED passes over the deliveries of an incident a recovery holds. *)
Due(d) == Waiting(d) /\ elapsed[d] /\ ~ expired[d] /\ ~ IncidentLocked(d)

(* The claims a poll may take: as many as are due, up to the limit. *)
Batches ==
  LET due == {d \in Delivery : Due(d)}
  IN  {S \in SUBSET due : Cardinality(S) <= ClaimLimit
                          /\ (S # due => Cardinality(S) = ClaimLimit)}

(* Mutant: the claim keeps the number of the last attempt. *)
ClaimWithoutCounting(w) ==
  /\ phase[w] = "claiming"
  /\ \E S \in Batches :
       /\ status' = [d \in Delivery |-> IF d \in S THEN "IN_PROGRESS"
                                        ELSE IF Waiting(d) /\ expired[d] THEN "FAILED"
                                        ELSE status[d]]
       /\ attemptCount' = [d \in Delivery |-> IF d \in S THEN 1 ELSE attemptCount[d]]
       /\ lease' = [d \in Delivery |-> IF d \in S THEN 1 ELSE lease[d]]
       /\ elapsed' = [d \in Delivery |-> elapsed[d] /\ d \notin S]
       /\ attemptRows' = [d \in Delivery |-> IF d \in S THEN << NoOutcome >> ELSE attemptRows[d]]
       /\ claims' = [claims EXCEPT ![w] = {[delivery |-> d, attempt |-> 1] : d \in S}]
       /\ phase' = [phase EXCEPT ![w] = IF S = {} THEN "idle" ELSE "sending"]
  /\ UNCHANGED <<superseded, expired, serverVars, answer, providerVars, failures>>

(* claim_due: expired deliveries fail, then a batch of due ones is claimed:   *)
(* each gets a new attempt, which holds the lease.                            *)
ClaimDue(w) ==
  /\ phase[w] = "claiming"
  /\ \E S \in Batches :
       /\ status' = [d \in Delivery |-> IF d \in S THEN "IN_PROGRESS"
                                        ELSE IF Waiting(d) /\ expired[d] THEN "FAILED"
                                        ELSE status[d]]
       /\ attemptCount' = [d \in Delivery |->
                             IF d \in S THEN attemptCount[d] + 1 ELSE attemptCount[d]]
       /\ lease' = [d \in Delivery |-> IF d \in S THEN attemptCount[d] + 1 ELSE lease[d]]
       /\ elapsed' = [d \in Delivery |-> elapsed[d] /\ d \notin S]
       /\ attemptRows' = [d \in Delivery |->
                            IF d \in S THEN Append(attemptRows[d], NoOutcome) ELSE attemptRows[d]]
       /\ claims' = [claims EXCEPT ![w] =
                       {[delivery |-> d, attempt |-> attemptCount[d] + 1] : d \in S}]
       /\ phase' = [phase EXCEPT ![w] = IF S = {} THEN "idle" ELSE "sending"]
  /\ UNCHANGED <<superseded, expired, serverVars, answer, providerVars, failures>>

(* The provider call. Whatever it answers, ACCEPTED included, the message may *)
(* or may not reach its recipient: no variable says whether it does. A call   *)
(* makes at most one copy of it.                                              *)
Send(w) ==
  /\ phase[w] = "sending"
  /\ answer[w] = {}
  /\ \E c \in claims[w], o \in Outcomes :
       /\ answer' = [answer EXCEPT ![w] = {[claim |-> c, outcome |-> o]}]
       /\ sent' = [sent EXCEPT ![c.delivery] = @ + 1]
       /\ accepted' = [accepted EXCEPT ![c.delivery] =
                         IF o = "ACCEPTED" THEN @ \union {c.attempt} ELSE @]
  /\ UNCHANGED <<rowVars, serverVars, phase, claims, failures>>

(* Mutant: whoever holds the lease, the result is taken. *)
HoldsAnyLease(c) == status[c.delivery] = "IN_PROGRESS"

(* The claim is still the one the delivery is waiting for. *)
HoldsLease(c) == status[c.delivery] = "IN_PROGRESS" /\ lease[c.delivery] = c.attempt

(* The result is recorded, unless the lease has been lost. *)
RecordOutcome(c, o) ==
  LET d == c.delivery
  IN  IF HoldsLease(c)
        THEN /\ attemptRows' = [attemptRows EXCEPT ![d] = [@ EXCEPT ![c.attempt] = o]]
             /\ lease' = [lease EXCEPT ![d] = 0]
             /\ status' = [status EXCEPT ![d] = StatusAfter(d, o)]
             /\ elapsed' = [elapsed EXCEPT ![d] = FALSE]
        ELSE UNCHANGED <<attemptRows, lease, status, elapsed>>

(* record_result; the worker goes on to its next claim, or to its next poll. *)
RecordResult(w) ==
  /\ \E a \in answer[w] :
       LET rest == claims[w] \ {a.claim}
       IN  /\ RecordOutcome(a.claim, a.outcome)
           /\ claims' = [claims EXCEPT ![w] = rest]
           /\ phase' = [phase EXCEPT ![w] = IF rest = {} THEN "idle" ELSE "sending"]
  /\ answer' = [answer EXCEPT ![w] = {}]
  /\ UNCHANGED <<attemptCount, superseded, expired, serverVars, providerVars, failures>>

(* A signal or a database error ends the worker; its successor starts again. *)
WorkerCrash(w) ==
  /\ phase[w] # "idle"
  /\ failures < MaxFailures
  /\ failures' = failures + 1
  /\ phase' = [phase EXCEPT ![w] = "idle"]
  /\ claims' = [claims EXCEPT ![w] = {}]
  /\ answer' = [answer EXCEPT ![w] = {}]
  /\ UNCHANGED <<rowVars, serverVars, providerVars>>

-----------------------------------------------------------------------------

Next ==
  \/ \E d \in Delivery :
       \/ Enqueue(d)
       \/ DateElapses(d)
       \/ Expires(d)
       \/ RecoveryReads(d)
       \/ OfflineReads(d)
       \/ SupersessionWrites(d)
       \/ SupersessionAborts(d)
  \/ \E w \in Worker :
       \/ RecoverStuck(w)
       \/ ClaimDue(w)
       \/ Send(w)
       \/ RecordResult(w)
       \/ WorkerCrash(w)

(* The workers poll and provider calls return (they have a timeout), dates   *)
(* pass, and an open transaction ends.                                       *)
Fairness ==
  /\ \A w \in Worker :
       WF_vars(RecoverStuck(w)) /\ WF_vars(ClaimDue(w)) /\ WF_vars(Send(w))
       /\ WF_vars(RecordResult(w))
  /\ \A d \in Delivery : WF_vars(DateElapses(d)) /\ WF_vars(SupersessionWrites(d))

Spec == Init /\ [][Next]_vars /\ Fairness

-----------------------------------------------------------------------------
(* Properties *)

(* Every variable has its type. *)
TypeOK ==
  /\ status \in [Delivery -> Statuses]
  /\ attemptCount \in [Delivery -> 0 .. MaxAttempts]
  /\ lease \in [Delivery -> 0 .. MaxAttempts]
  /\ superseded \in [Delivery -> BOOLEAN]
  /\ elapsed \in [Delivery -> BOOLEAN]
  /\ expired \in [Delivery -> BOOLEAN]
  /\ attemptRows \in [Delivery -> Seq(Outcomes \union {NoOutcome})]
  /\ incidentClosed \in [Delivery -> BOOLEAN]
  /\ supersession \in [Delivery -> [cause : {"recovery", "offline"}, seen : Statuses]
                                     \union {NoSupersession}]
  /\ phase \in [Worker -> {"idle", "claiming", "sending"}]
  /\ claims \in [Worker -> SUBSET Claims]
  /\ answer \in [Worker -> SUBSET Answers]
  /\ sent \in [Delivery -> Nat]
  /\ accepted \in [Delivery -> SUBSET AttemptNumbers]
  /\ failures \in 0 .. MaxFailures

(* The claims of d whose message has not been handed to the provider yet. *)
Unsent(d) ==
  {c \in UNION {claims[w] : w \in Worker} :
     c.delivery = d /\ \A w \in Worker : \A a \in answer[w] : a.claim # c}

(* docs/ALERTING.md sections 29 and 57, "at-least-once bounded": the calls to *)
(* the provider, and so the copies of a message, counting the calls that      *)
(* workers who lost their lease may still make, never exceed the attempts,    *)
(* nor the attempts MAX_ATTEMPTS. The claim does not look at the budget.      *)
MessagesBounded ==
  \A d \in Delivery :
    /\ sent[d] + Cardinality(Unsent(d)) <= attemptCount[d]
    /\ attemptCount[d] <= MaxAttempts

(* The attempt history matches the delivery: one row for each attempt, all    *)
(* but the last finished, the last one unfinished exactly while a lease is    *)
(* held for it. A cancellation that raced with the claim may leave it so.     *)
HistoryMatchesDelivery ==
  \A d \in Delivery :
    /\ Len(attemptRows[d]) = attemptCount[d]
    /\ \A i \in DOMAIN attemptRows[d] :
         attemptRows[d][i] = NoOutcome => i = attemptCount[d] /\ lease[d] = i
                                          /\ status[d] \in {"IN_PROGRESS", "CANCELLED"}
    /\ status[d] = "IN_PROGRESS" =>
         lease[d] = attemptCount[d] /\ attemptCount[d] > 0
         /\ attemptRows[d][attemptCount[d]] = NoOutcome

(* An attempt at a DEVICE_OFFLINE alert is always finished: the recovery that *)
(* cancels the alert holds the incident's row, which the claim also locks, so *)
(* it cannot cancel a delivery that was claimed after it was read.            *)
CancelledOfflineAlertsAreSettled ==
  \A d \in OfflineAlert : \A i \in DOMAIN attemptRows[d] :
    attemptRows[d][i] = NoOutcome => status[d] = "IN_PROGRESS"

(* A delivery says SUCCEEDED only if the provider accepted the call of its    *)
(* last attempt, and the history says so: not the call of an attempt whose    *)
(* lease was taken over, nor an outcome nobody knows. docs/ALERTING.md        *)
(* section 25: it is provider acceptance, and proves no receipt.              *)
SuccessIsReal ==
  \A d \in Delivery : status[d] = "SUCCEEDED" =>
    attemptCount[d] \in accepted[d] /\ attemptRows[d][attemptCount[d]] = "ACCEPTED"

(* docs/ALERTING.md section 32: an alert still waiting when its incident has  *)
(* recovered is not sent afterwards, unless an attempt had begun before.      *)
NoFirstSendAfterRecovery ==
  [][\A d \in Alerts :
       incidentClosed[d] /\ attemptCount[d] = 0 => attemptCount'[d] = 0]_vars

(* A recorded outcome is history: no late result of a worker that lost its    *)
(* lease, and no recovery of a stuck delivery, rewrites it.                   *)
OutcomesAreFinal ==
  [][\A d \in Delivery : \A i \in DOMAIN attemptRows[d] :
       attemptRows[d][i] # NoOutcome => attemptRows'[d][i] = attemptRows[d][i]]_vars

(* A finished delivery is never sent again: nothing brings it back into the   *)
(* queue, not a late result, nor a supersession that read it before it ended. *)
FinishedIsFinal ==
  [][\A d \in Delivery : status[d] \in Finished => status'[d] \in Finished]_vars

(* Every alert ends: sent, given up or cancelled, although workers crash and  *)
(* leave deliveries in progress behind.                                       *)
EveryDeliveryEnds ==
  \A d \in Delivery : status[d] = "PENDING" ~> status[d] \in Finished

(* docs/ALERTING.md section 33, for an alert in flight when its device        *)
(* recovers: "prevent further retries".                                       *)
NoRetryAfterRecovery ==
  [][\A d \in Alerts : incidentClosed[d] => attemptCount'[d] = attemptCount[d]]_vars

=============================================================================
