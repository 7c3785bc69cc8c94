------------------------ MODULE NotificationsProofs ------------------------
(***************************************************************************)
(* The notification queue, for every set of deliveries and of workers,     *)
(* every attempt budget, batch size and number of failures: types, the     *)
(* attempt history, real successes, final outcomes and ends, settled       *)
(* DEVICE_OFFLINE alerts, no first send after a recovery, and the bound on *)
(* the copies of a message.                                                *)
(***************************************************************************)
EXTENDS Notifications, FiniteSetTheorems, SequenceTheorems, TLAPS

USE LimitsArePositive

-----------------------------------------------------------------------------
(* How a step changes the row of a delivery *)

RowUnchanged(d) ==
  /\ status'[d] = status[d] /\ attemptCount'[d] = attemptCount[d]
  /\ lease'[d] = lease[d] /\ attemptRows'[d] = attemptRows[d]

(* Only the status changes: the insert, the expiry and the cancellation. *)
StatusBecomes(d, new) ==
  /\ status'[d] = new /\ attemptCount'[d] = attemptCount[d]
  /\ lease'[d] = lease[d] /\ attemptRows'[d] = attemptRows[d]

RowInserted(d) == status[d] = "ABSENT" /\ StatusBecomes(d, "PENDING")

RowExpired(d) == Waiting(d) /\ StatusBecomes(d, "FAILED")

RowCancelled(d) ==
  /\ supersession[d] # NoSupersession /\ supersession[d].seen \in {"PENDING", "RETRY_WAIT"}
  /\ StatusBecomes(d, "CANCELLED")

RowClaimed(d) ==
  /\ Waiting(d) /\ ~ IncidentLocked(d)
  /\ status'[d] = "IN_PROGRESS"
  /\ attemptCount'[d] = attemptCount[d] + 1
  /\ lease'[d] = attemptCount[d] + 1
  /\ attemptRows'[d] = Append(attemptRows[d], NoOutcome)

RowFinished(d, outcome) ==
  /\ status[d] = "IN_PROGRESS"
  /\ status'[d] = StatusAfter(d, outcome)
  /\ attemptCount'[d] = attemptCount[d]
  /\ lease'[d] = 0
  /\ attemptRows'[d] = [attemptRows[d] EXCEPT ![attemptCount[d]] = outcome]
  /\ outcome = "ACCEPTED" => attemptCount[d] \in accepted[d]

RowStep(d) ==
  \/ RowUnchanged(d) \/ RowInserted(d) \/ RowExpired(d) \/ RowCancelled(d) \/ RowClaimed(d)
  \/ \E o \in Outcomes : RowFinished(d, o)

(* The columns stay functions of the deliveries. *)
RowsStay ==
  /\ status' = [d \in Delivery |-> status'[d]]
  /\ attemptCount' = [d \in Delivery |-> attemptCount'[d]]
  /\ lease' = [d \in Delivery |-> lease'[d]]
  /\ attemptRows' = [d \in Delivery |-> attemptRows'[d]]

(* What the row of a delivery always satisfies. The budget is here because    *)
(* the claim counts without looking: a delivery that waits has room for one   *)
(* more attempt.                                                              *)
RowInv(d) ==
  /\ Len(attemptRows[d]) = attemptCount[d]
  /\ \A i \in DOMAIN attemptRows[d] :
       attemptRows[d][i] = NoOutcome => i = attemptCount[d] /\ lease[d] = i
                                        /\ status[d] \in {"IN_PROGRESS", "CANCELLED"}
  /\ status[d] = "IN_PROGRESS" =>
       lease[d] = attemptCount[d] /\ attemptCount[d] > 0
       /\ attemptRows[d][attemptCount[d]] = NoOutcome
  /\ Waiting(d) => attemptCount[d] < MaxAttempts
  /\ status[d] = "ABSENT" => attemptCount[d] = 0
  /\ status[d] = "SUCCEEDED" =>
       attemptCount[d] \in accepted[d] /\ attemptRows[d][attemptCount[d]] = "ACCEPTED"

(* An answer ACCEPTED in hand is one the provider gave, to that very attempt. *)
AnswerInv ==
  \A w \in Worker : \A a \in answer[w] :
    a.outcome = "ACCEPTED" => a.claim.attempt \in accepted[a.claim.delivery]

RowsInv == AnswerInv /\ \A d \in Delivery : RowInv(d)

(* The end of an attempt finishes the delivery or leaves it waiting with room *)
(* for another attempt; only an accepted attempt makes it a success.          *)
LEMMA AttemptEnds ==
  ASSUME TypeOK, NEW d \in Delivery, NEW o \in Outcomes
  PROVE  /\ StatusAfter(d, o) \in Finished \union {"RETRY_WAIT"}
         /\ StatusAfter(d, o) = "RETRY_WAIT" => attemptCount[d] < MaxAttempts
         /\ StatusAfter(d, o) = "SUCCEEDED" => o = "ACCEPTED"
<1>1. superseded[d] \in BOOLEAN /\ attemptCount[d] \in 0 .. MaxAttempts
  BY DEF TypeOK
<1>2. QED
  BY <1>1 DEF StatusAfter, Outcomes, Finished

LEMMA RecoverStuckRows ==
  ASSUME TypeOK, RowsInv, NEW w \in Worker, RecoverStuck(w), NEW d \in Delivery
  PROVE  RowStep(d)
<1>1. CASE Stuck(d)
  <2>1. /\ status[d] = "IN_PROGRESS" /\ attemptRows[d][attemptCount[d]] = NoOutcome
        /\ attemptCount[d] > 0 /\ Len(attemptRows[d]) = attemptCount[d]
    BY <1>1 DEF Stuck, RowsInv, RowInv
  <2>2. attemptRows[d] \in Seq(Outcomes \union {NoOutcome})
    BY DEF TypeOK
  <2>3. FinishAttempt(attemptRows[d], attemptCount[d], "UNCERTAIN")
          = [attemptRows[d] EXCEPT ![attemptCount[d]] = "UNCERTAIN"]
    BY <2>1, <2>2 DEF FinishAttempt
  <2>4. /\ status'[d] = StatusAfter(d, "UNCERTAIN") /\ lease'[d] = 0
        /\ attemptCount'[d] = attemptCount[d]
        /\ attemptRows'[d] = FinishAttempt(attemptRows[d], attemptCount[d], "UNCERTAIN")
    BY <1>1 DEF RecoverStuck
  <2>5. RowFinished(d, "UNCERTAIN")
    BY <2>1, <2>3, <2>4 DEF RowFinished
  <2>6. QED
    BY <2>5 DEF RowStep, Outcomes
<1>2. CASE ~ Stuck(d)
  <2>1. RowUnchanged(d)
    BY <1>2 DEF RecoverStuck, RowUnchanged
  <2>2. QED
    BY <2>1 DEF RowStep
<1>3. QED
  BY <1>1, <1>2

LEMMA ClaimDueRows ==
  ASSUME NEW w \in Worker, ClaimDue(w), NEW d \in Delivery
  PROVE  RowStep(d)
<1>1. PICK S \in Batches :
        /\ status' = [e \in Delivery |-> IF e \in S THEN "IN_PROGRESS"
                                         ELSE IF Waiting(e) /\ expired[e] THEN "FAILED"
                                         ELSE status[e]]
        /\ attemptCount' = [e \in Delivery |->
                              IF e \in S THEN attemptCount[e] + 1 ELSE attemptCount[e]]
        /\ lease' = [e \in Delivery |-> IF e \in S THEN attemptCount[e] + 1 ELSE lease[e]]
        /\ attemptRows' = [e \in Delivery |->
                             IF e \in S THEN Append(attemptRows[e], NoOutcome) ELSE attemptRows[e]]
  BY DEF ClaimDue
<1>2. d \in S => Due(d)
  BY DEF Batches
<1>3. CASE d \in S
  BY <1>1, <1>2, <1>3 DEF RowStep, RowClaimed, Due
<1>4. CASE d \notin S /\ Waiting(d) /\ expired[d]
  BY <1>1, <1>4 DEF RowStep, RowExpired, StatusBecomes
<1>5. CASE d \notin S /\ ~ (Waiting(d) /\ expired[d])
  BY <1>1, <1>5 DEF RowStep, RowUnchanged
<1>6. QED
  BY <1>3, <1>4, <1>5

LEMMA RecordResultRows ==
  ASSUME TypeOK, RowsInv, NEW w \in Worker, RecordResult(w), NEW d \in Delivery
  PROVE  RowStep(d)
<1>1. PICK a \in answer[w] : RecordOutcome(a.claim, a.outcome)
  BY DEF RecordResult
<1>2. a.claim.delivery \in Delivery /\ a.outcome \in Outcomes
  BY DEF TypeOK, Answers, Claims
<1>3. attemptCount' = attemptCount
  BY DEF RecordResult
<1>4. CASE HoldsLease(a.claim) /\ d = a.claim.delivery
  <2>1. status[d] = "IN_PROGRESS" /\ lease[d] = a.claim.attempt
    BY <1>4 DEF HoldsLease
  <2>2. a.claim.attempt = attemptCount[d]
    BY <2>1 DEF RowsInv, RowInv
  <2>3. /\ attemptRows'[d] = [attemptRows[d] EXCEPT ![a.claim.attempt] = a.outcome]
        /\ lease'[d] = 0 /\ status'[d] = StatusAfter(d, a.outcome)
    BY <1>1, <1>4 DEF RecordOutcome, TypeOK
  <2>4. a.outcome = "ACCEPTED" => attemptCount[d] \in accepted[d]
    BY <1>4, <2>2 DEF RowsInv, AnswerInv
  <2>5. RowFinished(d, a.outcome)
    BY <1>3, <2>1, <2>2, <2>3, <2>4 DEF RowFinished
  <2>6. QED
    BY <1>2, <2>5 DEF RowStep
<1>5. CASE ~ (HoldsLease(a.claim) /\ d = a.claim.delivery)
  <2>1. RowUnchanged(d)
    BY <1>1, <1>2, <1>3, <1>5 DEF RecordOutcome, RowUnchanged, TypeOK
  <2>2. QED
    BY <2>1 DEF RowStep
<1>6. QED
  BY <1>4, <1>5

LEMMA SupersessionRows ==
  ASSUME TypeOK, NEW e \in Delivery, SupersessionWrites(e), NEW d \in Delivery
  PROVE  RowStep(d)
<1>1. CASE d = e /\ supersession[d].seen \in {"PENDING", "RETRY_WAIT"}
  BY <1>1 DEF SupersessionWrites, SupersededStatus, RowStep, RowCancelled, StatusBecomes, TypeOK
<1>2. CASE ~ (d = e /\ supersession[d].seen \in {"PENDING", "RETRY_WAIT"})
  BY <1>2 DEF SupersessionWrites, SupersededStatus, RowStep, RowUnchanged, TypeOK
<1>3. QED
  BY <1>1, <1>2

(* Every step changes each row in one of these ways. *)
LEMMA RowSteps ==
  ASSUME TypeOK, RowsInv, [Next]_vars, NEW d \in Delivery
  PROVE  RowStep(d)
<1>1. CASE UNCHANGED <<status, attemptCount, lease, attemptRows>>
  BY <1>1 DEF RowStep, RowUnchanged
<1>2. ASSUME NEW e \in Delivery, Enqueue(e)
      PROVE  RowStep(d)
  BY <1>2 DEF Enqueue, RowStep, RowInserted, RowUnchanged, StatusBecomes, TypeOK
<1>3. QED
  BY <1>1, <1>2, RecoverStuckRows, ClaimDueRows, RecordResultRows, SupersessionRows
  DEF Next, DateElapses, Expires, RecoveryReads, OfflineReads, Supersedes, SupersessionAborts,
      Send, WorkerCrash, rowVars, vars

LEMMA RowsStayFunctions == TypeOK /\ [Next]_vars => RowsStay
<1> SUFFICES ASSUME TypeOK, [Next]_vars
             PROVE  RowsStay
  OBVIOUS
<1>1. CASE UNCHANGED <<status, attemptCount, lease, attemptRows>>
  BY <1>1 DEF RowsStay, TypeOK
<1>2. ASSUME NEW d \in Delivery, Enqueue(d) \/ SupersessionWrites(d)
      PROVE  RowsStay
  BY <1>2 DEF Enqueue, SupersessionWrites, RowsStay, TypeOK
<1>3. ASSUME NEW w \in Worker, RecoverStuck(w)
      PROVE  RowsStay
  BY <1>3 DEF RecoverStuck, RowsStay, TypeOK
<1>4. ASSUME NEW w \in Worker, ClaimDue(w)
      PROVE  RowsStay
  BY <1>4 DEF ClaimDue, RowsStay, TypeOK
<1>5. ASSUME NEW w \in Worker, RecordResult(w)
      PROVE  RowsStay
  BY <1>5 DEF RecordResult, RecordOutcome, RowsStay, TypeOK
<1>6. QED
  BY <1>1, <1>2, <1>3, <1>4, <1>5
  DEF Next, DateElapses, Expires, RecoveryReads, OfflineReads, Supersedes, SupersessionAborts,
      Send, WorkerCrash, rowVars, vars

-----------------------------------------------------------------------------
(* The rows keep their invariant *)

(* What the provider has accepted is not taken back. *)
LEMMA AcceptancesStay ==
  ASSUME TypeOK, [Next]_vars, NEW d \in Delivery
  PROVE  accepted[d] \subseteq accepted'[d]
<1>1. CASE UNCHANGED accepted
  BY <1>1
<1>2. ASSUME NEW w \in Worker, Send(w)
      PROVE  accepted[d] \subseteq accepted'[d]
  <2>1. PICK c \in claims[w], o \in Outcomes :
          accepted' = [accepted EXCEPT ![c.delivery] =
                         IF o = "ACCEPTED" THEN @ \union {c.attempt} ELSE @]
    BY <1>2 DEF Send
  <2>2. QED
    BY <2>1 DEF TypeOK
<1>3. QED
  BY <1>1, <1>2 DEF Next, Enqueue, DateElapses, Expires, RecoveryReads, OfflineReads, Supersedes,
     SupersessionWrites, SupersessionAborts, RecoverStuck, ClaimDue, RecordResult, WorkerCrash,
     providerVars, vars

LEMMA RowTypes ==
  ASSUME TypeOK, NEW d \in Delivery, RowInv(d), RowStep(d)
  PROVE  /\ status'[d] \in Statuses
         /\ attemptCount'[d] \in 0 .. MaxAttempts
         /\ lease'[d] \in 0 .. MaxAttempts
         /\ attemptRows'[d] \in Seq(Outcomes \union {NoOutcome})
<1>1. /\ status[d] \in Statuses
      /\ attemptCount[d] \in 0 .. MaxAttempts
      /\ lease[d] \in 0 .. MaxAttempts
      /\ attemptRows[d] \in Seq(Outcomes \union {NoOutcome})
  BY DEF TypeOK
<1>2. CASE RowUnchanged(d)
  BY <1>1, <1>2 DEF RowUnchanged
<1>3. CASE RowInserted(d) \/ RowExpired(d) \/ RowCancelled(d)
  BY <1>1, <1>3 DEF RowInserted, RowExpired, RowCancelled, StatusBecomes, Statuses, Unfinished,
     Finished
<1>4. CASE RowClaimed(d)
  BY <1>1, <1>4 DEF RowClaimed, RowInv, Statuses, Unfinished
<1>5. ASSUME NEW o \in Outcomes, RowFinished(d, o)
      PROVE  /\ status'[d] \in Statuses
             /\ attemptCount'[d] \in 0 .. MaxAttempts
             /\ lease'[d] \in 0 .. MaxAttempts
             /\ attemptRows'[d] \in Seq(Outcomes \union {NoOutcome})
  <2>1. attemptRows'[d] = [attemptRows[d] EXCEPT ![attemptCount[d]] = o]
        /\ attemptCount'[d] = attemptCount[d] /\ lease'[d] = 0 /\ status'[d] = StatusAfter(d, o)
    BY <1>5 DEF RowFinished
  <2>2. attemptRows'[d] \in Seq(Outcomes \union {NoOutcome})
    <3>1. attemptCount[d] \in 1 .. Len(attemptRows[d])
      BY <1>1, <1>5 DEF RowFinished, RowInv
    <3>2. QED
      BY <1>1, <2>1, <3>1, ExceptSeq
  <2>3. status'[d] \in Statuses
    BY <2>1, AttemptEnds DEF Statuses, Unfinished
  <2>4. QED
    BY <1>1, <2>1, <2>2, <2>3
<1>6. QED
  BY <1>2, <1>3, <1>4, <1>5 DEF RowStep

(* No change of a row breaks what rows satisfy. *)
LEMMA RowStepKeepsRowInv ==
  ASSUME TypeOK, NEW d \in Delivery, RowInv(d), RowStep(d),
         accepted[d] \subseteq accepted'[d]
  PROVE  RowInv(d)'
<1>1. /\ status[d] \in Statuses
      /\ attemptCount[d] \in 0 .. MaxAttempts
      /\ attemptRows[d] \in Seq(Outcomes \union {NoOutcome})
  BY DEF TypeOK
<1>2. DOMAIN attemptRows[d] = 1 .. attemptCount[d]
  BY <1>1 DEF RowInv
<1>3. CASE RowUnchanged(d)
  BY <1>1, <1>3 DEF RowUnchanged, RowInv, Waiting
<1>4. CASE RowInserted(d)
  BY <1>1, <1>2, <1>4 DEF RowInserted, StatusBecomes, RowInv, Waiting
<1>5. CASE RowExpired(d)
  BY <1>1, <1>5 DEF RowExpired, StatusBecomes, RowInv, Waiting
<1>6. CASE RowCancelled(d)
  BY <1>1, <1>6 DEF RowCancelled, StatusBecomes, RowInv, Waiting
<1>7. CASE RowClaimed(d)
  <2> DEFINE n == attemptCount[d] + 1
  <2>1. \A i \in DOMAIN attemptRows[d] : attemptRows[d][i] # NoOutcome
    BY <1>7 DEF RowClaimed, RowInv, Waiting
  <2>2. /\ attemptRows'[d] = Append(attemptRows[d], NoOutcome)
        /\ Len(attemptRows'[d]) = n /\ DOMAIN attemptRows'[d] = 1 .. n
        /\ attemptRows'[d][n] = NoOutcome
        /\ \A i \in 1 .. attemptCount[d] : attemptRows'[d][i] = attemptRows[d][i]
    BY <1>1, <1>7 DEF RowClaimed, RowInv
  <2>3. attemptCount'[d] = n /\ lease'[d] = n /\ status'[d] = "IN_PROGRESS" /\ n > 0
    BY <1>1, <1>7 DEF RowClaimed
  <2>4. \A i \in 1 .. n : attemptRows'[d][i] = NoOutcome => i = n
    <3>1. \A i \in 1 .. n : i # n => i \in 1 .. attemptCount[d]
      BY <1>1
    <3>2. QED
      BY <1>2, <2>1, <2>2, <3>1
  <2>5. QED
    BY <2>2, <2>3, <2>4 DEF RowInv, Waiting
<1>8. ASSUME NEW o \in Outcomes, RowFinished(d, o)
      PROVE  RowInv(d)'
  <2> DEFINE n == attemptCount[d]
  <2>1. n > 0 /\ n \in 1 .. n
    BY <1>1, <1>8 DEF RowFinished, RowInv
  <2>2. /\ attemptRows'[d] = [attemptRows[d] EXCEPT ![n] = o]
        /\ Len(attemptRows'[d]) = n /\ DOMAIN attemptRows'[d] = 1 .. n
        /\ attemptRows'[d][n] = o
        /\ \A i \in 1 .. n : i # n => attemptRows'[d][i] = attemptRows[d][i]
    BY <1>1, <1>2, <1>8, <2>1 DEF RowFinished, RowInv
  <2>3. \A i \in 1 .. n : attemptRows'[d][i] # NoOutcome
    BY <1>2, <2>1, <2>2 DEF RowInv, Outcomes, NoOutcome
  <2>4. /\ attemptCount'[d] = n /\ status'[d] = StatusAfter(d, o)
        /\ o = "ACCEPTED" => n \in accepted[d]
    BY <1>8 DEF RowFinished
  <2>5. /\ status'[d] \in Finished \union {"RETRY_WAIT"}
        /\ status'[d] = "RETRY_WAIT" => n < MaxAttempts
        /\ status'[d] = "SUCCEEDED" => o = "ACCEPTED"
    BY <2>4, AttemptEnds
  <2>6. QED
    BY <1>1, <2>2, <2>3, <2>4, <2>5 DEF RowInv, Waiting, Finished
<1>9. QED
  BY <1>3, <1>4, <1>5, <1>6, <1>7, <1>8 DEF RowStep

LEMMA AnswerInvStep == TypeOK /\ AnswerInv /\ [Next]_vars => AnswerInv'
<1> SUFFICES ASSUME TypeOK, AnswerInv, [Next]_vars
             PROVE  AnswerInv'
  OBVIOUS
<1>1. \A d \in Delivery : accepted[d] \subseteq accepted'[d]
  BY AcceptancesStay
<1>2. \A w \in Worker : \A a \in answer[w] : a.claim.delivery \in Delivery
  BY DEF TypeOK, Answers, Claims
<1>3. CASE UNCHANGED answer
  BY <1>1, <1>2, <1>3 DEF AnswerInv
<1>4. ASSUME NEW w \in Worker, RecordResult(w) \/ WorkerCrash(w)
      PROVE  AnswerInv'
  BY <1>1, <1>2, <1>4 DEF RecordResult, WorkerCrash, AnswerInv, TypeOK
<1>5. ASSUME NEW w \in Worker, Send(w)
      PROVE  AnswerInv'
  <2>1. PICK c \in claims[w], o \in Outcomes :
          /\ answer' = [answer EXCEPT ![w] = {[claim |-> c, outcome |-> o]}]
          /\ accepted' = [accepted EXCEPT ![c.delivery] =
                            IF o = "ACCEPTED" THEN @ \union {c.attempt} ELSE @]
    BY <1>5 DEF Send
  <2>2. c.delivery \in Delivery
    BY DEF TypeOK, Claims
  <2>3. o = "ACCEPTED" => c.attempt \in accepted'[c.delivery]
    BY <2>1, <2>2 DEF TypeOK
  <2>4. answer'[w] = {[claim |-> c, outcome |-> o]} /\ \A v \in Worker \ {w} : answer'[v] = answer[v]
    BY <2>1 DEF TypeOK
  <2>5. \A a \in answer'[w] : a.outcome = "ACCEPTED" => a.claim.attempt \in accepted'[a.claim.delivery]
    BY <2>3, <2>4
  <2>6. \A v \in Worker \ {w} : \A a \in answer'[v] :
          a.outcome = "ACCEPTED" => a.claim.attempt \in accepted'[a.claim.delivery]
    BY <1>1, <1>2, <2>4 DEF AnswerInv
  <2>7. QED
    BY <2>5, <2>6 DEF AnswerInv
<1>6. QED
  BY <1>3, <1>4, <1>5 DEF Next, Enqueue, DateElapses, Expires, RecoveryReads, OfflineReads,
     Supersedes, SupersessionWrites, SupersessionAborts, RecoverStuck, ClaimDue, workerVars, vars

LEMMA RowsInvStep == TypeOK /\ RowsInv /\ [Next]_vars => RowsInv'
BY AnswerInvStep, AcceptancesStay, RowSteps, RowStepKeepsRowInv DEF RowsInv

LEMMA InitRows == Init => TypeOK /\ RowsInv
<1> SUFFICES ASSUME Init
             PROVE  TypeOK /\ RowsInv
  OBVIOUS
<1>1. TypeOK
  BY DEF Init, TypeOK, Statuses
<1>2. \A d \in Delivery : attemptRows[d] = << >> /\ attemptCount[d] = 0 /\ status[d] = "ABSENT"
  BY DEF Init
<1>3. \A d \in Delivery : RowInv(d)
  BY <1>2 DEF RowInv, Waiting
<1>4. AnswerInv
  BY DEF Init, AnswerInv
<1>5. QED
  BY <1>1, <1>3, <1>4 DEF RowsInv

-----------------------------------------------------------------------------
(* Type correctness *)

LEMMA TypeOKStep == TypeOK /\ RowsInv /\ [Next]_vars => TypeOK'
<1> SUFFICES ASSUME TypeOK, RowsInv, [Next]_vars
             PROVE  TypeOK'
  OBVIOUS
<1> DEFINE RowsOK ==
             /\ status \in [Delivery -> Statuses]
             /\ attemptCount \in [Delivery -> 0 .. MaxAttempts]
             /\ lease \in [Delivery -> 0 .. MaxAttempts]
             /\ attemptRows \in [Delivery -> Seq(Outcomes \union {NoOutcome})]
           FlagsOK ==
             /\ superseded \in [Delivery -> BOOLEAN]
             /\ elapsed \in [Delivery -> BOOLEAN]
             /\ expired \in [Delivery -> BOOLEAN]
             /\ incidentClosed \in [Delivery -> BOOLEAN]
             /\ supersession \in [Delivery -> [cause : {"recovery", "offline"}, seen : Statuses]
                                                \union {NoSupersession}]
             /\ failures \in 0 .. MaxFailures
           WorkersOK ==
             /\ phase \in [Worker -> {"idle", "claiming", "sending"}]
             /\ claims \in [Worker -> SUBSET Claims]
             /\ answer \in [Worker -> SUBSET Answers]
             /\ sent \in [Delivery -> Nat]
             /\ accepted \in [Delivery -> SUBSET AttemptNumbers]
<1>1. RowsOK'
  <2>1. \A d \in Delivery :
          /\ status'[d] \in Statuses
          /\ attemptCount'[d] \in 0 .. MaxAttempts
          /\ lease'[d] \in 0 .. MaxAttempts
          /\ attemptRows'[d] \in Seq(Outcomes \union {NoOutcome})
    BY RowSteps, RowTypes DEF RowsInv
  <2>2. RowsStay
    BY RowsStayFunctions
  <2>3. QED
    BY <2>1, <2>2 DEF RowsStay
<1>2. FlagsOK'
  <2>1. CASE UNCHANGED <<superseded, elapsed, expired, incidentClosed, supersession, failures>>
    BY <2>1 DEF TypeOK
  <2>2. ASSUME NEW d \in Delivery, DateElapses(d) \/ Expires(d)
        PROVE  FlagsOK'
    BY <2>2 DEF DateElapses, Expires, serverVars, TypeOK
  <2>3. ASSUME NEW d \in Delivery, RecoveryReads(d) \/ OfflineReads(d)
        PROVE  FlagsOK'
    <3>1. PICK cause \in {"recovery", "offline"} :
            supersession' = [supersession EXCEPT ![d] = [cause |-> cause, seen |-> status[d]]]
      BY <2>3 DEF RecoveryReads, OfflineReads, Supersedes
    <3>2. [cause |-> cause, seen |-> status[d]] \in [cause : {"recovery", "offline"}, seen : Statuses]
      BY DEF TypeOK
    <3>3. QED
      BY <2>3, <3>1, <3>2 DEF RecoveryReads, OfflineReads, Supersedes, rowVars, TypeOK
  <2>4. ASSUME NEW d \in Delivery, SupersessionWrites(d)
        PROVE  FlagsOK'
    BY <2>4 DEF SupersessionWrites, TypeOK
  <2>5. ASSUME NEW d \in Delivery, SupersessionAborts(d)
        PROVE  FlagsOK'
    BY <2>5 DEF SupersessionAborts, rowVars, TypeOK
  <2>6. ASSUME NEW w \in Worker, ClaimDue(w)
        PROVE  FlagsOK'
    BY <2>6 DEF ClaimDue, serverVars, TypeOK
  <2>7. ASSUME NEW w \in Worker, RecordResult(w)
        PROVE  FlagsOK'
    BY <2>7 DEF RecordResult, RecordOutcome, serverVars, TypeOK
  <2>8. ASSUME NEW w \in Worker, WorkerCrash(w)
        PROVE  FlagsOK'
    BY <2>8 DEF WorkerCrash, rowVars, serverVars, TypeOK
  <2>9. QED
    BY <2>1, <2>2, <2>3, <2>4, <2>5, <2>6, <2>7, <2>8
    DEF Next, Enqueue, RecoverStuck, Send, rowVars, serverVars, vars
<1>3. WorkersOK'
  <2>1. CASE UNCHANGED <<phase, claims, answer, sent, accepted>>
    BY <2>1 DEF TypeOK
  <2>2. ASSUME NEW w \in Worker, RecoverStuck(w)
        PROVE  WorkersOK'
    BY <2>2 DEF RecoverStuck, TypeOK, providerVars
  <2>3. ASSUME NEW w \in Worker, ClaimDue(w)
        PROVE  WorkersOK'
    <3>1. PICK S \in Batches :
            /\ claims' = [claims EXCEPT ![w] =
                             {[delivery |-> d, attempt |-> attemptCount[d] + 1] : d \in S}]
            /\ phase' = [phase EXCEPT ![w] = IF S = {} THEN "idle" ELSE "sending"]
      BY <2>3 DEF ClaimDue
    <3>2. \A d \in S : d \in Delivery /\ attemptCount[d] + 1 \in AttemptNumbers
      BY DEF Batches, Due, RowsInv, RowInv, TypeOK, AttemptNumbers
    <3>3. {[delivery |-> d, attempt |-> attemptCount[d] + 1] : d \in S} \subseteq Claims
      BY <3>2 DEF Claims
    <3>4. QED
      BY <2>3, <3>1, <3>3 DEF ClaimDue, TypeOK, providerVars
  <2>4. ASSUME NEW w \in Worker, Send(w)
        PROVE  WorkersOK'
    <3>1. PICK c \in claims[w], o \in Outcomes :
            /\ answer' = [answer EXCEPT ![w] = {[claim |-> c, outcome |-> o]}]
            /\ sent' = [sent EXCEPT ![c.delivery] = @ + 1]
            /\ accepted' = [accepted EXCEPT ![c.delivery] =
                              IF o = "ACCEPTED" THEN @ \union {c.attempt} ELSE @]
      BY <2>4 DEF Send
    <3>2. {[claim |-> c, outcome |-> o]} \in SUBSET Answers
      BY DEF TypeOK, Answers
    <3>3. answer' \in [Worker -> SUBSET Answers]
      BY <3>1, <3>2 DEF TypeOK
    <3>4. sent' \in [Delivery -> Nat]
      <4>1. \A d \in Delivery : sent'[d] \in Nat
        BY <3>1 DEF TypeOK
      <4>2. sent' = [d \in Delivery |-> sent'[d]]
        BY <3>1 DEF TypeOK
      <4>3. QED
        BY <4>1, <4>2
    <3>5. c.attempt \in AttemptNumbers
      BY DEF TypeOK, Claims
    <3>6. accepted' \in [Delivery -> SUBSET AttemptNumbers]
      <4>1. \A d \in Delivery : accepted'[d] \in SUBSET AttemptNumbers
        BY <3>1, <3>5 DEF TypeOK
      <4>2. accepted' = [d \in Delivery |-> accepted'[d]]
        BY <3>1 DEF TypeOK
      <4>3. QED
        BY <4>1, <4>2
    <3>7. QED
      BY <2>4, <3>3, <3>4, <3>6 DEF Send, TypeOK
  <2>5. ASSUME NEW w \in Worker, RecordResult(w) \/ WorkerCrash(w)
        PROVE  WorkersOK'
    <3>1. CASE RecordResult(w)
      BY <3>1 DEF RecordResult, TypeOK, providerVars
    <3>2. CASE WorkerCrash(w)
      BY <3>2 DEF WorkerCrash, TypeOK, providerVars
    <3>3. QED
      BY <2>5, <3>1, <3>2
  <2>6. QED
    BY <2>1, <2>2, <2>3, <2>4, <2>5
    DEF Next, Enqueue, DateElapses, Expires, RecoveryReads, OfflineReads, Supersedes,
        SupersessionWrites, SupersessionAborts, workerVars, providerVars, vars
<1>4. QED
  BY <1>1, <1>2, <1>3 DEF TypeOK

(* The state keeps its types, among them the attempt budget: no path leads    *)
(* back to the queue with the budget spent.                                   *)
THEOREM TypeCorrect == Spec => []TypeOK
BY InitRows, TypeOKStep, RowsInvStep, PTL DEF Spec

(* Attempt history and delivery agree, and a success is one the provider gave *)
(* its last attempt, with any number of slow and crashed workers.             *)
THEOREM HistoryCorrect == Spec => [](HistoryMatchesDelivery /\ SuccessIsReal)
<1>1. RowsInv => HistoryMatchesDelivery /\ SuccessIsReal
  BY DEF RowsInv, RowInv, HistoryMatchesDelivery, SuccessIsReal
<1>2. QED
  BY <1>1, InitRows, TypeOKStep, RowsInvStep, PTL DEF Spec

(* A delivery says SUCCEEDED only if the provider accepted the call of its    *)
(* last attempt, whatever slow workers report.                                *)
THEOREM SuccessesAreReal == Spec => []SuccessIsReal
BY HistoryCorrect, PTL

-----------------------------------------------------------------------------
(* What is final *)

(* A recorded outcome is never rewritten: an attempt is only finished while   *)
(* it is the unfinished last one.                                             *)
THEOREM OutcomesStay == Spec => OutcomesAreFinal
<1> DEFINE Kept == \A d \in Delivery : \A i \in DOMAIN attemptRows[d] :
             attemptRows[d][i] # NoOutcome => attemptRows'[d][i] = attemptRows[d][i]
<1>1. TypeOK /\ RowsInv /\ [Next]_vars => [Kept]_vars
  <2> SUFFICES ASSUME TypeOK, RowsInv, [Next]_vars, NEW d \in Delivery,
                      NEW i \in DOMAIN attemptRows[d], attemptRows[d][i] # NoOutcome
               PROVE  attemptRows'[d][i] = attemptRows[d][i]
    OBVIOUS
  <2>1. attemptRows[d] \in Seq(Outcomes \union {NoOutcome})
    BY DEF TypeOK
  <2>2. CASE RowUnchanged(d) \/ RowInserted(d) \/ RowExpired(d) \/ RowCancelled(d)
    BY <2>2 DEF RowUnchanged, RowInserted, RowExpired, RowCancelled, StatusBecomes
  <2>3. CASE RowClaimed(d)
    BY <2>1, <2>3 DEF RowClaimed
  <2>4. ASSUME NEW o \in Outcomes, RowFinished(d, o)
        PROVE  attemptRows'[d][i] = attemptRows[d][i]
    BY <2>1, <2>4 DEF RowFinished, RowsInv, RowInv
  <2>5. QED
    BY <2>2, <2>3, <2>4, RowSteps DEF RowStep
<1>2. QED
  BY <1>1, InitRows, TypeOKStep, RowsInvStep, PTL DEF Spec, OutcomesAreFinal

(* Nothing brings a finished delivery back into the queue.                    *)
THEOREM EndsStay == Spec => FinishedIsFinal
<1> DEFINE Kept == \A d \in Delivery : status[d] \in Finished => status'[d] \in Finished
<1>1. TypeOK /\ RowsInv /\ [Next]_vars => [Kept]_vars
  <2> SUFFICES ASSUME TypeOK, RowsInv, [Next]_vars, NEW d \in Delivery, status[d] \in Finished
               PROVE  status'[d] \in Finished
    OBVIOUS
  <2>1. RowUnchanged(d) \/ RowCancelled(d)
    BY RowSteps DEF RowStep, RowInserted, RowExpired, RowClaimed, RowFinished, Waiting, Finished
  <2>2. QED
    BY <2>1 DEF RowUnchanged, RowCancelled, StatusBecomes, Finished
<1>2. QED
  BY <1>1, InitRows, TypeOKStep, RowsInvStep, PTL DEF Spec, FinishedIsFinal

-----------------------------------------------------------------------------
(* Supersession *)

(* What a supersession that has read a delivery may rely on until it writes,  *)
(* and what a closed incident leaves behind. A recovery's lock keeps the      *)
(* claim away from what it saw waiting; nothing does so for the reset of an   *)
(* OFFLINE device, and nothing here says so.                                  *)
SupersessionInv(d) ==
  /\ d \in OfflineAlert => supersession[d].cause # "offline"
  /\ supersession[d].cause = "recovery" =>
       /\ supersession[d].seen # "ABSENT"
       /\ supersession[d].seen \in {"PENDING", "RETRY_WAIT"} => status[d] # "IN_PROGRESS"
       /\ supersession[d].seen = "IN_PROGRESS" => attemptCount[d] > 0
       /\ supersession[d].seen \in Finished => status[d] \in Finished
  /\ incidentClosed[d] /\ attemptCount[d] = 0 => status[d] \in Finished
  /\ d \in OfflineAlert =>
       \A i \in DOMAIN attemptRows[d] : attemptRows[d][i] = NoOutcome => status[d] = "IN_PROGRESS"

QueueInv == RowsInv /\ \A d \in Delivery : SupersessionInv(d)

LEMMA SupersessionTypes ==
  ASSUME TypeOK, NEW d \in Delivery
  PROVE  /\ supersession[d].cause \in {"recovery", "offline", "none"}
         /\ supersession[d].cause = "none" <=> supersession[d] = NoSupersession
         /\ supersession[d].cause # "none" => supersession[d].seen \in Statuses
<1>1. supersession[d] \in [cause : {"recovery", "offline"}, seen : Statuses] \union {NoSupersession}
  BY DEF TypeOK
<1>2. QED
  BY <1>1 DEF NoSupersession

(* While no supersession of d begins or ends, a step of d's row keeps it.     *)
LEMMA RowStepKeepsSupersessionInv ==
  ASSUME TypeOK, NEW d \in Delivery, RowInv(d), RowInv(d)', RowStep(d), SupersessionInv(d),
         TypeOK',
         supersession'[d] = supersession[d], incidentClosed'[d] = incidentClosed[d]
  PROVE  SupersessionInv(d)'
<1>1. /\ attemptRows[d] \in Seq(Outcomes \union {NoOutcome}) /\ attemptCount[d] \in Nat
      /\ attemptRows'[d] \in Seq(Outcomes \union {NoOutcome}) /\ attemptCount'[d] \in Nat
  BY DEF TypeOK
<1>2. CASE RowUnchanged(d)
  BY <1>2 DEF RowUnchanged, SupersessionInv
<1>3. CASE RowInserted(d)
  <2>1. DOMAIN attemptRows[d] = {} /\ attemptRows'[d] = attemptRows[d]
    BY <1>1, <1>3 DEF RowInserted, StatusBecomes, RowInv
  <2>2. QED
    BY <1>3, <2>1 DEF RowInserted, StatusBecomes, SupersessionInv, Finished
<1>4. CASE RowExpired(d)
  BY <1>4 DEF RowExpired, StatusBecomes, SupersessionInv, RowInv, Waiting, Finished
<1>5. CASE RowCancelled(d)
  <2>1. d \in OfflineAlert => supersession[d].cause = "recovery"
    BY <1>5, SupersessionTypes DEF RowCancelled, SupersessionInv
  <2>2. QED
    BY <1>5, <2>1 DEF RowCancelled, StatusBecomes, SupersessionInv, Finished
<1>6. CASE RowClaimed(d)
  BY <1>1, <1>6 DEF RowClaimed, SupersessionInv, IncidentLocked
<1>7. ASSUME NEW o \in Outcomes, RowFinished(d, o)
      PROVE  SupersessionInv(d)'
  <2>1. /\ status[d] = "IN_PROGRESS" /\ attemptCount[d] > 0 /\ attemptCount'[d] = attemptCount[d]
        /\ status'[d] \in Finished \union {"RETRY_WAIT"} /\ lease'[d] = 0
    BY <1>7, AttemptEnds DEF RowFinished, RowInv
  <2>2. \A i \in DOMAIN attemptRows'[d] : attemptRows'[d][i] # NoOutcome
    BY <1>1, <2>1 DEF RowInv
  <2>3. QED
    BY <2>1, <2>2 DEF SupersessionInv, Finished
<1>8. QED
  BY <1>2, <1>3, <1>4, <1>5, <1>6, <1>7 DEF RowStep

LEMMA QueueInvStep == TypeOK /\ QueueInv /\ [Next]_vars => QueueInv'
<1> SUFFICES ASSUME TypeOK, QueueInv, [Next]_vars
             PROVE  QueueInv'
  OBVIOUS
<1>1. TypeOK' /\ RowsInv /\ RowsInv'
  BY TypeOKStep, RowsInvStep DEF QueueInv
<1>2. SUFFICES ASSUME NEW d \in Delivery
               PROVE  SupersessionInv(d)'
  BY <1>1 DEF QueueInv
<1>3. RowInv(d) /\ RowInv(d)' /\ SupersessionInv(d) /\ RowStep(d)
  BY <1>1, RowSteps DEF QueueInv, RowsInv
<1>4. CASE supersession'[d] = supersession[d] /\ incidentClosed'[d] = incidentClosed[d]
  BY <1>1, <1>3, <1>4, RowStepKeepsSupersessionInv
<1>5. CASE RecoveryReads(d) \/ OfflineReads(d)
  <2>1. /\ status'[d] = status[d] /\ attemptCount'[d] = attemptCount[d]
        /\ attemptRows'[d] = attemptRows[d] /\ incidentClosed'[d] = incidentClosed[d]
    BY <1>5 DEF RecoveryReads, OfflineReads, Supersedes, rowVars
  <2>2. /\ status[d] # "ABSENT"
        /\ \/ RecoveryReads(d) /\ supersession'[d] = [cause |-> "recovery", seen |-> status[d]]
           \/ OfflineReads(d) /\ supersession'[d] = [cause |-> "offline", seen |-> status[d]]
    BY <1>5 DEF RecoveryReads, OfflineReads, Supersedes, Existing, TypeOK
  <2>3. OfflineReads(d) => d \notin OfflineAlert
    BY AlertsAreDeliveries DEF OfflineReads
  <2>4. QED
    BY <1>3, <2>1, <2>2, <2>3 DEF SupersessionInv, RowInv, Finished
<1>6. CASE SupersessionWrites(d)
  <2>1. /\ supersession[d] # NoSupersession /\ supersession'[d] = NoSupersession
        /\ status'[d] = SupersededStatus(supersession[d].seen, status[d])
        /\ incidentClosed'[d] = (incidentClosed[d] \/ supersession[d].cause = "recovery")
        /\ attemptCount'[d] = attemptCount[d] /\ attemptRows'[d] = attemptRows[d]
    BY <1>6 DEF SupersessionWrites, TypeOK
  <2>2. /\ supersession[d].cause \in {"recovery", "offline"} /\ supersession[d].seen \in Statuses
        /\ supersession'[d].cause = "none"
    BY <2>1, SupersessionTypes DEF NoSupersession
  <2>3. CASE supersession[d].seen \in {"PENDING", "RETRY_WAIT"}
    BY <1>3, <2>1, <2>2, <2>3 DEF SupersessionInv, SupersededStatus, Finished
  <2>4. CASE supersession[d].seen \notin {"PENDING", "RETRY_WAIT"}
    <3>1. status'[d] = status[d]
      BY <2>1, <2>4 DEF SupersededStatus
    <3>2. supersession[d].cause = "recovery" /\ attemptCount[d] = 0 => status[d] \in Finished
      BY <1>3, <2>2, <2>4 DEF SupersessionInv, Statuses, Unfinished
    <3>3. QED
      BY <1>3, <2>1, <2>2, <3>1, <3>2 DEF SupersessionInv
  <2>5. QED
    BY <2>3, <2>4
<1>7. CASE SupersessionAborts(d)
  <2>1. /\ supersession'[d] = NoSupersession /\ status'[d] = status[d]
        /\ attemptCount'[d] = attemptCount[d] /\ attemptRows'[d] = attemptRows[d]
        /\ incidentClosed'[d] = incidentClosed[d]
    BY <1>7 DEF SupersessionAborts, rowVars, TypeOK
  <2>2. QED
    BY <1>3, <2>1 DEF SupersessionInv, NoSupersession
<1>8. ASSUME NEW e \in Delivery \ {d},
             RecoveryReads(e) \/ OfflineReads(e) \/ SupersessionWrites(e) \/ SupersessionAborts(e)
      PROVE  supersession'[d] = supersession[d] /\ incidentClosed'[d] = incidentClosed[d]
  BY <1>8 DEF RecoveryReads, OfflineReads, Supersedes, SupersessionWrites, SupersessionAborts, TypeOK
<1>9. QED
  BY <1>4, <1>5, <1>6, <1>7, <1>8 DEF Next, Enqueue, DateElapses, Expires, RecoverStuck, ClaimDue,
     Send, RecordResult, WorkerCrash, rowVars, serverVars, vars

LEMMA InitQueue == Init => QueueInv
<1> SUFFICES ASSUME Init
             PROVE  QueueInv
  OBVIOUS
<1>1. RowsInv
  BY InitRows
<1>2. \A d \in Delivery : attemptRows[d] = << >> /\ ~ incidentClosed[d]
                           /\ supersession[d] = NoSupersession
  BY DEF Init
<1>3. QED
  BY <1>1, <1>2 DEF QueueInv, SupersessionInv, NoSupersession

(* No attempt at a DEVICE_OFFLINE alert is left without an outcome.           *)
THEOREM OfflineAlertsSettle == Spec => []CancelledOfflineAlertsAreSettled
<1>1. QueueInv => CancelledOfflineAlertsAreSettled
  BY AlertsAreDeliveries DEF QueueInv, SupersessionInv, CancelledOfflineAlertsAreSettled
<1>2. QED
  BY <1>1, InitQueue, QueueInvStep, InitRows, TypeOKStep, RowsInvStep, PTL DEF Spec

(* The first attempt at an alert never begins after its incident closed.      *)
THEOREM RecoveryStopsFirstSends == Spec => NoFirstSendAfterRecovery
<1> DEFINE Kept == \A d \in Alerts :
             incidentClosed[d] /\ attemptCount[d] = 0 => attemptCount'[d] = 0
<1>1. TypeOK /\ QueueInv /\ [Next]_vars => [Kept]_vars
  <2> SUFFICES ASSUME TypeOK, QueueInv, [Next]_vars,
                      NEW d \in Alerts, incidentClosed[d], attemptCount[d] = 0
               PROVE  attemptCount'[d] = 0
    OBVIOUS
  <2>1. d \in Delivery
    BY AlertsAreDeliveries DEF Alerts
  <2>2. status[d] \in Finished
    BY <2>1 DEF QueueInv, SupersessionInv
  <2>3. RowStep(d)
    BY <2>1, RowSteps DEF QueueInv
  <2>4. QED
    BY <2>2, <2>3 DEF RowStep, RowUnchanged, RowInserted, RowExpired, RowCancelled, StatusBecomes,
       RowClaimed, RowFinished, Waiting, Finished
<1>2. QED
  BY <1>1, InitQueue, QueueInvStep, InitRows, TypeOKStep, RowsInvStep, PTL
  DEF Spec, NoFirstSendAfterRecovery

-----------------------------------------------------------------------------
(* The bound on copies *)

(* Who holds which claim: a worker answers its own claims, one at a time, no  *)
(* two workers hold the same attempt, and no claim is ahead of the count.     *)
ClaimsInv ==
  /\ \A w \in Worker :
       /\ phase[w] # "sending" => claims[w] = {}
       /\ \A a \in answer[w] : a.claim \in claims[w]
       /\ \A a, b \in answer[w] : a = b
       /\ \A c \in claims[w] : c.attempt <= attemptCount[c.delivery]
  /\ \A v, w \in Worker : v # w => claims[v] \intersect claims[w] = {}

LEMMA CountsGrow ==
  ASSUME TypeOK, RowsInv, [Next]_vars, NEW d \in Delivery
  PROVE  attemptCount'[d] \in Nat /\ attemptCount[d] \in Nat /\ attemptCount[d] <= attemptCount'[d]
<1>1. attemptCount[d] \in Nat
  BY DEF TypeOK
<1>2. RowStep(d)
  BY RowSteps
<1>3. attemptCount'[d] = attemptCount[d] \/ attemptCount'[d] = attemptCount[d] + 1
  BY <1>2 DEF RowStep, RowUnchanged, RowInserted, RowExpired, RowCancelled, StatusBecomes,
     RowClaimed, RowFinished
<1>4. QED
  BY <1>1, <1>3

(* The claims a poll takes: one new attempt for each delivery of the batch.   *)
LEMMA ClaimsTaken ==
  ASSUME TypeOK, NEW w \in Worker, ClaimDue(w)
  PROVE  \E S \in SUBSET Delivery :
           /\ \A d \in Delivery :
                attemptCount'[d] = IF d \in S THEN attemptCount[d] + 1 ELSE attemptCount[d]
           /\ claims'[w] = {[delivery |-> d, attempt |-> attemptCount[d] + 1] : d \in S}
           /\ \A v \in Worker \ {w} : claims'[v] = claims[v] /\ phase'[v] = phase[v]
           /\ phase'[w] = IF S = {} THEN "idle" ELSE "sending"
           /\ phase[w] = "claiming" /\ answer' = answer /\ sent' = sent
<1>1. PICK S \in Batches :
        /\ attemptCount' = [d \in Delivery |->
                              IF d \in S THEN attemptCount[d] + 1 ELSE attemptCount[d]]
        /\ claims' = [claims EXCEPT ![w] =
                         {[delivery |-> d, attempt |-> attemptCount[d] + 1] : d \in S}]
        /\ phase' = [phase EXCEPT ![w] = IF S = {} THEN "idle" ELSE "sending"]
  BY DEF ClaimDue
<1>2. S \in SUBSET Delivery
  BY DEF Batches
<1>3. /\ \A d \in Delivery :
           attemptCount'[d] = IF d \in S THEN attemptCount[d] + 1 ELSE attemptCount[d]
      /\ claims'[w] = {[delivery |-> d, attempt |-> attemptCount[d] + 1] : d \in S}
      /\ \A v \in Worker \ {w} : claims'[v] = claims[v] /\ phase'[v] = phase[v]
      /\ phase'[w] = IF S = {} THEN "idle" ELSE "sending"
  BY <1>1 DEF TypeOK
<1>4. phase[w] = "claiming" /\ answer' = answer /\ sent' = sent
  BY DEF ClaimDue, providerVars
<1>5. QED
  BY <1>2, <1>3, <1>4

LEMMA ClaimsInvStep == TypeOK /\ RowsInv /\ ClaimsInv /\ [Next]_vars => ClaimsInv'
<1> SUFFICES ASSUME TypeOK, RowsInv, ClaimsInv, [Next]_vars
             PROVE  ClaimsInv'
  OBVIOUS
<1>1. \A d \in Delivery : /\ attemptCount[d] \in Nat /\ attemptCount'[d] \in Nat
                          /\ attemptCount[d] <= attemptCount'[d]
  BY CountsGrow
<1>2. \A w \in Worker : \A c \in claims[w] : c.delivery \in Delivery /\ c.attempt \in Nat
                                              /\ c.attempt <= attemptCount[c.delivery]
  BY DEF TypeOK, Claims, AttemptNumbers, ClaimsInv
<1>3. \A w \in Worker : \A c \in claims[w] : c.attempt <= attemptCount'[c.delivery]
  BY <1>1, <1>2
<1>4. CASE UNCHANGED <<claims, answer, phase>>
  BY <1>3, <1>4 DEF ClaimsInv
<1>5. ASSUME NEW w \in Worker, RecoverStuck(w)
      PROVE  ClaimsInv'
  BY <1>3, <1>5 DEF RecoverStuck, ClaimsInv, TypeOK
<1>6. ASSUME NEW w \in Worker, ClaimDue(w)
      PROVE  ClaimsInv'
  <2>1. PICK S \in SUBSET Delivery :
           /\ \A d \in Delivery :
                attemptCount'[d] = IF d \in S THEN attemptCount[d] + 1 ELSE attemptCount[d]
           /\ claims'[w] = {[delivery |-> d, attempt |-> attemptCount[d] + 1] : d \in S}
           /\ \A v \in Worker \ {w} : claims'[v] = claims[v] /\ phase'[v] = phase[v]
           /\ phase'[w] = IF S = {} THEN "idle" ELSE "sending"
           /\ phase[w] = "claiming" /\ answer' = answer
    BY <1>6, ClaimsTaken
  <2>2. claims[w] = {} /\ answer[w] = {}
    BY <2>1 DEF ClaimsInv
  <2>3. \A c \in claims'[w] : /\ c.delivery \in Delivery
                              /\ c.attempt = attemptCount[c.delivery] + 1
                              /\ c.attempt = attemptCount'[c.delivery]
    BY <2>1
  <2>4. \A c \in claims'[w] : c.attempt <= attemptCount'[c.delivery]
    BY <1>1, <2>3
  <2>5. \A v \in Worker \ {w} : claims'[v] \intersect claims'[w] = {}
    BY <1>1, <1>2, <2>1, <2>3
  <2>6. phase'[w] # "sending" => claims'[w] = {}
    BY <2>1
  <2>7. \A v \in Worker : \A a \in answer'[v] : a.claim \in claims'[v]
    BY <2>1, <2>2 DEF ClaimsInv
  <2>8. QED
    BY <1>3, <2>1, <2>2, <2>4, <2>5, <2>6, <2>7 DEF ClaimsInv
<1>7. ASSUME NEW w \in Worker, Send(w)
      PROVE  ClaimsInv'
  <2>1. PICK c \in claims[w], o \in Outcomes :
          answer' = [answer EXCEPT ![w] = {[claim |-> c, outcome |-> o]}]
    BY <1>7 DEF Send
  <2>2. /\ answer'[w] = {[claim |-> c, outcome |-> o]}
        /\ \A v \in Worker \ {w} : answer'[v] = answer[v]
    BY <2>1 DEF TypeOK
  <2>3. claims' = claims /\ phase' = phase
    BY <1>7 DEF Send
  <2>4. QED
    BY <1>3, <2>2, <2>3 DEF ClaimsInv
<1>8. ASSUME NEW w \in Worker, RecordResult(w)
      PROVE  ClaimsInv'
  <2>1. PICK a \in answer[w] :
          /\ claims' = [claims EXCEPT ![w] = claims[w] \ {a.claim}]
          /\ phase' = [phase EXCEPT ![w] = IF claims[w] \ {a.claim} = {} THEN "idle" ELSE "sending"]
    BY <1>8 DEF RecordResult
  <2>2. answer' = [answer EXCEPT ![w] = {}]
    BY <1>8 DEF RecordResult
  <2>3. /\ claims'[w] = claims[w] \ {a.claim} /\ answer'[w] = {}
        /\ phase'[w] = IF claims'[w] = {} THEN "idle" ELSE "sending"
        /\ \A v \in Worker \ {w} : /\ claims'[v] = claims[v] /\ answer'[v] = answer[v]
                                  /\ phase'[v] = phase[v]
    BY <2>1, <2>2 DEF TypeOK
  <2>4. QED
    BY <1>3, <2>3 DEF ClaimsInv
<1>9. ASSUME NEW w \in Worker, WorkerCrash(w)
      PROVE  ClaimsInv'
  <2>1. /\ claims'[w] = {} /\ answer'[w] = {}
        /\ \A v \in Worker \ {w} : /\ claims'[v] = claims[v] /\ answer'[v] = answer[v]
                                  /\ phase'[v] = phase[v]
    BY <1>9 DEF WorkerCrash, TypeOK
  <2>2. QED
    BY <1>3, <2>1 DEF ClaimsInv
<1>10. QED
  BY <1>4, <1>5, <1>6, <1>7, <1>8, <1>9
  DEF Next, Enqueue, DateElapses, Expires, RecoveryReads, OfflineReads, Supersedes,
      SupersessionWrites, SupersessionAborts, workerVars, vars

(* The copies sent and still to be sent, for one delivery. *)
CopiesInv ==
  \A d \in Delivery :
    IsFiniteSet(Unsent(d)) /\ sent[d] + Cardinality(Unsent(d)) <= attemptCount[d]

(* Fewer unsent claims mean fewer copies. *)
LEMMA FewerUnsent ==
  ASSUME TypeOK, TypeOK', CopiesInv, NEW d \in Delivery,
         Unsent(d)' \subseteq Unsent(d), sent'[d] = sent[d],
         attemptCount[d] <= attemptCount'[d]
  PROVE  IsFiniteSet(Unsent(d)') /\ sent'[d] + Cardinality(Unsent(d)') <= attemptCount'[d]
<1>1. IsFiniteSet(Unsent(d)) /\ sent[d] + Cardinality(Unsent(d)) <= attemptCount[d]
  BY DEF CopiesInv
<1>2. IsFiniteSet(Unsent(d)') /\ Cardinality(Unsent(d)') <= Cardinality(Unsent(d))
  BY <1>1, FS_Subset
<1>3. /\ Cardinality(Unsent(d)) \in Nat /\ Cardinality(Unsent(d)') \in Nat
      /\ sent[d] \in Nat /\ attemptCount[d] \in Nat /\ attemptCount'[d] \in Nat
  BY <1>1, <1>2, FS_CardinalityType DEF TypeOK
<1>4. QED
  BY <1>1, <1>2, <1>3

LEMMA CopiesInvStep ==
  TypeOK /\ TypeOK' /\ RowsInv /\ ClaimsInv /\ CopiesInv /\ [Next]_vars => CopiesInv'
<1> SUFFICES ASSUME TypeOK, TypeOK', RowsInv, ClaimsInv, CopiesInv, [Next]_vars,
                    NEW d \in Delivery
             PROVE  IsFiniteSet(Unsent(d)') /\ sent'[d] + Cardinality(Unsent(d)') <= attemptCount'[d]
  BY DEF CopiesInv
<1>1. attemptCount[d] \in Nat /\ attemptCount'[d] \in Nat /\ attemptCount[d] <= attemptCount'[d]
  BY CountsGrow
<1>2. /\ IsFiniteSet(Unsent(d)) /\ Cardinality(Unsent(d)) \in Nat /\ sent[d] \in Nat
      /\ sent[d] + Cardinality(Unsent(d)) <= attemptCount[d]
  BY FS_CardinalityType DEF CopiesInv, TypeOK
<1>3. CASE UNCHANGED <<claims, answer, sent>>
  BY <1>1, <1>3, FewerUnsent DEF Unsent
<1>4. ASSUME NEW w \in Worker, ClaimDue(w)
      PROVE  IsFiniteSet(Unsent(d)') /\ sent'[d] + Cardinality(Unsent(d)') <= attemptCount'[d]
  <2>1. PICK S \in SUBSET Delivery :
           /\ \A e \in Delivery :
                attemptCount'[e] = IF e \in S THEN attemptCount[e] + 1 ELSE attemptCount[e]
           /\ claims'[w] = {[delivery |-> e, attempt |-> attemptCount[e] + 1] : e \in S}
           /\ \A v \in Worker \ {w} : claims'[v] = claims[v]
           /\ answer' = answer /\ sent' = sent
    BY <1>4, ClaimsTaken
  <2> DEFINE new == [delivery |-> d, attempt |-> attemptCount[d] + 1]
  <2>2. CASE d \in S
    <3>1. Unsent(d)' \subseteq Unsent(d) \union {new}
      BY <2>1, <2>2 DEF Unsent
    <3>2. /\ IsFiniteSet(Unsent(d) \union {new})
          /\ Cardinality(Unsent(d) \union {new}) <= Cardinality(Unsent(d)) + 1
      <4> HIDE DEF new
      <4>1. /\ IsFiniteSet(Unsent(d) \union {new})
            /\ \/ Cardinality(Unsent(d) \union {new}) = Cardinality(Unsent(d))
               \/ Cardinality(Unsent(d) \union {new}) = Cardinality(Unsent(d)) + 1
        BY <1>2, FS_AddElement
      <4>2. QED
        BY <1>2, <4>1
    <3>3. /\ IsFiniteSet(Unsent(d)')
          /\ Cardinality(Unsent(d)') <= Cardinality(Unsent(d) \union {new})
      BY <3>1, <3>2, FS_Subset
    <3>4. Cardinality(Unsent(d)') \in Nat /\ Cardinality(Unsent(d) \union {new}) \in Nat
      BY <3>2, <3>3, FS_CardinalityType
    <3>5. sent'[d] = sent[d] /\ attemptCount'[d] = attemptCount[d] + 1
      BY <2>1, <2>2
    <3>6. QED
      BY <1>1, <1>2, <3>2, <3>3, <3>4, <3>5
  <2>3. CASE d \notin S
    <3>1. Unsent(d)' \subseteq Unsent(d)
      BY <2>1, <2>3 DEF Unsent
    <3>2. QED
      BY <1>1, <2>1, <3>1, FewerUnsent
  <2>4. QED
    BY <2>2, <2>3
<1>5. ASSUME NEW w \in Worker, Send(w)
      PROVE  IsFiniteSet(Unsent(d)') /\ sent'[d] + Cardinality(Unsent(d)') <= attemptCount'[d]
  <2>1. PICK c \in claims[w], o \in Outcomes :
          /\ answer' = [answer EXCEPT ![w] = {[claim |-> c, outcome |-> o]}]
          /\ sent' = [sent EXCEPT ![c.delivery] = @ + 1]
    BY <1>5 DEF Send
  <2>2. claims' = claims /\ answer[w] = {} /\ attemptCount' = attemptCount
    BY <1>5 DEF Send, rowVars
  <2>3. /\ answer'[w] = {[claim |-> c, outcome |-> o]}
        /\ \A v \in Worker \ {w} : answer'[v] = answer[v]
    BY <2>1 DEF TypeOK
  <2>4. Unsent(d)' \subseteq Unsent(d) \ {c}
    <3>1. \A v \in Worker : \A a \in answer[v] : a \in answer'[v]
      BY <2>2, <2>3
    <3>2. \E a \in answer'[w] : a.claim = c
      BY <2>3
    <3>3. QED
      BY <2>2, <3>1, <3>2 DEF Unsent
  <2>5. CASE c.delivery = d
    <3>1. c \in Unsent(d)
      BY <2>2, <2>5 DEF Unsent, ClaimsInv
    <3>2. /\ IsFiniteSet(Unsent(d) \ {c})
          /\ Cardinality(Unsent(d) \ {c}) = Cardinality(Unsent(d)) - 1
      BY <1>2, <3>1, FS_RemoveElement
    <3>3. /\ IsFiniteSet(Unsent(d)')
          /\ Cardinality(Unsent(d)') <= Cardinality(Unsent(d) \ {c})
      BY <2>4, <3>2, FS_Subset
    <3>4. Cardinality(Unsent(d)') \in Nat
      BY <3>3, FS_CardinalityType
    <3>5. sent'[d] \in Nat /\ sent'[d] <= sent[d] + 1
      BY <1>2, <2>1, <2>5 DEF TypeOK
    <3>6. Cardinality(Unsent(d)') <= Cardinality(Unsent(d)) - 1
      BY <3>2, <3>3
    <3>7. attemptCount'[d] = attemptCount[d]
      BY <2>2
    <3>8. sent'[d] + Cardinality(Unsent(d)') <= attemptCount[d]
      BY <1>1, <1>2, <3>4, <3>5, <3>6
    <3>9. QED
      BY <3>3, <3>7, <3>8
  <2>6. CASE c.delivery # d
    BY <1>1, <2>1, <2>4, <2>6, FewerUnsent DEF TypeOK
  <2>7. QED
    BY <2>5, <2>6
<1>6. ASSUME NEW w \in Worker, RecordResult(w)
      PROVE  IsFiniteSet(Unsent(d)') /\ sent'[d] + Cardinality(Unsent(d)') <= attemptCount'[d]
  <2>1. PICK a \in answer[w] : claims' = [claims EXCEPT ![w] = claims[w] \ {a.claim}]
    BY <1>6 DEF RecordResult
  <2>2. answer' = [answer EXCEPT ![w] = {}] /\ sent' = sent
    BY <1>6 DEF RecordResult, providerVars
  <2>3. /\ claims'[w] = claims[w] \ {a.claim} /\ answer'[w] = {}
        /\ \A v \in Worker \ {w} : claims'[v] = claims[v] /\ answer'[v] = answer[v]
    BY <2>1, <2>2 DEF TypeOK
  <2>4. a.claim \in claims[w] /\ \A b \in answer[w] : b = a
    BY DEF ClaimsInv
  <2>5. \A v \in Worker : a.claim \notin claims'[v]
    BY <2>3, <2>4 DEF ClaimsInv
  <2>6. Unsent(d)' \subseteq Unsent(d)
    BY <2>3, <2>4, <2>5 DEF Unsent
  <2>7. QED
    BY <1>1, <2>2, <2>6, FewerUnsent
<1>7. ASSUME NEW w \in Worker, WorkerCrash(w)
      PROVE  IsFiniteSet(Unsent(d)') /\ sent'[d] + Cardinality(Unsent(d)') <= attemptCount'[d]
  <2>1. /\ claims'[w] = {} /\ answer'[w] = {} /\ sent' = sent
        /\ \A v \in Worker \ {w} : claims'[v] = claims[v] /\ answer'[v] = answer[v]
    BY <1>7 DEF WorkerCrash, TypeOK, providerVars
  <2>2. \A v \in Worker \ {w} : \A c \in claims[v] : \A a \in answer[w] : a.claim # c
    BY DEF ClaimsInv
  <2>3. Unsent(d)' \subseteq Unsent(d)
    BY <2>1, <2>2 DEF Unsent
  <2>4. QED
    BY <1>1, <2>1, <2>3, FewerUnsent
<1>8. QED
  BY <1>3, <1>4, <1>5, <1>6, <1>7
  DEF Next, Enqueue, DateElapses, Expires, RecoveryReads, OfflineReads, Supersedes,
      SupersessionWrites, SupersessionAborts, RecoverStuck, workerVars, providerVars, vars

(* However many workers share the queue, stall past their lease or crash: a   *)
(* message is handed to its provider no more often than it has attempts, nor  *)
(* more than MaxAttempts times.                                               *)
THEOREM CopiesAreBounded == Spec => []MessagesBounded
<1>1. Init => ClaimsInv /\ CopiesInv
  <2> SUFFICES ASSUME Init
               PROVE  ClaimsInv /\ CopiesInv
    OBVIOUS
  <2>1. \A d \in Delivery : Unsent(d) = {} /\ sent[d] = 0 /\ attemptCount[d] = 0
    BY DEF Init, Unsent
  <2>2. CopiesInv
    BY <2>1, FS_EmptySet DEF CopiesInv
  <2>3. QED
    BY <2>2 DEF Init, ClaimsInv
<1>2. TypeOK /\ CopiesInv => MessagesBounded
  BY DEF TypeOK, CopiesInv, MessagesBounded
<1>3. QED
  BY <1>1, <1>2, InitRows, TypeOKStep, RowsInvStep, ClaimsInvStep, CopiesInvStep, PTL DEF Spec

=============================================================================
