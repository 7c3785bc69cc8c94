------------------------------ MODULE Enrollment ------------------------------
(***************************************************************************)
(* One-time enrolment: server/app/enrollment/service.py behind             *)
(* api/enrollment.py. An operator prepares an enrolment of a new device or *)
(* of a replacement's agent and hands its token to a host. The host        *)
(* exchanges the token for a credential and a receipt, with which it may   *)
(* ask whether its device's heartbeats arrive. Tokens are single-use: an   *)
(* exchange, a revocation and a deletion each hold the enrolment's row     *)
(* lock. An exchange then waits for its project's or its device's, with    *)
(* the clock already read.                                                 *)
(*                                                                         *)
(* An enrolment is named by its position, and so are its token and its     *)
(* receipt: who holds them is told by the host's state.                    *)
(***************************************************************************)
EXTENDS Credentials

CONSTANTS
  EnrollmentTTL,     \* ENROLLMENT_TTL
  VerificationTTL,   \* VERIFICATION_TTL
  ReplaceOverlap,    \* the overlap of a replacement
  OfflineAfter,      \* offline_after
  MaxEnrollments     \* bound: enrolments

ASSUME DurationsAreNat == {EnrollmentTTL, VerificationTTL, ReplaceOverlap} \subseteq Nat

VARIABLES
  enrollment,   \* AgentEnrollment rows, with the audit events that revoke and delete them
  exchanges     \* exchanges that hold an enrolment's row lock: enrollment, host, now

enrollmentVars == <<enrollment, exchanges>>

EnrollmentInit == enrollment = <<>> /\ exchanges = {}

NewEnrollment(mode, target) ==
  [mode |-> mode, target |-> target, expires |-> now + EnrollmentTTL, used |-> None,
   issued |-> None, receiptEnds |-> None, revoked |-> FALSE, deleted |-> FALSE]

\* create_intent: for an active project, or for a device whatever its state.
CreateIntent(mode, target) ==
  /\ Len(enrollment) < MaxEnrollments
  /\ mode = "NEW" => target \in active
  /\ enrollment' = Append(enrollment, NewEnrollment(mode, target))
  /\ UNCHANGED exchanges

\* Mutant: the row is read without FOR UPDATE.
UnlockedAlways(e) == TRUE

\* _locked_enrollment: nobody else holds the row.
Unlocked(e) == \A exchange \in exchanges : exchange.enrollment # e

Usable(e) == enrollment[e].used = None /\ enrollment[e].expires > now

\* A host that replaces an agent names the device it holds the configuration of.
TargetExpected(e, expected) ==
  expected # None => enrollment[e].mode = "REPLACE" /\ enrollment[e].target = expected

\* exchange, up to the second lock. A rejected one changes nothing.
ExchangeBegin(e, host, expected) ==
  /\ Unlocked(e) /\ TargetExpected(e, expected) /\ Usable(e)
  /\ exchanges' = exchanges \union {[enrollment |-> e, host |-> host, now |-> now]}
  /\ UNCHANGED enrollment

\* exchange, from there: an inactive project and a device with two credentials
\* abort it, and the token stays usable.
ExchangeAllowed(exchange) ==
  LET intent == enrollment[exchange.enrollment]
  IN IF intent.mode = "NEW" THEN EnrollAllowed(intent.target)
     ELSE RotateAllowed(intent.target, exchange.now)
IssuedDevice(exchange) ==
  IF enrollment[exchange.enrollment].mode = "NEW" THEN Len(device) + 1
  ELSE enrollment[exchange.enrollment].target

ExchangeCommit(exchange) ==
  /\ ExchangeAllowed(exchange)
  /\ LET e == exchange.enrollment
     IN /\ IF enrollment[e].mode = "NEW"
           THEN EnrollInSession(enrollment[e].target, None, e)
           ELSE /\ RotateInSession(enrollment[e].target, ReplaceOverlap, exchange.now, None, e)
                /\ UNCHANGED device
        /\ enrollment' = [enrollment EXCEPT
             ![e].used = exchange.now, ![e].issued = IssuedDevice(exchange),
             ![e].receiptEnds = exchange.now + VerificationTTL]
  /\ exchanges' = exchanges \ {exchange}
  /\ UNCHANGED <<active, rotation>>

ExchangeAborts(exchange) ==
  /\ ~ExchangeAllowed(exchange)
  /\ exchanges' = exchanges \ {exchange}
  /\ UNCHANGED <<enrollment, credentialVars>>

\* verify_receipt: has the device been heard of since the exchange read the clock?
ReceiptIsValid(e) == enrollment[e].used # None /\ enrollment[e].receiptEnds > now
AcceptedHeartbeat(e) ==
  /\ ReceiptIsValid(e)
  /\ device[enrollment[e].issued].seen # None
  /\ device[enrollment[e].issued].seen >= enrollment[e].used

\* _status
EnrollmentStatus(e) ==
  IF enrollment[e].used = None
  THEN IF enrollment[e].revoked THEN "REVOKED"
       ELSE IF enrollment[e].expires <= now THEN "EXPIRED" ELSE "PENDING"
  ELSE LET seen == device[enrollment[e].issued].seen
       IN IF seen # None /\ seen + OfflineAfter >= now THEN "ONLINE" ELSE "ENROLLED"

\* list_to_install
ToInstall ==
  {e \in DOMAIN enrollment :
     enrollment[e].used = None /\ enrollment[e].mode = "NEW" /\ ~enrollment[e].deleted}

\* revoke_unused
RevokeUnused(e) ==
  /\ Unlocked(e) /\ Usable(e)
  /\ enrollment' = [enrollment EXCEPT ![e].expires = now, ![e].revoked = TRUE]
  /\ UNCHANGED exchanges

\* delete_unused: an expired one keeps its instant.
DeleteUnused(e) ==
  /\ Unlocked(e) /\ enrollment[e].used = None
  /\ enrollment' = [enrollment EXCEPT
       ![e].expires = IF @ > now THEN now ELSE @, ![e].revoked = TRUE, ![e].deleted = TRUE]
  /\ UNCHANGED exchanges
=============================================================================
