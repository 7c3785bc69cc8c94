--------------------------- MODULE IdentityProofs ---------------------------
(***************************************************************************)
(* Who may speak for a device, for every set of projects, hosts and        *)
(* overlaps, every lifetime of a token and every bound: types, at most one *)
(* lasting credential, tokens that issue once, and heartbeats that are     *)
(* counted only for a live credential of an enabled device.                *)
(***************************************************************************)
EXTENDS Identity, FiniteSetTheorems, TLAPS

USE OverlapIsPositive, NoneIsNoInstant, DevicesAreCounted, DurationsAreNat, ProjectsExist

Instants == Nat \union {None}

DeviceRows == [project : Project, enabled : BOOLEAN, seen : Instants]
CredentialRows == [device : Nat, expires : Instants, revoked : BOOLEAN, by : Instants]
EnrollmentRows ==
  [mode : {"NEW", "REPLACE"}, target : Project \union Nat, expires : Nat, used : Instants,
   issued : Instants, receiptEnds : Instants, revoked : BOOLEAN, deleted : BOOLEAN]

(* The rows of the server, with the clocks that were read for a transaction   *)
(* that has yet to have its lock: they are never ahead of the clock.          *)
DevicesTyped == device \in Seq(DeviceRows) /\ Len(device) <= MaxDevices
CredentialsTyped ==
  /\ credential \in Seq(CredentialRows)
  /\ \A c \in DOMAIN credential : credential[c].device \in DOMAIN device
RotationTyped ==
  rotation # None =>
    rotation \in [device : DOMAIN device, overlap : Overlap, expires : Expiry, now : 0 .. now]
EnrollmentsTyped ==
  /\ enrollment \in Seq(EnrollmentRows)
  /\ \A e \in DOMAIN enrollment :
       /\ enrollment[e].mode = "NEW" => enrollment[e].target \in Project
       /\ enrollment[e].mode = "REPLACE" => enrollment[e].target \in DOMAIN device
ExchangesTyped == exchanges \subseteq [enrollment : DOMAIN enrollment, host : Host, now : 0 .. now]
RowsTyped ==
  /\ now \in Nat /\ active \subseteq Project
  /\ DevicesTyped /\ CredentialsTyped /\ RotationTyped /\ EnrollmentsTyped /\ ExchangesTyped
LimiterTyped == recent \in [1 .. MaxDevices -> Nat]

(* A token in an exchange is usable still, at the instant the exchange read,  *)
(* and nobody else exchanges it.                                              *)
ExchangesHoldUsable ==
  \A x \in exchanges :
    /\ enrollment[x.enrollment].used = None /\ ~ enrollment[x.enrollment].revoked
    /\ x.now < enrollment[x.enrollment].expires
    /\ \A y \in exchanges : y.enrollment = x.enrollment => y = x

(* A used token is not revoked and was used in time; a token that was not     *)
(* used has issued nothing.                                                   *)
UsedInTime ==
  \A e \in DOMAIN enrollment : enrollment[e].used # None =>
    ~ enrollment[e].revoked /\ enrollment[e].used < enrollment[e].expires
RevokedHaveExpired ==
  \A e \in DOMAIN enrollment : enrollment[e].revoked => enrollment[e].expires <= now
IssuedFor(e) == {c \in DOMAIN credential : credential[c].by = e}
IssuedOnUse ==
  /\ \A e \in DOMAIN enrollment :
       /\ enrollment[e].used = None => IssuedFor(e) = {}
       /\ enrollment[e].used # None =>
            \E c \in DOMAIN credential :
              IssuedFor(e) = {c} /\ credential[c].device = enrollment[e].issued
  /\ \A c \in DOMAIN credential : credential[c].by # None => credential[c].by \in DOMAIN enrollment

TokenInv ==
  /\ RowsTyped /\ ExchangesHoldUsable /\ UsedInTime /\ RevokedHaveExpired /\ IssuedOnUse

-----------------------------------------------------------------------------
(* What a step does to the rows *)

(* An accepted heartbeat, seen from the rows of the device. *)
Heard(d) ==
  /\ device' = [device EXCEPT ![d].seen = now]
  /\ UNCHANGED <<active, credential, rotation>>

CredentialStep ==
  \/ \E p \in Project, isActive \in BOOLEAN : SetProjectActive(p, isActive)
  \/ \E p \in Project, expires \in Expiry : Enroll(p, expires)
  \/ \E d \in DOMAIN device, enabled \in BOOLEAN : SetEnabled(d, enabled)
  \/ \E d \in DOMAIN device, overlap \in Overlap, expires \in Expiry :
       RotateReads(d, overlap, expires)
  \/ \E c \in DOMAIN credential : Revoke(c)
  \/ Rotate
  \/ \E request \in requests : Heard(request.device)

EnrollmentStep ==
  \/ \E p \in Project : CreateIntent("NEW", p)
  \/ \E d \in DOMAIN device : CreateIntent("REPLACE", d)
  \/ \E e \in DOMAIN enrollment : RevokeUnused(e) \/ DeleteUnused(e)
  \/ \E h \in Host, e \in DOMAIN enrollment : ExchangeBegin(e, h, ExpectedDevice(h))

RowStep ==
  \/ UNCHANGED <<now, credentialVars, enrollmentVars>>
  \/ Tick /\ UNCHANGED <<credentialVars, enrollmentVars>>
  \/ CredentialStep /\ UNCHANGED <<now, enrollmentVars>>
  \/ EnrollmentStep /\ UNCHANGED <<now, credentialVars>>
  \/ \E exchange \in exchanges :
       (ExchangeCommit(exchange) \/ ExchangeAborts(exchange)) /\ UNCHANGED now

(* Whatever operators, installers, agents and the server do, the rows of      *)
(* devices, credentials and enrolments take one of these steps or none.       *)
LEMMA RowSteps == ASSUME [Next]_vars PROVE RowStep
<1>1. CASE Operator
  BY <1>1 DEF Operator, RowStep, CredentialStep, EnrollmentStep, credentialVars
<1>2. CASE RotationEnds
  BY <1>2 DEF RotationEnds, RowStep, CredentialStep
<1>3. CASE TimePasses
  BY <1>3 DEF TimePasses, RowStep
<1>4. CASE LimiterForgets
  BY <1>4 DEF LimiterForgets, RowStep
<1>5. CASE Installer
  <2>1. ASSUME NEW h \in Host, NEW e \in DOMAIN enrollment, ExchangeStarts(h, e)
        PROVE  RowStep
    BY <2>1 DEF ExchangeStarts, RowStep, EnrollmentStep
  <2>2. ASSUME NEW exchange \in exchanges, ExchangeEnds(exchange)
        PROVE  RowStep
    BY <2>2 DEF ExchangeEnds, RowStep
  <2>3. ASSUME NEW h \in Host, AgentSwitched(h) \/ ReceiptAsked(h) \/ PollingEnds(h)
        PROVE  RowStep
    BY <2>3 DEF AgentSwitched, ReceiptAsked, PollingEnds, RowStep
  <2>4. QED
    BY <1>5, <2>1, <2>2, <2>3 DEF Installer
<1>6. CASE Server
  <2>1. ASSUME NEW request \in requests, CredentialRead(request)
        PROVE  RowStep
    BY <2>1 DEF CredentialRead, ServerUnchanged, RowStep
  <2>2. ASSUME NEW request \in requests, HeartbeatAnswered(request)
        PROVE  RowStep
    BY <2>2 DEF HeartbeatAnswered, RowStep, CredentialStep, Heard, credentialVars
  <2>3. QED
    BY <1>6, <2>1, <2>2 DEF Server
<1>7. ASSUME NEW h \in Host,
             (\E beat \in Beat : HeartbeatSent(h, beat)) \/ AttemptFails(h) \/ SendGivenUp(h)
      PROVE  RowStep
  BY <1>7 DEF HeartbeatSent, AttemptFails, SendGivenUp, ServerUnchanged, RowStep
<1>8. ASSUME NEW request \in requests, HeartbeatFails(request)
      PROVE  RowStep
  BY <1>8 DEF HeartbeatFails, ServerUnchanged, RowStep
<1>9. CASE UNCHANGED vars
  BY <1>9 DEF vars, RowStep
<1>10. QED
  BY <1>1, <1>2, <1>3, <1>4, <1>5, <1>6, <1>7, <1>8, <1>9 DEF Next

(* A sequence whose entries are replaced in place keeps its length and, when  *)
(* the new entries have the type, its type.                                   *)
LEMMA EntriesReplaced ==
  ASSUME NEW S, NEW T, NEW s \in Seq(S), NEW t,
         t = [i \in DOMAIN s |-> t[i]], \A i \in DOMAIN s : t[i] \in T
  PROVE  t \in Seq(T) /\ DOMAIN t = DOMAIN s /\ Len(t) = Len(s)
<1>1. DOMAIN s = 1 .. Len(s) /\ Len(s) \in Nat
  OBVIOUS
<1>2. t \in [1 .. Len(s) -> T]
  BY <1>1
<1>3. QED
  BY <1>1, <1>2

LEMMA EntryAppended ==
  ASSUME NEW S, NEW s \in Seq(S), NEW e \in S
  PROVE  /\ Append(s, e) \in Seq(S) /\ Len(Append(s, e)) = Len(s) + 1
         /\ DOMAIN Append(s, e) = DOMAIN s \union {Len(s) + 1}
         /\ DOMAIN s = 1 .. Len(s) /\ Len(s) + 1 \notin DOMAIN s
         /\ \A i \in DOMAIN s : Append(s, e)[i] = s[i]
         /\ Append(s, e)[Len(s) + 1] = e
<1>1. Append(s, e) \in Seq(S) /\ Len(Append(s, e)) = Len(s) + 1
  OBVIOUS
<1>2. DOMAIN s = 1 .. Len(s) /\ Len(s) \in Nat /\ DOMAIN Append(s, e) = 1 .. (Len(s) + 1)
  BY <1>1
<1>3. QED
  BY <1>1, <1>2

Rotated(d, overlap, time, expires, by) ==
  /\ credential' \in Seq(CredentialRows) /\ Len(credential') = Len(credential) + 1
  /\ DOMAIN credential' = DOMAIN credential \union {Len(credential) + 1}
  /\ Len(credential) + 1 \notin DOMAIN credential
  /\ credential'[Len(credential) + 1] = NewCredential(d, expires, by)
  /\ \A c \in DOMAIN credential :
       /\ credential'[c].device = credential[c].device
       /\ credential'[c].revoked = credential[c].revoked
       /\ credential'[c].by = credential[c].by
       /\ c \in LiveCredentials(d, time) =>
            credential'[c].expires # None /\ credential'[c].expires <= time + overlap
       /\ c \notin LiveCredentials(d, time) => credential'[c] = credential[c]

(* A rotation appends the new credential and ends those that were live at its *)
(* instant with the overlap; it changes nothing else of a credential.         *)
LEMMA RotationRows ==
  ASSUME CredentialsTyped, NEW d \in Nat, NEW overlap \in Nat, NEW time \in Nat,
         NEW expires \in Instants, NEW by \in Instants,
         RotateInSession(d, overlap, time, expires, by)
  PROVE  Rotated(d, overlap, time, expires, by)
<1> DEFINE rows == Shortened(d, time, time + overlap)
<1>1. \A c \in DOMAIN credential : credential[c] \in CredentialRows
  BY DEF CredentialsTyped
<1>2. ASSUME NEW c \in DOMAIN credential
      PROVE  /\ rows[c] \in CredentialRows
             /\ rows[c].device = credential[c].device /\ rows[c].revoked = credential[c].revoked
             /\ rows[c].by = credential[c].by
             /\ c \in LiveCredentials(d, time) =>
                  rows[c].expires # None /\ rows[c].expires <= time + overlap
             /\ c \notin LiveCredentials(d, time) => rows[c] = credential[c]
  <2>1. credential[c] \in CredentialRows
    BY <1>1
  <2>2. Earlier(credential[c].expires, time + overlap) \in Nat
    BY <2>1 DEF Earlier, CredentialRows, Instants
  <2>3. Earlier(credential[c].expires, time + overlap) <= time + overlap
    BY <2>1 DEF Earlier, CredentialRows, Instants
  <2>4. CASE c \in LiveCredentials(d, time)
    <3>1. rows[c] = [credential[c] EXCEPT !.expires = Earlier(@, time + overlap)]
      BY <2>4 DEF Shortened
    <3>2. QED
      BY <2>1, <2>2, <2>3, <2>4, <3>1 DEF CredentialRows, Instants
  <2>5. CASE c \notin LiveCredentials(d, time)
    BY <2>1, <2>5 DEF Shortened
  <2>6. QED
    BY <2>4, <2>5
<1>3. rows \in Seq(CredentialRows) /\ DOMAIN rows = DOMAIN credential /\ Len(rows) = Len(credential)
  <2>1. rows = [c \in DOMAIN credential |-> rows[c]]
    BY DEF Shortened
  <2>2. credential \in Seq(CredentialRows)
    BY DEF CredentialsTyped
  <2>3. \A c \in DOMAIN credential : rows[c] \in CredentialRows
    BY <1>2
  <2> HIDE DEF rows
  <2>4. QED
    BY <2>1, <2>2, <2>3, EntriesReplaced
<1>4. NewCredential(d, expires, by) \in CredentialRows
  BY DEF NewCredential, CredentialRows
<1>5. credential' = Append(rows, NewCredential(d, expires, by))
  BY DEF RotateInSession
<1> HIDE DEF rows
<1>6. /\ credential' \in Seq(CredentialRows) /\ Len(credential') = Len(rows) + 1
      /\ DOMAIN credential' = DOMAIN rows \union {Len(rows) + 1}
      /\ Len(rows) + 1 \notin DOMAIN rows
      /\ \A c \in DOMAIN rows : credential'[c] = rows[c]
      /\ credential'[Len(rows) + 1] = NewCredential(d, expires, by)
  BY <1>3, <1>4, <1>5, EntryAppended
<1>7. QED
  BY <1>2, <1>3, <1>6 DEF Rotated

(* An enrolment appends a device and its first credential. *)
LEMMA EnrollmentRowsAppended ==
  ASSUME DevicesTyped, CredentialsTyped, NEW p \in Project, NEW expires \in Instants,
         NEW by \in Instants, EnrollInSession(p, expires, by)
  PROVE  /\ DevicesTyped' /\ Len(device') = Len(device) + 1
         /\ DOMAIN device' = DOMAIN device \union {Len(device) + 1}
         /\ Len(device) + 1 \notin DOMAIN device
         /\ \A d \in DOMAIN device : device'[d] = device[d]
         /\ credential' \in Seq(CredentialRows) /\ Len(credential') = Len(credential) + 1
         /\ DOMAIN credential' = DOMAIN credential \union {Len(credential) + 1}
         /\ Len(credential) + 1 \notin DOMAIN credential
         /\ \A c \in DOMAIN credential : credential'[c] = credential[c]
         /\ credential'[Len(credential) + 1] = NewCredential(Len(device) + 1, expires, by)
<1> DEFINE row == [project |-> p, enabled |-> TRUE, seen |-> None]
           new == NewCredential(Len(device) + 1, expires, by)
<1>1. row \in DeviceRows
  BY DEF DeviceRows, Instants
<1>2. Len(device) \in Nat
  BY DEF DevicesTyped
<1>3. new \in CredentialRows
  BY <1>2 DEF NewCredential, CredentialRows
<1>4. device' = Append(device, row) /\ credential' = Append(credential, new)
  BY DEF EnrollInSession
<1> HIDE DEF row, new
<1>5. /\ device' \in Seq(DeviceRows) /\ Len(device') = Len(device) + 1
      /\ DOMAIN device' = DOMAIN device \union {Len(device) + 1}
      /\ Len(device) + 1 \notin DOMAIN device
      /\ \A d \in DOMAIN device : device'[d] = device[d]
  BY <1>1, <1>4, EntryAppended DEF DevicesTyped
<1>6. /\ credential' \in Seq(CredentialRows) /\ Len(credential') = Len(credential) + 1
      /\ DOMAIN credential' = DOMAIN credential \union {Len(credential) + 1}
      /\ Len(credential) + 1 \notin DOMAIN credential
      /\ \A c \in DOMAIN credential : credential'[c] = credential[c]
      /\ credential'[Len(credential) + 1] = new
  BY <1>3, <1>4, EntryAppended DEF CredentialsTyped
<1>7. Len(device') <= MaxDevices
  BY <1>2, <1>5 DEF EnrollInSession
<1>8. QED
  BY <1>5, <1>6, <1>7 DEF DevicesTyped, new

(* What an exchange, a revocation and a deletion make of an enrolment's row.  *)
Exchanged(row, time, d) ==
  [row EXCEPT !.used = time, !.issued = d, !.receiptEnds = time + VerificationTTL]
Ended(row, end, deleted) ==
  [row EXCEPT !.expires = end, !.revoked = TRUE, !.deleted = deleted]

LEMMA EntryReplaced ==
  ASSUME NEW S, NEW s \in Seq(S), NEW i \in DOMAIN s, NEW e \in S
  PROVE  /\ [s EXCEPT ![i] = e] \in Seq(S)
         /\ DOMAIN [s EXCEPT ![i] = e] = DOMAIN s /\ Len([s EXCEPT ![i] = e]) = Len(s)
         /\ [s EXCEPT ![i] = e][i] = e
         /\ \A j \in DOMAIN s : j # i => [s EXCEPT ![i] = e][j] = s[j]
<1> DEFINE t == [s EXCEPT ![i] = e]
<1>1. t = [j \in DOMAIN s |-> t[j]] /\ \A j \in DOMAIN s : t[j] \in S
  OBVIOUS
<1>2. t[i] = e /\ \A j \in DOMAIN s : j # i => t[j] = s[j]
  OBVIOUS
<1> HIDE DEF t
<1>3. QED
  BY <1>1, <1>2, EntriesReplaced DEF t

(* An operation that ends an unused enrolment changes its row and no other.   *)
LEMMA EndedRows ==
  ASSUME EnrollmentsTyped, now \in Nat, NEW e \in DOMAIN enrollment,
         RevokeUnused(e) \/ DeleteUnused(e)
  PROVE  \E end \in Nat, deleted \in BOOLEAN :
           /\ end <= now /\ enrollment[e].used = None
           /\ enrollment' = [enrollment EXCEPT ![e] = Ended(enrollment[e], end, deleted)]
           /\ Ended(enrollment[e], end, deleted) \in EnrollmentRows
<1>1. enrollment[e] \in EnrollmentRows
  BY DEF EnrollmentsTyped
<1>2. CASE RevokeUnused(e)
  <2>1. Ended(enrollment[e], now, enrollment[e].deleted) \in EnrollmentRows
    BY <1>1 DEF Ended, EnrollmentRows
  <2>2. enrollment' = [enrollment EXCEPT ![e] = Ended(enrollment[e], now, enrollment[e].deleted)]
    <3>1. enrollment' = [enrollment EXCEPT ![e].expires = now, ![e].revoked = TRUE]
      BY <1>2 DEF RevokeUnused
    <3>2. Ended(enrollment[e], now, enrollment[e].deleted)
            = [enrollment[e] EXCEPT !.expires = now, !.revoked = TRUE]
      BY <1>1 DEF Ended, EnrollmentRows
    <3>3. QED
      BY <3>1, <3>2
  <2>3. enrollment[e].deleted \in BOOLEAN
    BY <1>1 DEF EnrollmentRows
  <2>4. now \in Nat /\ now <= now /\ enrollment[e].used = None
    BY <1>2 DEF RevokeUnused, Usable
  <2>5. QED
    BY <2>1, <2>2, <2>3, <2>4
<1>3. CASE DeleteUnused(e)
  <2> DEFINE end == IF enrollment[e].expires > now THEN now ELSE enrollment[e].expires
  <2>1. end \in Nat /\ end <= now
    BY <1>1 DEF EnrollmentRows
  <2>2. enrollment' = [enrollment EXCEPT ![e] = Ended(enrollment[e], end, TRUE)]
    BY <1>3 DEF DeleteUnused, Ended
  <2>3. Ended(enrollment[e], end, TRUE) \in EnrollmentRows
    BY <1>1, <2>1 DEF Ended, EnrollmentRows
  <2>4. enrollment[e].used = None
    BY <1>3 DEF DeleteUnused
  <2> HIDE DEF end
  <2>5. QED
    BY <2>1, <2>2, <2>3, <2>4
<1>4. QED
  BY <1>2, <1>3

(* The commit of an exchange uses the enrolment it holds and appends the one  *)
(* credential that is issued for it.                                          *)
LEMMA CommittedRows ==
  ASSUME RowsTyped, NEW x \in exchanges, ExchangeCommit(x)
  PROVE  LET e == x.enrollment
             new == Len(credential) + 1
             row == Exchanged(enrollment[e], x.now, IssuedDevice(x))
         IN /\ e \in DOMAIN enrollment /\ x.now \in 0 .. now
            /\ enrollment' = [enrollment EXCEPT ![e] = row] /\ row \in EnrollmentRows
            /\ DevicesTyped' /\ DOMAIN device \subseteq DOMAIN device'
            /\ credential' \in Seq(CredentialRows) /\ new \notin DOMAIN credential
            /\ DOMAIN credential' = DOMAIN credential \union {new}
            /\ credential'[new].by = e /\ credential'[new].device = IssuedDevice(x)
            /\ IssuedDevice(x) \in DOMAIN device'
            /\ \A c \in DOMAIN credential :
                 credential'[c].by = credential[c].by /\ credential'[c].device = credential[c].device
<1> DEFINE e == x.enrollment
           row == Exchanged(enrollment[e], x.now, IssuedDevice(x))
           new == Len(credential) + 1
<1>1. e \in DOMAIN enrollment /\ x.now \in 0 .. now /\ now \in Nat /\ e \in Nat
  BY DEF RowsTyped, ExchangesTyped, EnrollmentsTyped
<1>2. enrollment[e] \in EnrollmentRows /\ ReplaceOverlap \in Nat /\ VerificationTTL \in Nat
  BY <1>1 DEF RowsTyped, EnrollmentsTyped
<1> DEFINE Issued ==
             /\ DevicesTyped' /\ DOMAIN device \subseteq DOMAIN device'
             /\ credential' \in Seq(CredentialRows) /\ new \notin DOMAIN credential
             /\ DOMAIN credential' = DOMAIN credential \union {new}
             /\ credential'[new].by = e /\ credential'[new].device = IssuedDevice(x)
             /\ IssuedDevice(x) \in DOMAIN device'
             /\ \A c \in DOMAIN credential :
                  credential'[c].by = credential[c].by /\ credential'[c].device = credential[c].device
<1>3. ASSUME enrollment[e].mode = "NEW" PROVE Issued /\ IssuedDevice(x) \in Nat
  <2>1. enrollment[e].target \in Project
    BY <1>1, <1>3 DEF RowsTyped, EnrollmentsTyped
  <2>2. EnrollInSession(enrollment[e].target, None, e) /\ IssuedDevice(x) = Len(device) + 1
    BY <1>3 DEF ExchangeCommit, IssuedDevice
  <2>3. DevicesTyped /\ CredentialsTyped /\ None \in Instants /\ e \in Instants
    BY <1>1 DEF RowsTyped, Instants
  <2>4. /\ DevicesTyped' /\ Len(device') = Len(device) + 1
        /\ DOMAIN device' = DOMAIN device \union {Len(device) + 1}
        /\ credential' \in Seq(CredentialRows)
        /\ DOMAIN credential' = DOMAIN credential \union {new}
        /\ new \notin DOMAIN credential
        /\ \A c \in DOMAIN credential : credential'[c] = credential[c]
        /\ credential'[new] = NewCredential(Len(device) + 1, None, e)
    BY <2>1, <2>2, <2>3, EnrollmentRowsAppended
  <2>5. IssuedDevice(x) \in Nat
    BY <2>2 DEF RowsTyped, DevicesTyped
  <2>6. QED
    BY <2>2, <2>4, <2>5 DEF NewCredential
<1>4. ASSUME enrollment[e].mode = "REPLACE" PROVE Issued /\ IssuedDevice(x) \in Nat
  <2>1. enrollment[e].target \in DOMAIN device /\ enrollment[e].target \in Nat
    <3>1. enrollment[e].target \in DOMAIN device
      BY <1>1, <1>4 DEF RowsTyped, EnrollmentsTyped
    <3>2. device \in Seq(DeviceRows)
      BY DEF RowsTyped, DevicesTyped
    <3>3. QED
      BY <3>1, <3>2
  <2>2. /\ RotateInSession(enrollment[e].target, ReplaceOverlap, x.now, None, e)
        /\ UNCHANGED device /\ IssuedDevice(x) = enrollment[e].target
    BY <1>4 DEF ExchangeCommit, IssuedDevice
  <2>3. CredentialsTyped /\ DevicesTyped /\ None \in Instants /\ e \in Instants /\ x.now \in Nat
       /\ ReplaceOverlap \in Nat
    BY <1>1, <1>2 DEF RowsTyped, Instants
  <2>4. /\ credential' \in Seq(CredentialRows)
        /\ DOMAIN credential' = DOMAIN credential \union {new}
        /\ new \notin DOMAIN credential
        /\ credential'[new] = NewCredential(enrollment[e].target, None, e)
        /\ \A c \in DOMAIN credential :
             credential'[c].by = credential[c].by /\ credential'[c].device = credential[c].device
    <3> DEFINE d == enrollment[e].target
    <3>1. RotateInSession(d, ReplaceOverlap, x.now, None, e) /\ d \in Nat
      BY <2>1, <2>2
    <3> HIDE DEF d, e
    <3>2. /\ credential' \in Seq(CredentialRows)
          /\ DOMAIN credential' = DOMAIN credential \union {Len(credential) + 1}
          /\ Len(credential) + 1 \notin DOMAIN credential
          /\ credential'[Len(credential) + 1] = NewCredential(d, None, e)
          /\ \A c \in DOMAIN credential :
               credential'[c].by = credential[c].by /\ credential'[c].device = credential[c].device
      <4>1. Rotated(d, ReplaceOverlap, x.now, None, e)
        BY <2>3, <3>1, RotationRows
      <4>2. QED
        BY <4>1 DEF Rotated
    <3>3. QED
      BY <3>2 DEF d
  <2>5. QED
    BY <2>1, <2>2, <2>3, <2>4 DEF NewCredential, DevicesTyped
<1>5. enrollment' = [enrollment EXCEPT ![e] = row]
  BY <1>1 DEF ExchangeCommit, Exchanged
<1>6. enrollment[e].mode \in {"NEW", "REPLACE"}
  BY <1>2 DEF EnrollmentRows
<1>7. Issued /\ IssuedDevice(x) \in Nat
  BY <1>3, <1>4, <1>6
<1>8. row \in EnrollmentRows
  <2>1. x.now \in Nat /\ x.now + VerificationTTL \in Nat
    BY <1>1, <1>2
  <2>2. enrollment[e] \in EnrollmentRows /\ IssuedDevice(x) \in Nat
    BY <1>2, <1>7
  <2>3. QED
    BY <2>1, <2>2 DEF Exchanged, EnrollmentRows, Instants
<1> HIDE DEF row
<1>9. QED
  BY <1>1, <1>5, <1>7, <1>8 DEF row

-----------------------------------------------------------------------------
(* Types *)

(* The first device and its credential. *)
LEMMA InitTyped == ASSUME Init PROVE RowsTyped
<1> DEFINE row == [project |-> CHOOSE p \in Project : TRUE, enabled |-> TRUE, seen |-> None]
<1>1. row \in DeviceRows
  BY DEF DeviceRows, Instants
<1>2. NewCredential(1, None, None) \in CredentialRows /\ NewCredential(1, None, None).device = 1
  BY DEF NewCredential, CredentialRows, Instants
<1>3. device = <<row>> /\ credential = <<NewCredential(1, None, None)>>
  BY DEF Init
<1> HIDE DEF row
<1>4. DevicesTyped /\ DOMAIN device = {1}
  BY <1>1, <1>3 DEF DevicesTyped
<1>5. CredentialsTyped
  BY <1>2, <1>3, <1>4 DEF CredentialsTyped
<1>6. RotationTyped /\ EnrollmentsTyped /\ ExchangesTyped
  BY DEF Init, EnrollmentInit, RotationTyped, EnrollmentsTyped, ExchangesTyped
<1>7. QED
  BY <1>4, <1>5, <1>6 DEF Init, RowsTyped

(* Every row has the type of its columns, a credential and a replacement name *)
(* a device that exists, and no transaction carries an instant from the       *)
(* future.                                                                    *)
THEOREM TypeCorrect == Spec => []RowsTyped
<1>1. Init => RowsTyped
  BY InitTyped
<1>2. ASSUME RowsTyped, [Next]_vars
      PROVE  RowsTyped'
  <2> USE <1>2
  <2>0. RowStep
    BY RowSteps
  <2>1. CASE UNCHANGED <<now, credentialVars, enrollmentVars>>
    BY <2>1 DEF credentialVars, enrollmentVars, RowsTyped, DevicesTyped, CredentialsTyped,
                RotationTyped, EnrollmentsTyped, ExchangesTyped
  <2>2. CASE Tick /\ UNCHANGED <<credentialVars, enrollmentVars>>
    <3>1. now' = now + 1 /\ now \in Nat /\ 0 .. now \subseteq 0 .. now'
      BY <2>2 DEF Tick, RowsTyped
    <3>2. QED
      BY <2>2, <3>1 DEF credentialVars, enrollmentVars, RowsTyped, DevicesTyped, CredentialsTyped,
                RotationTyped, EnrollmentsTyped, ExchangesTyped
  <2>3. CASE CredentialStep /\ UNCHANGED <<now, enrollmentVars>>
    <3> DEFINE Rest == EnrollmentsTyped' /\ ExchangesTyped' /\ now' \in Nat
    <3>1. DOMAIN device \subseteq DOMAIN device' => Rest
      BY <2>3 DEF enrollmentVars, RowsTyped, EnrollmentsTyped, ExchangesTyped
    <3>2. ASSUME NEW p \in Project, NEW isActive \in BOOLEAN, SetProjectActive(p, isActive)
          PROVE  RowsTyped'
      BY <2>3, <3>1, <3>2 DEF SetProjectActive, RowsTyped, DevicesTyped, CredentialsTyped, RotationTyped
    <3>3. ASSUME NEW p \in Project, NEW expires \in Expiry, Enroll(p, expires)
          PROVE  RowsTyped'
      <4>1. expires \in Instants /\ None \in Instants
        BY DEF Instants
      <4>2. DevicesTyped /\ CredentialsTyped /\ EnrollInSession(p, expires, None)
        BY <3>3 DEF Enroll, RowsTyped
      <4>3. /\ DevicesTyped' /\ DOMAIN device' = DOMAIN device \union {Len(device) + 1}
            /\ credential' \in Seq(CredentialRows)
            /\ DOMAIN credential' = DOMAIN credential \union {Len(credential) + 1}
            /\ \A c \in DOMAIN credential : credential'[c] = credential[c]
            /\ credential'[Len(credential) + 1] = NewCredential(Len(device) + 1, expires, None)
        BY <4>1, <4>2, EnrollmentRowsAppended
      <4>4. CredentialsTyped'
        BY <4>2, <4>3 DEF CredentialsTyped, NewCredential
      <4>5. RotationTyped' /\ active' \subseteq Project
        BY <2>3, <3>3, <4>3 DEF Enroll, RowsTyped, RotationTyped
      <4>6. QED
        BY <3>1, <4>3, <4>4, <4>5 DEF RowsTyped
    <3>4. ASSUME NEW d \in DOMAIN device, NEW row \in DeviceRows,
                 device' = [device EXCEPT ![d] = row], UNCHANGED <<active, credential, rotation>>
          PROVE  RowsTyped'
      <4>1. device \in Seq(DeviceRows)
        BY DEF RowsTyped, DevicesTyped
      <4>2. DOMAIN device' = DOMAIN device /\ Len(device') = Len(device) /\ device' \in Seq(DeviceRows)
        BY <3>4, <4>1, EntryReplaced
      <4>3. QED
        BY <2>3, <3>1, <3>4, <4>2 DEF RowsTyped, DevicesTyped, CredentialsTyped, RotationTyped
    <3>5. ASSUME NEW d \in DOMAIN device, NEW enabled \in BOOLEAN, SetEnabled(d, enabled)
          PROVE  RowsTyped'
      <4> DEFINE row == [device[d] EXCEPT !.enabled = enabled]
      <4>1. row \in DeviceRows
        <5>1. device[d] \in DeviceRows
          BY DEF RowsTyped, DevicesTyped
        <5>2. QED
          BY <5>1 DEF DeviceRows
      <4>2. device' = [device EXCEPT ![d] = row] /\ UNCHANGED <<active, credential, rotation>>
        BY <3>5 DEF SetEnabled
      <4> HIDE DEF row
      <4>3. QED
        BY <3>4, <4>1, <4>2
    <3>6. ASSUME NEW d \in DOMAIN device, NEW overlap \in Overlap, NEW expires \in Expiry,
                 RotateReads(d, overlap, expires)
          PROVE  RowsTyped'
      BY <2>3, <3>1, <3>6 DEF RotateReads, RowsTyped, DevicesTyped, CredentialsTyped, RotationTyped
    <3>7. ASSUME NEW c \in DOMAIN credential, Revoke(c)
          PROVE  RowsTyped'
      <4> DEFINE row == [credential[c] EXCEPT !.revoked = TRUE]
      <4>1. row \in CredentialRows /\ row.device = credential[c].device
        <5>1. credential[c] \in CredentialRows
          BY DEF RowsTyped, CredentialsTyped
        <5>2. QED
          BY <5>1 DEF CredentialRows
      <4>2. credential' = [credential EXCEPT ![c] = row]
        BY <3>7 DEF Revoke
      <4>3. credential \in Seq(CredentialRows)
        BY DEF RowsTyped, CredentialsTyped
      <4> HIDE DEF row
      <4>4. /\ credential' \in Seq(CredentialRows) /\ DOMAIN credential' = DOMAIN credential
            /\ credential'[c] = row
            /\ \A i \in DOMAIN credential : i # c => credential'[i] = credential[i]
        BY <4>1, <4>2, <4>3, EntryReplaced
      <4>5. CredentialsTyped'
        BY <3>7, <4>1, <4>4 DEF Revoke, RowsTyped, CredentialsTyped
      <4>6. QED
        BY <2>3, <3>1, <3>7, <4>5 DEF Revoke, RowsTyped, DevicesTyped, RotationTyped
    <3>8. CASE Rotate
      <4>1. RotationTyped' /\ DevicesTyped' /\ Rest /\ active' \subseteq Project
        BY <2>3, <3>1, <3>8 DEF Rotate, RowsTyped, DevicesTyped, RotationTyped
      <4>2. CASE UNCHANGED credential
        BY <2>3, <3>8, <4>1, <4>2 DEF Rotate, RowsTyped, CredentialsTyped
      <4>3. CASE RotateInSession(rotation.device, rotation.overlap, rotation.now, rotation.expires, None)
        <5> DEFINE d == rotation.device
        <5>1. /\ d \in DOMAIN device /\ d \in Nat /\ rotation.overlap \in Nat /\ rotation.now \in Nat
              /\ rotation.expires \in Instants /\ None \in Instants /\ CredentialsTyped
          <6>1. rotation \in [device : DOMAIN device, overlap : Overlap, expires : Expiry, now : 0 .. now]
            BY <3>8 DEF Rotate, RowsTyped, RotationTyped
          <6>2. now \in Nat /\ device \in Seq(DeviceRows) /\ CredentialsTyped
            BY DEF RowsTyped, DevicesTyped
          <6>3. d \in DOMAIN device /\ rotation.overlap \in Overlap /\ rotation.expires \in Expiry
                /\ rotation.now \in 0 .. now
            BY <6>1
          <6>4. rotation.overlap \in Nat /\ rotation.expires \in Instants /\ None \in Instants
            BY <6>3 DEF Instants
          <6>5. d \in Nat /\ rotation.now \in Nat
            BY <6>2, <6>3
          <6>6. QED
            BY <6>2, <6>3, <6>4, <6>5
        <5>2. Rotated(d, rotation.overlap, rotation.now, rotation.expires, None)
          BY <4>3, <5>1, RotationRows
        <5>3. CredentialsTyped'
          BY <3>8, <5>1, <5>2 DEF Rotate, Rotated, NewCredential, CredentialsTyped
        <5>4. QED
          BY <4>1, <5>3 DEF RowsTyped
      <4>4. QED
        BY <3>8, <4>2, <4>3 DEF Rotate
    <3>9. ASSUME NEW request \in requests, Heard(request.device)
          PROVE  RowsTyped'
      <4> DEFINE d == request.device
                 row == [device[d] EXCEPT !.seen = now]
      <4>1. CASE d \in DOMAIN device
        <5>1. row \in DeviceRows
          <6>1. device[d] \in DeviceRows /\ now \in Nat
            BY <4>1 DEF RowsTyped, DevicesTyped
          <6>2. QED
            BY <6>1 DEF DeviceRows, Instants
        <5>2. device' = [device EXCEPT ![d] = row] /\ UNCHANGED <<active, credential, rotation>>
          BY <3>9 DEF Heard
        <5> HIDE DEF d, row
        <5>3. QED
          BY <3>4, <4>1, <5>1, <5>2
      <4>2. CASE d \notin DOMAIN device
        <5>1. device \in Seq(DeviceRows)
          BY DEF RowsTyped, DevicesTyped
        <5>2. device' = device
          BY <3>9, <4>2, <5>1 DEF Heard
        <5>3. UNCHANGED <<active, credential, rotation>> /\ now' = now
          BY <2>3, <3>9 DEF Heard
        <5>4. active' \subseteq Project /\ DevicesTyped' /\ CredentialsTyped' /\ RotationTyped'
          BY <5>2, <5>3 DEF RowsTyped, DevicesTyped, CredentialsTyped, RotationTyped
        <5>5. Rest
          BY <3>1, <5>2
        <5>6. QED
          BY <5>4, <5>5 DEF RowsTyped
      <4>3. QED
        BY <4>1, <4>2
    <3>10. QED
      BY <2>3, <3>2, <3>3, <3>5, <3>6, <3>7, <3>8, <3>9 DEF CredentialStep
  <2>4. CASE EnrollmentStep /\ UNCHANGED <<now, credentialVars>>
    <3> USE <2>4 DEF credentialVars
    <3>1. /\ DevicesTyped' /\ CredentialsTyped' /\ RotationTyped' /\ now' \in Nat
          /\ active' \subseteq Project
      BY DEF RowsTyped, DevicesTyped, CredentialsTyped, RotationTyped
    <3>2. ASSUME NEW mode \in {"NEW", "REPLACE"}, NEW target,
                 \/ mode = "NEW" /\ target \in Project
                 \/ mode = "REPLACE" /\ target \in DOMAIN device,
                 CreateIntent(mode, target)
          PROVE  RowsTyped'
      <4>1. enrollment \in Seq(EnrollmentRows) /\ now + EnrollmentTTL \in Nat
        BY DEF RowsTyped, EnrollmentsTyped
      <4>2. target \in Project \union Nat
        BY <3>2 DEF RowsTyped, DevicesTyped
      <4>3. NewEnrollment(mode, target) \in EnrollmentRows
        BY <4>1, <4>2 DEF NewEnrollment, EnrollmentRows, Instants
      <4>4. enrollment' = Append(enrollment, NewEnrollment(mode, target)) /\ UNCHANGED exchanges
        BY <3>2 DEF CreateIntent
      <4>5. /\ enrollment' \in Seq(EnrollmentRows)
            /\ DOMAIN enrollment' = DOMAIN enrollment \union {Len(enrollment) + 1}
            /\ \A e \in DOMAIN enrollment : enrollment'[e] = enrollment[e]
            /\ enrollment'[Len(enrollment) + 1] = NewEnrollment(mode, target)
        BY <4>1, <4>3, <4>4, EntryAppended
      <4>6. /\ NewEnrollment(mode, target).mode = mode
            /\ NewEnrollment(mode, target).target = target
        BY DEF NewEnrollment
      <4>7. EnrollmentsTyped' /\ ExchangesTyped'
        BY <3>2, <4>4, <4>5, <4>6 DEF RowsTyped, EnrollmentsTyped, ExchangesTyped
      <4>8. QED
        BY <3>1, <4>7 DEF RowsTyped
    <3>3. ASSUME NEW e \in DOMAIN enrollment, RevokeUnused(e) \/ DeleteUnused(e)
          PROVE  RowsTyped'
      <4>1. PICK end \in Nat, deleted \in BOOLEAN :
              /\ enrollment' = [enrollment EXCEPT ![e] = Ended(enrollment[e], end, deleted)]
              /\ Ended(enrollment[e], end, deleted) \in EnrollmentRows
        BY <3>3, EndedRows DEF RowsTyped
      <4> DEFINE row == Ended(enrollment[e], end, deleted)
      <4>2. row.mode = enrollment[e].mode /\ row.target = enrollment[e].target
        BY DEF RowsTyped, EnrollmentsTyped, EnrollmentRows, Ended
      <4>3. enrollment \in Seq(EnrollmentRows)
        BY DEF RowsTyped, EnrollmentsTyped
      <4> HIDE DEF row
      <4>4. /\ enrollment' \in Seq(EnrollmentRows) /\ DOMAIN enrollment' = DOMAIN enrollment
            /\ enrollment'[e] = row
            /\ \A i \in DOMAIN enrollment : i # e => enrollment'[i] = enrollment[i]
        BY <4>1, <4>3, EntryReplaced DEF row
      <4>5. UNCHANGED exchanges
        BY <3>3 DEF RevokeUnused, DeleteUnused
      <4>6. EnrollmentsTyped' /\ ExchangesTyped'
        BY <4>2, <4>4, <4>5 DEF RowsTyped, EnrollmentsTyped, ExchangesTyped
      <4>7. QED
        BY <3>1, <4>6 DEF RowsTyped
    <3>4. ASSUME NEW h \in Host, NEW e \in DOMAIN enrollment, ExchangeBegin(e, h, ExpectedDevice(h))
          PROVE  RowsTyped'
      <4>1. EnrollmentsTyped' /\ ExchangesTyped'
        BY <3>4 DEF ExchangeBegin, RowsTyped, EnrollmentsTyped, ExchangesTyped
      <4>2. QED
        BY <3>1, <4>1 DEF RowsTyped
    <3>5. QED
      BY <2>4, <3>2, <3>3, <3>4 DEF EnrollmentStep
  <2>5. ASSUME NEW x \in exchanges, ExchangeCommit(x), UNCHANGED now
        PROVE  RowsTyped'
    <3> DEFINE e == x.enrollment
               new == Len(credential) + 1
               row == Exchanged(enrollment[e], x.now, IssuedDevice(x))
    <3>1. /\ e \in DOMAIN enrollment
          /\ enrollment' = [enrollment EXCEPT ![e] = row] /\ row \in EnrollmentRows
          /\ DevicesTyped' /\ DOMAIN device \subseteq DOMAIN device'
          /\ credential' \in Seq(CredentialRows) /\ new \notin DOMAIN credential
          /\ DOMAIN credential' = DOMAIN credential \union {new}
          /\ credential'[new].device = IssuedDevice(x)
          /\ IssuedDevice(x) \in DOMAIN device'
          /\ \A c \in DOMAIN credential : credential'[c].device = credential[c].device
      BY <2>5, CommittedRows
    <3>2. row.mode = enrollment[e].mode /\ row.target = enrollment[e].target
      BY <3>1 DEF RowsTyped, EnrollmentsTyped, EnrollmentRows, Exchanged
    <3>3. enrollment \in Seq(EnrollmentRows)
      BY DEF RowsTyped, EnrollmentsTyped
    <3>4. UNCHANGED <<active, rotation>> /\ exchanges' \subseteq exchanges
      BY <2>5 DEF ExchangeCommit
    <3> HIDE DEF row, e
    <3>5. /\ enrollment' \in Seq(EnrollmentRows) /\ DOMAIN enrollment' = DOMAIN enrollment
          /\ enrollment'[e] = row
          /\ \A i \in DOMAIN enrollment : i # e => enrollment'[i] = enrollment[i]
      BY <3>1, <3>3, EntryReplaced
    <3>6. CredentialsTyped'
      BY <3>1 DEF RowsTyped, CredentialsTyped
    <3>7. EnrollmentsTyped'
      BY <3>1, <3>2, <3>5 DEF RowsTyped, EnrollmentsTyped
    <3>8. ExchangesTyped' /\ RotationTyped'
      BY <2>5, <3>1, <3>4, <3>5 DEF RowsTyped, ExchangesTyped, RotationTyped
    <3>9. QED
      BY <2>5, <3>1, <3>4, <3>6, <3>7, <3>8 DEF RowsTyped
  <2>6. ASSUME NEW x \in exchanges, ExchangeAborts(x), UNCHANGED now
        PROVE  RowsTyped'
    BY <2>6 DEF ExchangeAborts, credentialVars, RowsTyped, DevicesTyped, CredentialsTyped,
                RotationTyped, EnrollmentsTyped, ExchangesTyped
  <2>7. QED
    BY <2>0, <2>1, <2>2, <2>3, <2>4, <2>5, <2>6 DEF RowStep
<1>3. QED
  BY <1>1, <1>2, PTL DEF Spec

-----------------------------------------------------------------------------
(* Tokens *)

(* Nothing is issued for an enrolment, and what was issued remains. *)
IssuedAsBefore ==
  /\ DOMAIN credential \subseteq DOMAIN credential'
  /\ \A c \in DOMAIN credential :
       credential'[c].by = credential[c].by /\ credential'[c].device = credential[c].device
  /\ \A c \in DOMAIN credential' \ DOMAIN credential : credential'[c].by = None

LEMMA NothingIssued == ASSUME RowsTyped, CredentialStep PROVE IssuedAsBefore
<1>1. ASSUME UNCHANGED credential PROVE IssuedAsBefore
  BY <1>1 DEF IssuedAsBefore
<1>2. ASSUME NEW p \in Project, NEW expires \in Expiry, Enroll(p, expires)
      PROVE  IssuedAsBefore
  <2>1. expires \in Instants /\ None \in Instants
    BY DEF Instants
  <2>2. DevicesTyped /\ CredentialsTyped /\ EnrollInSession(p, expires, None)
    BY <1>2 DEF Enroll, RowsTyped
  <2>3. /\ DOMAIN credential' = DOMAIN credential \union {Len(credential) + 1}
        /\ \A c \in DOMAIN credential : credential'[c] = credential[c]
        /\ credential'[Len(credential) + 1] = NewCredential(Len(device) + 1, expires, None)
    BY <2>1, <2>2, EnrollmentRowsAppended
  <2>4. QED
    BY <2>3 DEF IssuedAsBefore, NewCredential
<1>3. ASSUME NEW c \in DOMAIN credential, Revoke(c)
      PROVE  IssuedAsBefore
  <2> DEFINE row == [credential[c] EXCEPT !.revoked = TRUE]
  <2>1. credential \in Seq(CredentialRows) /\ credential[c] \in CredentialRows
    BY DEF RowsTyped, CredentialsTyped
  <2>2. row \in CredentialRows /\ row.device = credential[c].device /\ row.by = credential[c].by
    BY <2>1 DEF CredentialRows
  <2>3. credential' = [credential EXCEPT ![c] = row]
    BY <1>3 DEF Revoke
  <2> HIDE DEF row
  <2>4. /\ DOMAIN credential' = DOMAIN credential /\ credential'[c] = row
        /\ \A i \in DOMAIN credential : i # c => credential'[i] = credential[i]
    BY <2>1, <2>2, <2>3, EntryReplaced
  <2>5. QED
    BY <2>2, <2>4 DEF IssuedAsBefore
<1>4. CASE Rotate
  <2>1. CASE UNCHANGED credential
    BY <1>1, <2>1
  <2>2. CASE RotateInSession(rotation.device, rotation.overlap, rotation.now, rotation.expires, None)
    <3>1. rotation \in [device : DOMAIN device, overlap : Overlap, expires : Expiry, now : 0 .. now]
      BY <1>4 DEF Rotate, RowsTyped, RotationTyped
    <3>2. now \in Nat /\ device \in Seq(DeviceRows) /\ CredentialsTyped
      BY DEF RowsTyped, DevicesTyped
    <3>3. /\ rotation.device \in DOMAIN device /\ rotation.overlap \in Overlap
          /\ rotation.expires \in Expiry /\ rotation.now \in 0 .. now
      BY <3>1
    <3>4. rotation.overlap \in Nat /\ rotation.expires \in Instants /\ None \in Instants
      BY <3>3 DEF Instants
    <3>5. rotation.device \in Nat /\ rotation.now \in Nat
      BY <3>2, <3>3
    <3>6. Rotated(rotation.device, rotation.overlap, rotation.now, rotation.expires, None)
      BY <2>2, <3>2, <3>4, <3>5, RotationRows
    <3>7. QED
      BY <3>6 DEF Rotated, NewCredential, IssuedAsBefore
  <2>3. QED
    BY <1>4, <2>1, <2>2 DEF Rotate
<1>5. QED
  BY <1>1, <1>2, <1>3, <1>4 DEF CredentialStep, SetProjectActive, SetEnabled, RotateReads, Heard

(* Then each token has issued what it had. *)
LEMMA SameIssued ==
  ASSUME IssuedAsBefore, NEW e \in Nat
  PROVE  IssuedFor(e)' = IssuedFor(e)
BY DEF IssuedAsBefore, IssuedFor

(* How the invariant follows from what a step does to the enrolments. *)
LEMMA TokenStep ==
  ASSUME RowsTyped, RowsTyped', TokenInv, RowStep
  PROVE  TokenInv'
<1> USE DEF TokenInv
<1>0. /\ enrollment \in Seq(EnrollmentRows) /\ now \in Nat
      /\ \A e \in DOMAIN enrollment : e \in Nat /\ enrollment[e] \in EnrollmentRows
  BY DEF RowsTyped, EnrollmentsTyped
<1>1. CASE UNCHANGED <<now, credentialVars, enrollmentVars>>
  BY <1>1 DEF credentialVars, enrollmentVars, ExchangesHoldUsable, UsedInTime, RevokedHaveExpired,
              IssuedOnUse, IssuedFor
<1>2. CASE Tick /\ UNCHANGED <<credentialVars, enrollmentVars>>
  <2>1. now' = now + 1
    BY <1>2 DEF Tick
  <2>2. RevokedHaveExpired'
    <3>1. UNCHANGED enrollment /\ \A e \in DOMAIN enrollment : enrollment[e].expires \in Nat
      BY <1>0, <1>2 DEF enrollmentVars, EnrollmentRows
    <3>2. QED
      BY <1>0, <2>1, <3>1 DEF RevokedHaveExpired
  <2>3. QED
    BY <1>2, <2>2 DEF credentialVars, enrollmentVars, ExchangesHoldUsable, UsedInTime,
              IssuedOnUse, IssuedFor
<1>3. CASE CredentialStep /\ UNCHANGED <<now, enrollmentVars>>
  <2>1. IssuedAsBefore
    BY <1>3, NothingIssued
  <2>2. \A e \in DOMAIN enrollment : IssuedFor(e)' = IssuedFor(e)
    BY <1>0, <2>1, SameIssued
  <2>3. IssuedOnUse'
    BY <1>3, <2>1, <2>2 DEF enrollmentVars, IssuedOnUse, IssuedAsBefore
  <2>4. QED
    BY <1>3, <2>3 DEF enrollmentVars, ExchangesHoldUsable, UsedInTime, RevokedHaveExpired
<1>4. CASE EnrollmentStep /\ UNCHANGED <<now, credentialVars>>
  <2>0. /\ UNCHANGED <<now, credential>>
        /\ \A e : IssuedFor(e)' = IssuedFor(e)
    BY <1>4 DEF credentialVars, IssuedFor
  <2>1. ASSUME NEW mode \in {"NEW", "REPLACE"}, NEW target \in Project \union Nat,
               CreateIntent(mode, target)
        PROVE  TokenInv'
    <3> DEFINE new == Len(enrollment) + 1
               row == NewEnrollment(mode, target)
    <3>1. row \in EnrollmentRows
      <4>1. now + EnrollmentTTL \in Nat
        BY <1>0
      <4>2. QED
        BY <4>1 DEF NewEnrollment, EnrollmentRows, Instants
    <3>2. enrollment' = Append(enrollment, row) /\ UNCHANGED exchanges
      BY <2>1 DEF CreateIntent
    <3>3. row.used = None /\ ~ row.revoked
      BY DEF NewEnrollment
    <3> HIDE DEF row
    <3>4. /\ DOMAIN enrollment' = DOMAIN enrollment \union {new} /\ new \notin DOMAIN enrollment
          /\ \A e \in DOMAIN enrollment : enrollment'[e] = enrollment[e]
          /\ enrollment'[new] = row
      BY <1>0, <3>1, <3>2, EntryAppended
    <3>5. IssuedFor(new) = {}
      <4>1. new # None
        BY <1>0
      <4>2. QED
        BY <3>4, <4>1 DEF IssuedOnUse, IssuedFor
    <3> HIDE DEF new
    <3>6. ExchangesHoldUsable'
      BY <3>2, <3>4 DEF ExchangesHoldUsable, RowsTyped, ExchangesTyped
    <3>7. UsedInTime' /\ RevokedHaveExpired'
      BY <2>0, <3>3, <3>4 DEF UsedInTime, RevokedHaveExpired
    <3>8. IssuedOnUse'
      BY <2>0, <3>3, <3>4, <3>5 DEF IssuedOnUse
    <3>9. QED
      BY <3>6, <3>7, <3>8
  <2>2. ASSUME NEW e \in DOMAIN enrollment, RevokeUnused(e) \/ DeleteUnused(e)
        PROVE  TokenInv'
    <3>1. PICK end \in Nat, deleted \in BOOLEAN :
            /\ end <= now /\ enrollment[e].used = None
            /\ enrollment' = [enrollment EXCEPT ![e] = Ended(enrollment[e], end, deleted)]
            /\ Ended(enrollment[e], end, deleted) \in EnrollmentRows
      BY <2>2, EndedRows DEF RowsTyped
    <3> DEFINE row == Ended(enrollment[e], end, deleted)
    <3>2. row.used = None /\ row.expires = end /\ row.expires <= now
      BY <1>0, <3>1 DEF EnrollmentRows, Ended
    <3> HIDE DEF row
    <3>3. /\ DOMAIN enrollment' = DOMAIN enrollment /\ enrollment'[e] = row
          /\ \A i \in DOMAIN enrollment : i # e => enrollment'[i] = enrollment[i]
      BY <1>0, <3>1, EntryReplaced DEF row
    <3>4. UNCHANGED exchanges /\ \A x \in exchanges : x.enrollment # e
      BY <2>2 DEF RevokeUnused, DeleteUnused, Unlocked
    <3>5. ExchangesHoldUsable'
      BY <3>3, <3>4 DEF ExchangesHoldUsable, RowsTyped, ExchangesTyped
    <3>6. UsedInTime' /\ RevokedHaveExpired'
      BY <2>0, <3>2, <3>3 DEF UsedInTime, RevokedHaveExpired
    <3>7. IssuedOnUse'
      BY <2>0, <3>1, <3>2, <3>3 DEF IssuedOnUse
    <3>8. QED
      BY <3>5, <3>6, <3>7
  <2>3. ASSUME NEW h \in Host, NEW e \in DOMAIN enrollment, ExchangeBegin(e, h, ExpectedDevice(h))
        PROVE  TokenInv'
    <3> DEFINE x == [enrollment |-> e, host |-> h, now |-> now]
    <3>1. UNCHANGED enrollment /\ exchanges' = exchanges \union {x}
      BY <2>3 DEF ExchangeBegin
    <3>2. \A y \in exchanges : y.enrollment # e
      BY <2>3 DEF ExchangeBegin, Unlocked
    <3>3. enrollment[e].used = None /\ now < enrollment[e].expires
      BY <1>0, <2>3 DEF ExchangeBegin, Usable, EnrollmentRows
    <3>4. ~ enrollment[e].revoked
      <4>1. enrollment[e].expires \in Nat
        BY <1>0 DEF EnrollmentRows
      <4>2. QED
        BY <1>0, <3>3, <4>1 DEF RevokedHaveExpired
    <3>5. x.enrollment = e /\ x.now = now
      OBVIOUS
    <3> HIDE DEF x
    <3>6. ExchangesHoldUsable'
      BY <3>1, <3>2, <3>3, <3>4, <3>5 DEF ExchangesHoldUsable
    <3>7. QED
      BY <2>0, <3>1, <3>6 DEF UsedInTime, RevokedHaveExpired, IssuedOnUse
  <2>4. QED
    <3>1. \A d \in DOMAIN device : d \in Project \union Nat
      BY DEF RowsTyped, DevicesTyped
    <3>2. QED
      BY <1>4, <2>1, <2>2, <2>3, <3>1 DEF EnrollmentStep
<1>5. ASSUME NEW x \in exchanges, ExchangeCommit(x), UNCHANGED now
      PROVE  TokenInv'
  <2> DEFINE e == x.enrollment
             new == Len(credential) + 1
             row == Exchanged(enrollment[e], x.now, IssuedDevice(x))
  <2>1. /\ e \in DOMAIN enrollment /\ x.now \in 0 .. now
        /\ enrollment' = [enrollment EXCEPT ![e] = row] /\ row \in EnrollmentRows
        /\ new \notin DOMAIN credential
        /\ DOMAIN credential' = DOMAIN credential \union {new}
        /\ credential'[new].by = e /\ credential'[new].device = IssuedDevice(x)
        /\ \A c \in DOMAIN credential :
             credential'[c].by = credential[c].by /\ credential'[c].device = credential[c].device
    BY <1>5, CommittedRows
  <2>2. /\ row.used = x.now /\ row.issued = IssuedDevice(x)
        /\ row.revoked = enrollment[e].revoked /\ row.expires = enrollment[e].expires
    BY <1>0, <2>1 DEF EnrollmentRows, Exchanged
  <2>3. x.now # None
    BY <1>0, <2>1
  <2>4. exchanges' = exchanges \ {x}
    BY <1>5 DEF ExchangeCommit
  <2>5. /\ enrollment[e].used = None /\ ~ enrollment[e].revoked /\ x.now < enrollment[e].expires
        /\ \A y \in exchanges \ {x} : y.enrollment # e
    BY DEF ExchangesHoldUsable
  <2> HIDE DEF row, e
  <2>6. /\ DOMAIN enrollment' = DOMAIN enrollment /\ enrollment'[e] = row
        /\ \A i \in DOMAIN enrollment : i # e => enrollment'[i] = enrollment[i]
    BY <1>0, <2>1, EntryReplaced
  <2>7. IssuedFor(e)' = {new}
    <3>1. IssuedFor(e) = {}
      BY <2>1, <2>5 DEF IssuedOnUse
    <3>2. QED
      BY <2>1, <3>1 DEF IssuedFor
  <2>8. \A i \in DOMAIN enrollment \ {e} : IssuedFor(i)' = IssuedFor(i)
    BY <2>1 DEF IssuedFor
  <2> HIDE DEF new
  <2>9. ExchangesHoldUsable'
    BY <2>4, <2>5, <2>6 DEF ExchangesHoldUsable, RowsTyped, ExchangesTyped
  <2>10. UsedInTime' /\ RevokedHaveExpired'
    BY <1>5, <2>2, <2>5, <2>6 DEF UsedInTime, RevokedHaveExpired
  <2>11. IssuedOnUse'
    <3>1. ASSUME NEW i \in DOMAIN enrollment
          PROVE  /\ enrollment'[i].used = None => IssuedFor(i)' = {}
                 /\ enrollment'[i].used # None =>
                      \E c \in DOMAIN credential' :
                        IssuedFor(i)' = {c} /\ credential'[c].device = enrollment'[i].issued
      <4>1. CASE i = e
        BY <2>1, <2>2, <2>3, <2>6, <2>7, <4>1
      <4>2. CASE i # e
        BY <2>1, <2>6, <2>8, <4>2 DEF IssuedOnUse
      <4>3. QED
        BY <4>1, <4>2
    <3>2. \A c \in DOMAIN credential' : credential'[c].by # None => credential'[c].by \in DOMAIN enrollment
      BY <2>1 DEF IssuedOnUse
    <3>3. QED
      BY <2>6, <3>1, <3>2 DEF IssuedOnUse
  <2>12. QED
    BY <2>9, <2>10, <2>11
<1>6. ASSUME NEW x \in exchanges, ExchangeAborts(x), UNCHANGED now
      PROVE  TokenInv'
  BY <1>6 DEF ExchangeAborts, credentialVars, ExchangesHoldUsable, UsedInTime, RevokedHaveExpired,
              IssuedOnUse, IssuedFor
<1>7. QED
  BY <1>1, <1>2, <1>3, <1>4, <1>5, <1>6 DEF RowStep

LEMMA TokenInvariance == Spec => []TokenInv
<1>1. Init => TokenInv
  <2> SUFFICES ASSUME Init PROVE ExchangesHoldUsable /\ UsedInTime /\ RevokedHaveExpired /\ IssuedOnUse
    BY InitTyped DEF TokenInv
  <2>1. enrollment = <<>> /\ exchanges = {} /\ credential = <<NewCredential(1, None, None)>>
    BY DEF Init, EnrollmentInit
  <2>2. QED
    BY <2>1 DEF ExchangesHoldUsable, UsedInTime, RevokedHaveExpired, IssuedOnUse, NewCredential
<1>2. RowsTyped /\ RowsTyped' /\ TokenInv /\ [Next]_vars => TokenInv'
  BY RowSteps, TokenStep
<1>3. QED
  BY <1>1, <1>2, TypeCorrect, PTL DEF Spec

(* A token issues one credential, for the device it names, before it expires; *)
(* revoked or deleted it issues none, although an exchange commits after a    *)
(* wait, with the instant it read before.                                     *)
THEOREM Tokens == Spec => []TokensIssueOnce
<1>1. ASSUME TokenInv
      PROVE  TokensIssueOnce
  <2> SUFFICES ASSUME NEW e \in DOMAIN enrollment
               PROVE  LET issued == IssuedFor(e)
                      IN /\ Cardinality(issued) <= 1
                         /\ enrollment[e].revoked => issued = {}
                         /\ issued # {} <=> EnrollmentStatus(e) \in {"ENROLLED", "ONLINE"}
                         /\ issued # {} => enrollment[e].used < enrollment[e].expires
                         /\ \A c \in issued : credential[c].device = enrollment[e].issued
                         /\ e \in ToInstall => issued = {}
    BY DEF TokensIssueOnce, IssuedFor
  <2>1. EnrollmentStatus(e) \in {"ENROLLED", "ONLINE"} <=> enrollment[e].used # None
    BY DEF EnrollmentStatus
  <2>2. e \in ToInstall => enrollment[e].used = None
    BY DEF ToInstall
  <2>3. CASE enrollment[e].used = None
    <3>1. IssuedFor(e) = {}
      BY <1>1, <2>3 DEF TokenInv, IssuedOnUse
    <3>2. Cardinality(IssuedFor(e)) = 0
      BY <3>1, FS_EmptySet
    <3>3. QED
      BY <2>1, <2>3, <3>1, <3>2
  <2>4. CASE enrollment[e].used # None
    <3>1. PICK c \in DOMAIN credential :
            IssuedFor(e) = {c} /\ credential[c].device = enrollment[e].issued
      BY <1>1, <2>4 DEF TokenInv, IssuedOnUse
    <3>2. Cardinality(IssuedFor(e)) = 1
      BY <3>1, FS_Singleton
    <3>3. ~ enrollment[e].revoked /\ enrollment[e].used < enrollment[e].expires
      BY <1>1, <2>4 DEF TokenInv, UsedInTime
    <3>4. QED
      BY <2>1, <2>2, <2>4, <3>1, <3>2, <3>3
  <2>5. QED
    BY <2>3, <2>4
<1>2. QED
  BY <1>1, TokenInvariance, PTL

-----------------------------------------------------------------------------
(* Lasting credentials *)

Overlaps == Overlap \union {ReplaceOverlap}
Longest(overlap) == \A o \in Overlaps : o <= overlap

LEMMA OverlapsAreNat == Overlaps \subseteq Nat
<1>1. ReplaceOverlap \in Nat /\ Overlap \subseteq Nat
  OBVIOUS
<1>2. QED
  BY <1>1 DEF Overlaps

(* LiveCredentials and OneLastingCredential, of any rows at any instant.      *)
LiveRows(rows, d, time) ==
  {c \in DOMAIN rows : rows[c].device = d /\ ~ rows[c].revoked
                       /\ (rows[c].expires = None \/ rows[c].expires > time)}
OneLasts(rows, d, time) ==
  /\ Cardinality(LiveRows(rows, d, time)) <= 2
  /\ \A overlap \in Overlaps :
       Longest(overlap) => Cardinality(LiveRows(rows, d, time + overlap)) <= 1

LEMMA LiveCredentialsAreLiveRows ==
  /\ \A d, time : LiveCredentials(d, time) = LiveRows(credential, d, time)
  /\ OneLastingCredential <=> \A d \in DOMAIN device : OneLasts(credential, d, now)
  /\ OneLastingCredential' <=> \A d \in DOMAIN device' : OneLasts(credential', d, now')
<1>1. \A d, time : LiveCredentials(d, time) = LiveRows(credential, d, time)
  BY DEF LiveCredentials, CredentialsOf, LiveAt, LiveRows
<1>2. OneLastingCredential <=> \A d \in DOMAIN device : OneLasts(credential, d, now)
  BY DEF LiveCredentials, CredentialsOf, LiveAt, LiveRows, OneLastingCredential, OneLasts, Overlaps, Longest
<1>3. OneLastingCredential' <=> \A d \in DOMAIN device' : OneLasts(credential', d, now')
  BY DEF LiveCredentials, CredentialsOf, LiveAt, LiveRows, OneLastingCredential, OneLasts, Overlaps, Longest
<1>4. QED
  BY <1>1, <1>2, <1>3

(* There are finitely many, and no more later than sooner. *)
LEMMA FewerLater ==
  ASSUME NEW rows \in Seq(CredentialRows), NEW d, NEW t1 \in Nat, NEW t2 \in Nat, t1 <= t2
  PROVE  /\ IsFiniteSet(LiveRows(rows, d, t1)) /\ Cardinality(LiveRows(rows, d, t1)) \in Nat
         /\ LiveRows(rows, d, t2) \subseteq LiveRows(rows, d, t1)
<1>1. DOMAIN rows = 1 .. Len(rows) /\ Len(rows) \in Nat
  OBVIOUS
<1>2. IsFiniteSet(DOMAIN rows)
  BY <1>1, FS_Interval
<1>3. LiveRows(rows, d, t1) \subseteq DOMAIN rows
  BY DEF LiveRows
<1>4. IsFiniteSet(LiveRows(rows, d, t1))
  BY <1>2, <1>3, FS_Subset
<1>5. \A c \in DOMAIN rows : rows[c].expires \in Nat \union {None}
  <2>1. \A c \in DOMAIN rows : rows[c] \in CredentialRows
    OBVIOUS
  <2>2. QED
    BY <2>1 DEF CredentialRows, Instants
<1>6. LiveRows(rows, d, t2) \subseteq LiveRows(rows, d, t1)
  BY <1>5 DEF LiveRows
<1>7. QED
  BY <1>4, <1>6, FS_CardinalityType

(* The bounds are kept when credentials end or time passes. *)
LEMMA FewerLast ==
  ASSUME NEW rows \in Seq(CredentialRows), NEW later \in Seq(CredentialRows), NEW d,
         NEW t1 \in Nat, NEW t2 \in Nat, t1 <= t2, OneLasts(rows, d, t1),
         \A t \in Nat : LiveRows(later, d, t) \subseteq LiveRows(rows, d, t)
  PROVE  OneLasts(later, d, t2)
<1>1. \A o \in Overlaps : o \in Nat
  BY OverlapsAreNat
<1>2. ASSUME NEW u1 \in Nat, NEW u2 \in Nat, u1 <= u2
      PROVE  /\ Cardinality(LiveRows(later, d, u2)) <= Cardinality(LiveRows(rows, d, u1))
             /\ Cardinality(LiveRows(later, d, u2)) \in Nat
             /\ Cardinality(LiveRows(rows, d, u1)) \in Nat
  <2>1. /\ IsFiniteSet(LiveRows(rows, d, u1)) /\ Cardinality(LiveRows(rows, d, u1)) \in Nat
        /\ LiveRows(rows, d, u2) \subseteq LiveRows(rows, d, u1)
    BY <1>2, FewerLater
  <2>2. LiveRows(later, d, u2) \subseteq LiveRows(rows, d, u1)
    BY <2>1
  <2>3. Cardinality(LiveRows(later, d, u2)) \in Nat
    BY FewerLater
  <2>4. QED
    BY <2>1, <2>2, <2>3, FS_Subset
<1>3. Cardinality(LiveRows(later, d, t2)) <= 2
  <2>1. Cardinality(LiveRows(rows, d, t1)) <= 2
    BY DEF OneLasts
  <2>2. /\ Cardinality(LiveRows(later, d, t2)) <= Cardinality(LiveRows(rows, d, t1))
        /\ Cardinality(LiveRows(later, d, t2)) \in Nat
        /\ Cardinality(LiveRows(rows, d, t1)) \in Nat
    BY <1>2
  <2>3. QED
    BY <2>1, <2>2
<1>4. ASSUME NEW o \in Overlaps, Longest(o)
      PROVE  Cardinality(LiveRows(later, d, t2 + o)) <= 1
  <2>1. t1 + o \in Nat /\ t2 + o \in Nat /\ t1 + o <= t2 + o
    <3>1. o \in Nat
      BY <1>1
    <3>2. QED
      BY <3>1
  <2>2. Cardinality(LiveRows(rows, d, t1 + o)) <= 1
    BY <1>4 DEF OneLasts
  <2>3. /\ Cardinality(LiveRows(later, d, t2 + o)) <= Cardinality(LiveRows(rows, d, t1 + o))
        /\ Cardinality(LiveRows(later, d, t2 + o)) \in Nat
        /\ Cardinality(LiveRows(rows, d, t1 + o)) \in Nat
    BY <1>2, <2>1
  <2>4. QED
    BY <2>2, <2>3
<1>5. QED
  BY <1>3, <1>4 DEF OneLasts

(* They hold of a device whose live credentials are one at most. *)
LEMMA OneIsFew ==
  ASSUME NEW rows \in Seq(CredentialRows), NEW d, NEW time \in Nat, NEW c,
         LiveRows(rows, d, time) \subseteq {c}
  PROVE  OneLasts(rows, d, time)
<1>1. \A o \in Overlaps : time + o \in Nat /\ time <= time + o
  BY OverlapsAreNat
<1>2. ASSUME NEW S, S \subseteq {c}
      PROVE  Cardinality(S) <= 1 /\ Cardinality(S) <= 2
  <2>1. IsFiniteSet({c}) /\ Cardinality({c}) = 1
    BY FS_Singleton
  <2>2. Cardinality(S) \in Nat /\ Cardinality(S) <= 1
    BY <1>2, <2>1, FS_Subset, FS_CardinalityType
  <2>3. QED
    BY <2>2
<1>3. \A o \in Overlaps : LiveRows(rows, d, time + o) \subseteq LiveRows(rows, d, time)
  BY <1>1, FewerLater
<1>4. QED
  BY <1>2, <1>3 DEF OneLasts

(* A rotation, at an instant that may have passed, of a device that had one    *)
(* live credential at most by then.                                           *)
LEMMA RotationLasts ==
  ASSUME CredentialsTyped, now \in Nat, NEW d \in Nat, NEW overlap \in Overlaps,
         NEW time \in 0 .. now, NEW expires \in Instants, NEW by \in Instants,
         RotateAllowed(d, time), RotateInSession(d, overlap, time, expires, by)
  PROVE  /\ OneLasts(credential', d, now)
         /\ \A other \in Nat : other # d =>
              \A t \in Nat : LiveRows(credential', other, t) \subseteq LiveRows(credential, other, t)
<1> DEFINE new == Len(credential) + 1
           before == LiveRows(credential, d, time)
<1>1. overlap \in Nat /\ time \in Nat /\ time <= now
  BY OverlapsAreNat
<1>2. Rotated(d, overlap, time, expires, by)
  BY <1>1, RotationRows
<1>3. LiveCredentials(d, time) = before
  BY LiveCredentialsAreLiveRows
<1>4. credential \in Seq(CredentialRows) /\ credential' \in Seq(CredentialRows)
  BY <1>2 DEF CredentialsTyped, Rotated
<1>5. IsFiniteSet(before) /\ Cardinality(before) \in Nat /\ Cardinality(before) < 2
  <2>1. IsFiniteSet(before) /\ Cardinality(before) \in Nat
    BY <1>1, <1>4, FewerLater
  <2>2. QED
    BY <1>3, <2>1 DEF RotateAllowed
<1>6. \A c \in DOMAIN credential' : credential'[c].expires \in Nat \union {None}
  <2>1. \A c \in DOMAIN credential' : credential'[c] \in CredentialRows
    BY <1>4
  <2>2. QED
    BY <2>1 DEF CredentialRows, Instants
<1>7. LiveRows(credential', d, now) \subseteq before \union {new}
  <2>1. ASSUME NEW c \in LiveRows(credential', d, now), c # new
        PROVE  c \in before
    <3>1. c \in DOMAIN credential /\ credential'[c].device = d /\ ~ credential'[c].revoked
      BY <1>2, <2>1 DEF LiveRows, Rotated
    <3>2. CASE c \notin before
      <4>1. credential'[c] = credential[c]
        BY <1>2, <1>3, <3>1, <3>2 DEF Rotated
      <4>2. c \in LiveRows(credential, d, now)
        BY <2>1, <3>1, <4>1 DEF LiveRows
      <4>3. QED
        BY <1>1, <1>4, <4>2, FewerLater
    <3>3. QED
      BY <3>2
  <2>2. QED
    BY <2>1
<1>8. ASSUME NEW o \in Overlaps, Longest(o)
      PROVE  LiveRows(credential', d, now + o) \subseteq {new}
  <2>0. o \in Nat /\ now + o \in Nat /\ overlap <= o /\ time + overlap <= now + o /\ time <= now + o
    <3>1. o \in Nat /\ overlap <= o
      BY <1>8, OverlapsAreNat DEF Longest
    <3>2. QED
      BY <1>1, <3>1
  <2>1. ASSUME NEW c \in LiveRows(credential', d, now + o), c # new
        PROVE  FALSE
    <3>1. /\ c \in DOMAIN credential /\ credential'[c].device = d /\ ~ credential'[c].revoked
          /\ credential'[c].expires = None \/ credential'[c].expires > now + o
      BY <1>2, <2>1 DEF LiveRows, Rotated
    <3>2. CASE c \in before
      <4>1. credential'[c].expires # None /\ credential'[c].expires <= time + overlap
        BY <1>2, <1>3, <3>1, <3>2 DEF Rotated
      <4>2. credential'[c].expires \in Nat
        BY <1>6, <2>1, <4>1 DEF LiveRows
      <4>3. QED
        BY <1>1, <2>0, <3>1, <4>1, <4>2
    <3>3. CASE c \notin before
      <4>1. credential'[c] = credential[c]
        BY <1>2, <1>3, <3>1, <3>3 DEF Rotated
      <4>2. c \in LiveRows(credential, d, now + o)
        BY <2>1, <3>1, <4>1 DEF LiveRows
      <4>3. QED
        BY <1>1, <1>4, <2>0, <3>3, <4>2, FewerLater
    <3>4. QED
      BY <3>2, <3>3
  <2>2. QED
    BY <2>1
<1>9. Cardinality(LiveRows(credential', d, now)) <= 2
  <2>1. /\ IsFiniteSet(before \union {new})
        /\ Cardinality(before \union {new}) \in Nat /\ Cardinality(before \union {new}) <= 2
    <3>1. /\ IsFiniteSet(before \union {new})
          /\ \/ Cardinality(before \union {new}) = Cardinality(before)
             \/ Cardinality(before \union {new}) = Cardinality(before) + 1
      BY <1>5, FS_AddElement
    <3> HIDE DEF before, new
    <3>2. QED
      BY <1>5, <3>1
  <2>2. Cardinality(LiveRows(credential', d, now)) \in Nat
    BY <1>4, FewerLater
  <2>3. Cardinality(LiveRows(credential', d, now)) <= Cardinality(before \union {new})
    BY <1>7, <2>1, FS_Subset
  <2>4. QED
    BY <2>1, <2>2, <2>3
<1>10. ASSUME NEW o \in Overlaps, Longest(o)
       PROVE  Cardinality(LiveRows(credential', d, now + o)) <= 1
  <2>1. IsFiniteSet({new}) /\ Cardinality({new}) = 1
    BY FS_Singleton
  <2>2. QED
    BY <1>8, <1>10, <2>1, FS_Subset
<1>11. ASSUME NEW other \in Nat, other # d, NEW t \in Nat
       PROVE  LiveRows(credential', other, t) \subseteq LiveRows(credential, other, t)
  <2>1. credential'[new].device = d
    BY <1>2 DEF Rotated, NewCredential
  <2>2. ASSUME NEW c \in LiveRows(credential', other, t)
        PROVE  c \in LiveRows(credential, other, t)
    <3>1. c \in DOMAIN credential /\ credential[c].device = other
      BY <1>2, <1>11, <2>1, <2>2 DEF LiveRows, Rotated
    <3>2. c \notin LiveCredentials(d, time)
      BY <1>11, <3>1 DEF LiveCredentials, CredentialsOf
    <3>3. credential'[c] = credential[c]
      BY <1>2, <3>1, <3>2 DEF Rotated
    <3>4. QED
      BY <2>2, <3>1, <3>3 DEF LiveRows
  <2>3. QED
    BY <2>2
<1>12. QED
  BY <1>9, <1>10, <1>11 DEF OneLasts

(* A device that is enrolled has the credential it is enrolled with.           *)
LEMMA FirstCredentialLasts ==
  ASSUME DevicesTyped, CredentialsTyped, now \in Nat, NEW p \in Project, NEW expires \in Instants,
         NEW by \in Instants, EnrollInSession(p, expires, by),
         \A d \in DOMAIN device : OneLasts(credential, d, now)
  PROVE  \A d \in DOMAIN device' : OneLasts(credential', d, now)
<1> DEFINE first == Len(device) + 1
           new == Len(credential) + 1
<1>1. /\ DOMAIN device' = DOMAIN device \union {first} /\ first \notin DOMAIN device
      /\ credential' \in Seq(CredentialRows)
      /\ DOMAIN credential' = DOMAIN credential \union {new}
      /\ \A c \in DOMAIN credential : credential'[c] = credential[c]
      /\ credential'[new] = NewCredential(first, expires, by)
  BY EnrollmentRowsAppended
<1>2. credential'[new].device = first
  BY <1>1 DEF NewCredential
<1>3. credential \in Seq(CredentialRows) /\ \A c \in DOMAIN credential : credential[c].device # first
  BY <1>1 DEF CredentialsTyped
<1> HIDE DEF first, new
<1>4. LiveRows(credential', first, now) \subseteq {new}
  BY <1>1, <1>3 DEF LiveRows
<1>5. OneLasts(credential', first, now)
  BY <1>1, <1>4, OneIsFew
<1>6. ASSUME NEW d \in DOMAIN device
      PROVE  OneLasts(credential', d, now)
  <2>1. \A t \in Nat : LiveRows(credential', d, t) \subseteq LiveRows(credential, d, t)
    BY <1>1, <1>2 DEF LiveRows
  <2>2. QED
    BY <1>1, <1>3, <2>1, FewerLast
<1>7. QED
  BY <1>1, <1>5, <1>6

(* A device has at most two live credentials, and one that outlasts the       *)
(* overlap of a rotation, although a rotation and an exchange decide with the *)
(* clock they read before they waited.                                        *)
THEOREM LastingCredential == Spec => []OneLastingCredential
<1>1. Init => OneLastingCredential
  <2> SUFFICES ASSUME Init PROVE OneLastingCredential
    OBVIOUS
  <2>1. RowsTyped
    BY InitTyped
  <2>2. credential \in Seq(CredentialRows) /\ now \in Nat /\ DOMAIN credential \subseteq {1}
    BY <2>1 DEF Init, RowsTyped, CredentialsTyped
  <2>3. \A d : LiveRows(credential, d, now) \subseteq {1}
    BY <2>2 DEF LiveRows
  <2>4. \A d \in DOMAIN device : OneLasts(credential, d, now)
    BY <2>2, <2>3, OneIsFew
  <2>5. QED
    BY <2>4, LiveCredentialsAreLiveRows
<1>2. ASSUME RowsTyped, RowsTyped', OneLastingCredential, [Next]_vars
      PROVE  OneLastingCredential'
  <2> USE <1>2
  <2>0. /\ RowStep /\ now \in Nat /\ now' \in Nat
        /\ credential \in Seq(CredentialRows) /\ credential' \in Seq(CredentialRows)
        /\ DevicesTyped /\ CredentialsTyped
        /\ \A d \in DOMAIN device : OneLasts(credential, d, now)
    BY RowSteps, LiveCredentialsAreLiveRows DEF RowsTyped, CredentialsTyped
  <2>1. SUFFICES \A d \in DOMAIN device' : OneLasts(credential', d, now')
    BY LiveCredentialsAreLiveRows
  <2>2. ASSUME now <= now', DOMAIN device' = DOMAIN device,
               \A d, t : LiveRows(credential', d, t) \subseteq LiveRows(credential, d, t)
        PROVE  \A d \in DOMAIN device' : OneLasts(credential', d, now')
    BY <2>0, <2>2, FewerLast
  <2>3. ASSUME NEW d \in DOMAIN device, NEW overlap \in Overlaps, NEW time \in 0 .. now,
               NEW expires \in Instants, NEW by \in Instants, RotateAllowed(d, time),
               RotateInSession(d, overlap, time, expires, by), UNCHANGED <<now, device>>
        PROVE  \A other \in DOMAIN device' : OneLasts(credential', other, now')
    <3>1. \A other \in DOMAIN device : other \in Nat
      BY <2>0 DEF DevicesTyped
    <3>2. /\ OneLasts(credential', d, now)
          /\ \A other \in Nat : other # d =>
               \A t \in Nat : LiveRows(credential', other, t) \subseteq LiveRows(credential, other, t)
      BY <2>0, <2>3, <3>1, RotationLasts
    <3>3. \A other \in DOMAIN device : other # d => OneLasts(credential', other, now)
      BY <2>0, <3>1, <3>2, FewerLast
    <3>4. QED
      BY <2>3, <3>2, <3>3
  <2>4. CASE UNCHANGED <<now, credentialVars, enrollmentVars>>
    BY <2>0, <2>4 DEF credentialVars
  <2>5. CASE Tick /\ UNCHANGED <<credentialVars, enrollmentVars>>
    <3>1. now' = now + 1 /\ UNCHANGED <<device, credential>>
      BY <2>5 DEF Tick, credentialVars
    <3>2. QED
      BY <2>0, <2>2, <3>1
  <2>6. CASE CredentialStep /\ UNCHANGED <<now, enrollmentVars>>
    <3>1. ASSUME UNCHANGED credential, DOMAIN device' = DOMAIN device
          PROVE  \A d \in DOMAIN device' : OneLasts(credential', d, now')
      BY <2>0, <2>6, <3>1
    <3>2. ASSUME NEW p \in Project, NEW expires \in Expiry, Enroll(p, expires)
          PROVE  \A d \in DOMAIN device' : OneLasts(credential', d, now')
      <4>1. expires \in Instants /\ None \in Instants
        BY DEF Instants
      <4>2. EnrollInSession(p, expires, None)
        BY <3>2 DEF Enroll
      <4>3. \A d \in DOMAIN device' : OneLasts(credential', d, now)
        BY <2>0, <4>1, <4>2, FirstCredentialLasts
      <4>4. QED
        BY <2>6, <4>3
    <3>3. ASSUME NEW c \in DOMAIN credential, Revoke(c)
          PROVE  \A d \in DOMAIN device' : OneLasts(credential', d, now')
      <4> DEFINE row == [credential[c] EXCEPT !.revoked = TRUE]
      <4>1. row \in CredentialRows /\ row.revoked
        <5>1. credential[c] \in CredentialRows
          BY <2>0
        <5>2. QED
          BY <5>1 DEF CredentialRows
      <4>2. credential' = [credential EXCEPT ![c] = row] /\ UNCHANGED device
        BY <3>3 DEF Revoke
      <4> HIDE DEF row
      <4>3. /\ DOMAIN credential' = DOMAIN credential /\ credential'[c] = row
            /\ \A i \in DOMAIN credential : i # c => credential'[i] = credential[i]
        BY <2>0, <4>1, <4>2, EntryReplaced
      <4>4. \A d, t : LiveRows(credential', d, t) \subseteq LiveRows(credential, d, t)
        BY <4>1, <4>3 DEF LiveRows
      <4>5. now <= now' /\ DOMAIN device' = DOMAIN device
        BY <2>0, <2>6, <4>2
      <4>6. QED
        BY <2>2, <4>4, <4>5
    <3>4. CASE Rotate
      <4>1. CASE UNCHANGED credential
        BY <3>1, <3>4, <4>1 DEF Rotate
      <4>2. CASE /\ RotateAllowed(rotation.device, rotation.now)
                 /\ RotateInSession(rotation.device, rotation.overlap, rotation.now,
                                    rotation.expires, None)
        <5>1. rotation \in [device : DOMAIN device, overlap : Overlap, expires : Expiry, now : 0 .. now]
          BY <3>4 DEF Rotate, RowsTyped, RotationTyped
        <5>2. /\ rotation.device \in DOMAIN device /\ rotation.overlap \in Overlap
              /\ rotation.expires \in Expiry /\ rotation.now \in 0 .. now
          BY <5>1
        <5>3. rotation.overlap \in Overlaps /\ rotation.expires \in Instants /\ None \in Instants
          BY <5>2 DEF Instants, Overlaps
        <5>4. UNCHANGED <<now, device>>
          BY <2>6, <3>4 DEF Rotate
        <5>5. QED
          BY <2>3, <4>2, <5>2, <5>3, <5>4
      <4>3. QED
        BY <3>4, <4>1, <4>2 DEF Rotate
    <3>5. ASSUME NEW d, NEW row, device' = [device EXCEPT ![d] = row]
          PROVE  DOMAIN device' = DOMAIN device
      BY <3>5
    <3>6. QED
      BY <2>6, <3>1, <3>2, <3>3, <3>4, <3>5
         DEF CredentialStep, SetProjectActive, SetEnabled, RotateReads, Heard
  <2>7. CASE EnrollmentStep /\ UNCHANGED <<now, credentialVars>>
    BY <2>0, <2>7 DEF credentialVars
  <2>8. ASSUME NEW x \in exchanges, ExchangeCommit(x), UNCHANGED now
        PROVE  \A d \in DOMAIN device' : OneLasts(credential', d, now')
    <3> DEFINE e == x.enrollment
    <3>1. e \in DOMAIN enrollment /\ x.now \in 0 .. now
      BY DEF RowsTyped, ExchangesTyped
    <3>2. /\ enrollment[e].mode \in {"NEW", "REPLACE"}
          /\ enrollment[e].mode = "NEW" => enrollment[e].target \in Project
          /\ enrollment[e].mode = "REPLACE" => enrollment[e].target \in DOMAIN device
      <4>1. enrollment[e] \in EnrollmentRows
        BY <3>1 DEF RowsTyped, EnrollmentsTyped
      <4>2. QED
        BY <3>1, <4>1 DEF RowsTyped, EnrollmentsTyped, EnrollmentRows
    <3>3. e \in Instants /\ None \in Instants
      BY <3>1 DEF RowsTyped, EnrollmentsTyped, Instants
    <3>4. CASE enrollment[e].mode = "NEW"
      <4>1. EnrollInSession(enrollment[e].target, None, e)
        BY <2>8, <3>4 DEF ExchangeCommit
      <4>2. \A d \in DOMAIN device' : OneLasts(credential', d, now)
        BY <2>0, <3>2, <3>3, <3>4, <4>1, FirstCredentialLasts
      <4>3. QED
        BY <2>8, <4>2
    <3>5. CASE enrollment[e].mode = "REPLACE"
      <4>1. /\ RotateInSession(enrollment[e].target, ReplaceOverlap, x.now, None, e)
            /\ RotateAllowed(enrollment[e].target, x.now) /\ UNCHANGED device
        BY <2>8, <3>5 DEF ExchangeCommit, ExchangeAllowed
      <4>2. ReplaceOverlap \in Overlaps
        BY DEF Overlaps
      <4>3. QED
        BY <2>3, <2>8, <3>1, <3>2, <3>3, <3>5, <4>1, <4>2
    <3>6. QED
      BY <3>2, <3>4, <3>5
  <2>9. ASSUME NEW x \in exchanges, ExchangeAborts(x), UNCHANGED now
        PROVE  \A d \in DOMAIN device' : OneLasts(credential', d, now')
    BY <2>0, <2>9 DEF ExchangeAborts, credentialVars
  <2>10. QED
    BY <2>0, <2>4, <2>5, <2>6, <2>7, <2>8, <2>9 DEF RowStep
<1>3. QED
  BY <1>1, <1>2, TypeCorrect, PTL DEF Spec

-----------------------------------------------------------------------------
(* Heartbeats *)

(* What the other operations do to the rows of devices: nothing, a new row, or *)
(* monitoring enabled or disabled.                                            *)
SeenKept ==
  \/ UNCHANGED device
  \/ \E p \in Project, expires \in Instants, by \in Instants : EnrollInSession(p, expires, by)
  \/ \E d, enabled : device' = [device EXCEPT ![d].enabled = enabled]

(* A heartbeat that is answered, or fails, may have been counted and heard of, *)
(* both only if all that is asked of it before was in order.                  *)
MaybeCounted(request) ==
  /\ requests' = requests \ {request}
  /\ \/ UNCHANGED <<recent, device>>
     \/ /\ Status(request) = 200
        /\ recent' = [recent EXCEPT ![request.device] = @ + 1]
        /\ device' = device \/ device' = [device EXCEPT ![request.device].seen = now]

LEMMA HeardSteps ==
  ASSUME RowsTyped, [Next]_vars
  PROVE  \/ UNCHANGED recent /\ SeenKept
         \/ LimiterForgets
         \/ \E request \in requests : MaybeCounted(request)
<1> DEFINE Goal == \/ UNCHANGED recent /\ SeenKept
                   \/ LimiterForgets
                   \/ \E request \in requests : MaybeCounted(request)
<1>1. CASE Operator
  <2>1. UNCHANGED recent
    BY <1>1 DEF Operator, endpointVars
  <2>2. CASE UNCHANGED credentialVars
    BY <2>1, <2>2 DEF credentialVars, SeenKept
  <2>3. ASSUME NEW p \in Project, NEW expires \in Expiry, Enroll(p, expires)
        PROVE  Goal
    BY <2>1, <2>3 DEF Enroll, SeenKept, Instants
  <2>4. ASSUME NEW d \in DOMAIN device, NEW enabled \in BOOLEAN, SetEnabled(d, enabled)
        PROVE  Goal
    BY <2>1, <2>4, Zenon DEF SetEnabled, SeenKept
  <2>5. ASSUME UNCHANGED device
        PROVE  Goal
    BY <2>1, <2>5 DEF SeenKept
  <2>6. QED
    BY <1>1, <2>2, <2>3, <2>4, <2>5 DEF Operator, SetProjectActive, RotateReads, Revoke
<1>2. CASE RotationEnds \/ TimePasses
  BY <1>2 DEF RotationEnds, TimePasses, Rotate, SeenKept, endpointVars, credentialVars
<1>3. CASE Installer
  <2>1. ASSUME NEW h \in Host, NEW e \in DOMAIN enrollment, ExchangeStarts(h, e)
        PROVE  Goal
    BY <2>1 DEF ExchangeStarts, SeenKept, endpointVars, credentialVars
  <2>2. ASSUME NEW x \in exchanges, ExchangeEnds(x)
        PROVE  Goal
    <3>1. UNCHANGED recent /\ (ExchangeCommit(x) \/ ExchangeAborts(x))
      BY <2>2 DEF ExchangeEnds, endpointVars
    <3>2. CASE ExchangeAborts(x)
      BY <3>1, <3>2 DEF ExchangeAborts, SeenKept, credentialVars
    <3>3. CASE ExchangeCommit(x)
      <4>1. \/ enrollment[x.enrollment].mode = "NEW" /\ enrollment[x.enrollment].target \in active
               /\ EnrollInSession(enrollment[x.enrollment].target, None, x.enrollment)
            \/ UNCHANGED device
        BY <3>3 DEF ExchangeCommit, ExchangeAllowed, EnrollAllowed
      <4>2. active \subseteq Project /\ x.enrollment \in Instants /\ None \in Instants
        BY DEF RowsTyped, ExchangesTyped, EnrollmentsTyped, Instants
      <4>3. QED
        BY <3>1, <4>1, <4>2 DEF SeenKept
    <3>4. QED
      BY <3>1, <3>2, <3>3
  <2>3. ASSUME NEW h \in Host, AgentSwitched(h) \/ ReceiptAsked(h) \/ PollingEnds(h)
        PROVE  Goal
    BY <2>3 DEF AgentSwitched, ReceiptAsked, PollingEnds, SeenKept, endpointVars, credentialVars
  <2>4. QED
    BY <1>3, <2>1, <2>2, <2>3 DEF Installer
<1>4. ASSUME NEW request \in requests,
             CredentialRead(request) \/ HeartbeatAnswered(request) \/ HeartbeatFails(request)
      PROVE  Goal
  <2>1. CASE CredentialRead(request)
    BY <2>1 DEF CredentialRead, ServerUnchanged, SeenKept, credentialVars
  <2>2. CASE HeartbeatAnswered(request)
    <3>1. MaybeCounted(request)
      BY <2>2 DEF HeartbeatAnswered, Answer, MaybeCounted
    <3>2. QED
      BY <3>1
  <2>3. CASE HeartbeatFails(request)
    <3>1. MaybeCounted(request)
      BY <2>3 DEF HeartbeatFails, MaybeCounted, credentialVars
    <3>2. QED
      BY <3>1
  <2>4. QED
    BY <1>4, <2>1, <2>2, <2>3
<1>5. ASSUME NEW h \in Host,
             (\E beat \in Beat : HeartbeatSent(h, beat)) \/ AttemptFails(h) \/ SendGivenUp(h)
      PROVE  Goal
  BY <1>5 DEF HeartbeatSent, AttemptFails, SendGivenUp, ServerUnchanged, SeenKept, credentialVars
<1>6. CASE UNCHANGED vars
  BY <1>6 DEF vars, SeenKept, endpointVars, credentialVars
<1>7. QED
  BY <1>1, <1>2, <1>3, <1>4, <1>5, <1>6 DEF Next, Server

(* The limiter counts the heartbeats of every device there may be. *)
LEMMA LimiterCounts == Spec => []LimiterTyped
<1>1. Init => LimiterTyped
  BY DEF Init, LimiterTyped
<1>2. ASSUME RowsTyped, LimiterTyped, [Next]_vars
      PROVE  LimiterTyped'
  <2> USE <1>2
  <2>1. CASE UNCHANGED recent
    BY <2>1 DEF LimiterTyped
  <2>2. CASE LimiterForgets
    BY <2>2 DEF LimiterForgets, LimiterTyped
  <2>3. ASSUME NEW request \in requests, MaybeCounted(request)
        PROVE  LimiterTyped'
    <3>1. UNCHANGED recent \/ recent' = [recent EXCEPT ![request.device] = @ + 1]
      BY <2>3 DEF MaybeCounted
    <3>2. CASE UNCHANGED recent
      BY <3>2 DEF LimiterTyped
    <3>3. CASE recent' = [recent EXCEPT ![request.device] = @ + 1]
      <4>1. \A d \in 1 .. MaxDevices : recent[d] + 1 \in Nat
        BY DEF LimiterTyped
      <4>2. QED
        BY <3>3, <4>1 DEF LimiterTyped
    <3>4. QED
      BY <3>1, <3>2, <3>3
  <2>4. QED
    BY <2>1, <2>2, <2>3, HeardSteps
<1>3. QED
  BY <1>1, <1>2, TypeCorrect, PTL DEF Spec

(* A heartbeat is counted, and its device heard of, only as the answer to a    *)
(* request of that device whose credential is live and whose device is enabled *)
(* in that very step, whatever became of them while the request waited.       *)
THEOREM AuthorisedHeartbeats == Spec => HeartbeatsAreAuthorised
<1> DEFINE Authorised ==
      \A d \in DOMAIN device :
        recent'[d] > recent[d] \/ device'[d].seen # device[d].seen =>
          \E request \in requests \ requests' : request.device = d /\ Entitled(request.credential)
<1>1. ASSUME RowsTyped, LimiterTyped, [Next]_vars
      PROVE  Authorised
  <2> USE <1>1
  <2> SUFFICES ASSUME NEW d \in DOMAIN device,
                      recent'[d] > recent[d] \/ device'[d].seen # device[d].seen
               PROVE  \E request \in requests \ requests' :
                        request.device = d /\ Entitled(request.credential)
    OBVIOUS
  <2>0. d \in DOMAIN recent /\ recent[d] \in Nat /\ device \in Seq(DeviceRows)
    <3>1. device \in Seq(DeviceRows) /\ Len(device) <= MaxDevices /\ MaxDevices \in Nat
      BY DEF RowsTyped, DevicesTyped
    <3>2. d \in 1 .. MaxDevices
      BY <3>1
    <3>3. QED
      BY <3>1, <3>2 DEF LimiterTyped
  <2>1. CASE UNCHANGED recent /\ SeenKept
    <3>1. ~ (recent'[d] > recent[d])
      BY <2>0, <2>1
    <3>2. device'[d].seen = device[d].seen
      <4>1. ASSUME NEW p \in Project, NEW expires \in Instants, NEW by \in Instants,
                   EnrollInSession(p, expires, by)
            PROVE  device'[d].seen = device[d].seen
        <5>1. DevicesTyped /\ CredentialsTyped
          BY DEF RowsTyped
        <5>2. \A i \in DOMAIN device : device'[i] = device[i]
          BY <4>1, <5>1, EnrollmentRowsAppended
        <5>3. QED
          BY <5>2
      <4>2. ASSUME NEW i, NEW enabled, device' = [device EXCEPT ![i].enabled = enabled]
            PROVE  device'[d].seen = device[d].seen
        <5>1. device[d] \in DeviceRows
          BY <2>0
        <5>2. CASE i = d
          <6>1. device'[d] = [device[d] EXCEPT !.enabled = enabled]
            BY <4>2, <5>2
          <6>2. QED
            BY <5>1, <6>1 DEF DeviceRows
        <5>3. CASE i # d
          BY <4>2, <5>3
        <5>4. QED
          BY <5>2, <5>3
      <4>3. QED
        BY <2>1, <4>1, <4>2 DEF SeenKept
    <3>3. QED
      BY <3>1, <3>2
  <2>2. CASE LimiterForgets
    <3>1. UNCHANGED device
      BY <2>2 DEF LimiterForgets, credentialVars
    <3>2. ~ (recent'[d] > recent[d])
      BY <2>0, <2>2 DEF LimiterForgets, LimiterTyped
    <3>3. QED
      BY <3>1, <3>2
  <2>3. ASSUME NEW request \in requests, MaybeCounted(request)
        PROVE  \E r \in requests \ requests' : r.device = d /\ Entitled(r.credential)
    <3>1. requests' = requests \ {request}
      BY <2>3 DEF MaybeCounted
    <3>2. CASE UNCHANGED <<recent, device>>
      BY <2>0, <3>2
    <3>3. CASE Status(request) = 200 /\ ~ UNCHANGED <<recent, device>>
      <4>1. Authenticated(request) /\ credential[request.credential].device = request.device
        BY <3>3 DEF Status
      <4>2. Entitled(request.credential)
        BY <4>1 DEF Authenticated, Entitled
      <4>3. /\ recent' = [recent EXCEPT ![request.device] = @ + 1]
            /\ device' = device \/ device' = [device EXCEPT ![request.device].seen = now]
        BY <2>3, <3>3 DEF MaybeCounted
      <4>4. request.device = d
        <5>1. CASE request.device # d
          <6>1. recent'[d] = recent[d] /\ device'[d] = device[d]
            BY <2>0, <4>3, <5>1
          <6>2. QED
            BY <2>0, <6>1
        <5>2. QED
          BY <5>1
      <4>5. QED
        BY <3>1, <4>2, <4>4
    <3>4. QED
      BY <2>3, <3>2, <3>3 DEF MaybeCounted
  <2>4. QED
    BY <2>1, <2>2, <2>3, HeardSteps
<1>2. RowsTyped /\ LimiterTyped /\ [Next]_vars => [Authorised]_vars
  BY <1>1
<1>3. QED
  BY <1>2, TypeCorrect, LimiterCounts, PTL DEF Spec, HeartbeatsAreAuthorised
=============================================================================
