------------------------------ MODULE Credentials ------------------------------
(***************************************************************************)
(* Projects, devices and their bearer credentials:                         *)
(* server/app/devices/service.py, as the operators' command line and the   *)
(* dashboard call it. Every change of a device or its credentials happens  *)
(* under the device's row lock; a rotation reads the clock before it waits *)
(* for that lock, so its instant may be old by the time it has it.         *)
(*                                                                         *)
(* A device and a credential are named by their positions, in the order in *)
(* which they were created. A token is taken for the credential whose      *)
(* digest it has. The clock counts units of at least the limiters' minute. *)
(***************************************************************************)
EXTENDS Naturals, Sequences, FiniteSets

CONSTANTS
  Project,         \* the projects there are
  Overlap,         \* the overlaps an operator may ask of a rotation
  Expiry,          \* the expiries an operator may give a credential, None for none
  MaxTime,         \* bound: the clock
  MaxDevices,      \* bound: devices
  MaxCredentials,  \* bound: credentials
  None

ASSUME OverlapIsPositive == Overlap \subseteq Nat \ {0} /\ Expiry \subseteq Nat \union {None}
ASSUME NoneIsNoInstant == None \notin Nat
ASSUME DevicesAreCounted == MaxDevices \in Nat \ {0}

VARIABLES
  now,          \* database_utc
  active,       \* the projects with is_active
  device,       \* Device rows: project, monitoring_enabled, last_seen_at
  credential,   \* DeviceCredential rows: device, expires_at, revoked_at # NULL
  rotation      \* the rotation that waits for its device's lock, None without one

credentialVars == <<active, device, credential, rotation>>

CredentialsInit ==
  /\ now = 0 /\ active = Project
  /\ device = <<>> /\ credential = <<>> /\ rotation = None

Tick == now < MaxTime /\ now' = now + 1

\* Neither revoked nor expired at an instant.
LiveAt(c, time) ==
  /\ ~credential[c].revoked
  /\ credential[c].expires = None \/ credential[c].expires > time
CredentialsOf(d) == {c \in DOMAIN credential : credential[c].device = d}
LiveCredentials(d, time) == {c \in CredentialsOf(d) : LiveAt(c, time)}

\* _expiry: in the future.
ExpiryAllowed(expires, time) == expires # None => expires > time

\* _credential: by is the enrolment it is issued for, which the audit records.
NewCredential(d, expires, by) == [device |-> d, expires |-> expires, revoked |-> FALSE, by |-> by]

(***************************************************************************)
(* The pieces that callers use in transactions of their own.               *)
(***************************************************************************)
\* enroll_in_session
EnrollAllowed(p) == p \in active
EnrollInSession(p, expires, by) ==
  /\ Len(device) < MaxDevices /\ Len(credential) < MaxCredentials
  /\ device' = Append(device, [project |-> p, enabled |-> TRUE, seen |-> None])
  /\ credential' = Append(credential, NewCredential(Len(device) + 1, expires, by))

\* rotate_in_session: at most one other credential, which ends with the overlap.
Earlier(expires, end) == IF expires = None \/ expires > end THEN end ELSE expires
\* Mutant: a third credential is issued.
RotateAllowedOnceMore(d, time) == Cardinality(LiveCredentials(d, time)) <= 2

RotateAllowed(d, time) == Cardinality(LiveCredentials(d, time)) < 2
Shortened(d, time, end) ==
  [c \in DOMAIN credential |->
    IF c \in LiveCredentials(d, time)
    THEN [credential[c] EXCEPT !.expires = Earlier(@, end)] ELSE credential[c]]
RotateInSession(d, overlap, time, expires, by) ==
  /\ Len(credential) < MaxCredentials
  /\ credential' = Append(Shortened(d, time, time + overlap), NewCredential(d, expires, by))

(***************************************************************************)
(* Operations of operators.                                                *)
(***************************************************************************)
\* update_project
SetProjectActive(p, isActive) ==
  /\ isActive # (p \in active)
  /\ active' = IF isActive THEN active \union {p} ELSE active \ {p}
  /\ UNCHANGED <<device, credential, rotation>>

Enroll(p, expires) ==
  /\ EnrollAllowed(p) /\ ExpiryAllowed(expires, now) /\ EnrollInSession(p, expires, None)
  /\ UNCHANGED <<active, rotation>>

SetEnabled(d, enabled) ==
  /\ device[d].enabled # enabled
  /\ device' = [device EXCEPT ![d].enabled = enabled]
  /\ UNCHANGED <<active, credential, rotation>>

\* rotate: the clock first, then the lock and the rest.
RotateReads(d, overlap, expires) ==
  /\ rotation = None /\ ExpiryAllowed(expires, now)
  /\ rotation' = [device |-> d, overlap |-> overlap, expires |-> expires, now |-> now]
  /\ UNCHANGED <<active, device, credential>>

Rotate ==
  /\ rotation # None /\ rotation' = None
  /\ IF RotateAllowed(rotation.device, rotation.now)
     THEN RotateInSession(rotation.device, rotation.overlap, rotation.now, rotation.expires, None)
     ELSE UNCHANGED credential
  /\ UNCHANGED <<active, device>>

Revoke(c) ==
  /\ ~credential[c].revoked
  /\ credential' = [credential EXCEPT ![c].revoked = TRUE]
  /\ UNCHANGED <<active, device, rotation>>

(***************************************************************************)
(* authenticate_token. The credential is read to find its device, the      *)
(* device is locked, and the credential is read again under the lock.      *)
(***************************************************************************)
\* Mutant: the row that was read before the lock is not read again.
AuthenticatedBeforeTheLock(request) ==
  device[request.row.device].enabled /\ ~request.row.revoked

\* A request holds its credential and the row that was read first.
Authenticated(request) ==
  device[credential[request.credential].device].enabled /\ LiveAt(request.credential, now)
=============================================================================
