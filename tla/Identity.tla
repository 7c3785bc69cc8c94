------------------------------- MODULE Identity -------------------------------
(***************************************************************************)
(* Who may speak for a device: operators that prepare enrolments, rotate   *)
(* and revoke credentials and disable devices (Credentials, Enrollment);   *)
(* installers that exchange tokens on hosts (install-agent.sh); the agents *)
(* of those hosts (AgentSender); and the server's heartbeat endpoint,      *)
(* api/heartbeats.py with heartbeats/service.py, up to the decision to     *)
(* accept. What an accepted heartbeat does to availability and incidents   *)
(* is in Availability and GPUHealth.                                       *)
(*                                                                         *)
(* An answer to an exchange may be lost after it was committed; an attempt *)
(* at a heartbeat may be lost, its answer may be lost, and the server may  *)
(* act on it after the agent has given it up or the host has another       *)
(* credential.                                                             *)
(***************************************************************************)
EXTENDS Enrollment

CONSTANTS
  Host, Beat, MaxAttempts,   \* see AgentSender
  OldHost,                   \* the host whose agent is configured in the beginning
  DeviceLimit,               \* heartbeats of a device within a minute
  MaxOperations,             \* bound: operations of operators
  MaxFaults                  \* bound: messages lost, deadlines passed

ASSUME ProjectsExist == Project # {}

VARIABLES
  config, sender,   \* see AgentSender
  installer,        \* what install-agent.sh does on each host
  requests,         \* heartbeats the server has yet to answer: with the row it has read
  receipts,         \* HeartbeatReceipt rows of heartbeats that are still about
  recent,           \* PerDeviceRateLimiter: events of each device
  operations, faults

Agent == INSTANCE AgentSender

agentVars == <<config, sender>>
endpointVars == <<requests, receipts, recent>>
vars == <<now, credentialVars, enrollmentVars, agentVars, endpointVars, installer, operations, faults>>

NotInstalling == [phase |-> "none", enrollment |-> None]

\* One device, enrolled by hand, whose agent runs on OldHost.
Init ==
  /\ now = 0 /\ active = Project /\ rotation = None
  /\ device = <<[project |-> CHOOSE p \in Project : TRUE, enabled |-> TRUE, seen |-> None]>>
  /\ credential = <<NewCredential(1, None, None)>>
  /\ EnrollmentInit
  /\ Agent!SenderInit([h \in Host |-> IF h = OldHost THEN 1 ELSE None])
  /\ installer = [h \in Host |-> NotInstalling]
  /\ requests = {} /\ receipts = {}
  /\ recent = [d \in 1..MaxDevices |-> 0]
  /\ operations = 0 /\ faults = 0

Fault == faults < MaxFaults /\ faults' = faults + 1

\* Receipts that no request and no further attempt can ask for are left out.
StillAbout(rows) ==
  {row \in rows : \/ sender'[row.host].beat = row.beat
                 \/ \E r \in requests' : r.host = row.host /\ r.beat = row.beat}

(***************************************************************************)
(* Operators and the clock.                                                *)
(***************************************************************************)
Operator ==
  /\ operations < MaxOperations /\ operations' = operations + 1
  /\ \/ /\ \/ \E p \in Project, isActive \in BOOLEAN : SetProjectActive(p, isActive)
           \/ \E p \in Project, expires \in Expiry : Enroll(p, expires)
           \/ \E d \in DOMAIN device, enabled \in BOOLEAN : SetEnabled(d, enabled)
           \/ \E d \in DOMAIN device, overlap \in Overlap, expires \in Expiry :
                RotateReads(d, overlap, expires)
           \/ \E c \in DOMAIN credential : Revoke(c)
        /\ UNCHANGED enrollmentVars
     \/ /\ \/ \E p \in Project : CreateIntent("NEW", p)
           \/ \E d \in DOMAIN device : CreateIntent("REPLACE", d)
           \/ \E e \in DOMAIN enrollment : RevokeUnused(e) \/ DeleteUnused(e)
        /\ UNCHANGED credentialVars
  /\ UNCHANGED <<now, agentVars, endpointVars, installer, faults>>

RotationEnds ==
  Rotate /\ UNCHANGED <<now, enrollmentVars, agentVars, endpointVars, installer, operations, faults>>

TimePasses ==
  Tick /\ UNCHANGED <<credentialVars, enrollmentVars, agentVars, endpointVars, installer, operations, faults>>

\* The limiter forgets an event that is a minute old.
LimiterForgets ==
  /\ \E d \in DOMAIN recent : recent[d] > 0 /\ recent' = [recent EXCEPT ![d] = @ - 1]
  /\ UNCHANGED <<now, credentialVars, enrollmentVars, agentVars, requests, receipts>>
  /\ UNCHANGED <<installer, operations, faults>>

(***************************************************************************)
(* The installer (enroll_device, configure_agent,                          *)
(* poll_verification_receipt).                                             *)
(***************************************************************************)
\* --re-enroll names the device the host is configured for.
ExpectedDevice(h) == IF config[h] = None THEN None ELSE credential[config[h]].device

\* Rejected, the installation fails and changes nothing.
ExchangeStarts(h, e) ==
  /\ installer[h] = NotInstalling
  /\ ExchangeBegin(e, h, ExpectedDevice(h))
  /\ installer' = [installer EXCEPT ![h] = [phase |-> "exchanging", enrollment |-> e]]
  /\ UNCHANGED <<now, credentialVars, agentVars, endpointVars, operations, faults>>

\* The answer brings the credential into agent.env, or it is lost: the token is
\* used, and the installer must not try again.
ExchangeEnds(exchange) ==
  LET h == exchange.host
      Installing(phase) == installer' = [installer EXCEPT ![h].phase = phase]
      Failing == installer' = [installer EXCEPT ![h] = NotInstalling]
  IN /\ \/ /\ ExchangeCommit(exchange) /\ Installing("switching")
           /\ config' = [config EXCEPT ![h] = Len(credential')]
           /\ UNCHANGED faults
        \/ ExchangeCommit(exchange) /\ Fault /\ Failing /\ UNCHANGED config
        \/ ExchangeAborts(exchange) /\ Failing /\ UNCHANGED <<config, faults>>
     /\ UNCHANGED <<now, sender, endpointVars, operations>>

\* The agent is restarted with the new environment; then the receipt is asked for until a heartbeat has
\* arrived or the attempts are used up.
AgentSwitched(h) ==
  /\ installer[h].phase = "switching" /\ Agent!AgentStarts(h)
  /\ installer' = [installer EXCEPT ![h].phase = "polling"]
  /\ UNCHANGED <<now, credentialVars, enrollmentVars, requests, recent, operations, faults>>
  /\ receipts' = StillAbout(receipts)

ReceiptAsked(h) ==
  /\ installer[h].phase = "polling"
  /\ AcceptedHeartbeat(installer[h].enrollment)
  /\ installer' = [installer EXCEPT ![h] = NotInstalling]
  /\ UNCHANGED <<now, credentialVars, enrollmentVars, agentVars, endpointVars, operations, faults>>

PollingEnds(h) ==
  /\ installer[h].phase = "polling"
  /\ installer' = [installer EXCEPT ![h] = NotInstalling]
  /\ UNCHANGED <<now, credentialVars, enrollmentVars, agentVars, endpointVars, operations, faults>>

Installer ==
  \/ \E h \in Host, e \in DOMAIN enrollment : ExchangeStarts(h, e)
  \/ \E exchange \in exchanges : ExchangeEnds(exchange)
  \/ \E h \in Host : AgentSwitched(h) \/ ReceiptAsked(h) \/ PollingEnds(h)

(***************************************************************************)
(* The agents.                                                             *)
(***************************************************************************)
ServerUnchanged == UNCHANGED <<now, credentialVars, enrollmentVars, installer, recent, operations>>

About(h, beat) == \E r \in requests : r.host = h /\ r.beat = beat

HeartbeatSent(h, beat) ==
  /\ sender[h].phase = "idle" => ~About(h, beat)
  /\ Agent!Attempt(h, beat)
  /\ requests' = requests \union
       {[host |-> h, device |-> credential[sender[h].credential].device, beat |-> beat,
         attempt |-> sender[h].attempt + 1, credential |-> sender[h].credential, row |-> None]}
  /\ ServerUnchanged /\ UNCHANGED <<receipts, faults>>

Awaited(request) ==
  LET agent == sender[request.host]
  IN agent.phase = "waiting" /\ agent.beat = request.beat /\ agent.attempt = request.attempt

\* The connection fails before the server has the request or after.
AttemptFails(h) ==
  /\ Fault /\ Agent!ConnectionFails(h)
  /\ requests' \in {requests, {r \in requests : ~(Awaited(r) /\ r.host = h /\ r.row = None)}}
  /\ receipts' = StillAbout(receipts) /\ ServerUnchanged

SendGivenUp(h) ==
  /\ Fault /\ Agent!DeadlinePasses(h)
  /\ UNCHANGED requests /\ receipts' = StillAbout(receipts) /\ ServerUnchanged

(***************************************************************************)
(* The heartbeat endpoint: receive_heartbeat and accept.                   *)
(***************************************************************************)
CredentialRead(request) ==
  /\ request.row = None
  /\ requests' = (requests \ {request}) \union
       {[request EXCEPT !.row = credential[request.credential]]}
  /\ ServerUnchanged /\ UNCHANGED <<agentVars, receipts, faults>>

Receipt(request) == [device |-> request.device, host |-> request.host, beat |-> request.beat]

\* Under the device's lock: authentication, identity, the limiter, and only then
\* the receipt of an earlier attempt.
Status(request) ==
  IF ~Authenticated(request) THEN 401
  ELSE IF credential[request.credential].device # request.device THEN 403
  ELSE IF recent[request.device] >= DeviceLimit THEN 429
  ELSE 200

\* The agent is told, unless it waits for something else by now or the answer is lost.
Answer(request, status) ==
  /\ requests' = requests \ {request}
  /\ IF ~Awaited(request) THEN UNCHANGED <<agentVars, faults>>
     ELSE \/ Agent!Receive(request.host, status) /\ UNCHANGED faults
          \/ Fault /\ Agent!ConnectionFails(request.host)

HeartbeatAnswered(request) ==
  /\ request.row # None /\ Answer(request, Status(request))
  /\ LET d == request.device
     IN IF Status(request) # 200 THEN UNCHANGED <<recent, device>> /\ receipts' = StillAbout(receipts)
        ELSE /\ recent' = [recent EXCEPT ![d] = @ + 1]
             /\ receipts' = StillAbout(receipts \union {Receipt(request)})
             /\ device' = IF Receipt(request) \in receipts THEN device
                          ELSE [device EXCEPT ![d].seen = now]
  /\ UNCHANGED <<now, active, credential, rotation, enrollmentVars, installer, operations>>

\* The database fails, at the latest at the commit: nothing is stored, but a
\* heartbeat that came as far as the limiter has been counted there.
HeartbeatFails(request) ==
  /\ request.row # None /\ Fault
  /\ requests' = requests \ {request}
  /\ IF Awaited(request) THEN Agent!Receive(request.host, 503) ELSE UNCHANGED agentVars
  /\ receipts' = StillAbout(receipts)
  /\ \/ UNCHANGED recent
     \/ Status(request) = 200 /\ recent' = [recent EXCEPT ![request.device] = @ + 1]
  /\ UNCHANGED <<now, credentialVars, enrollmentVars, installer, operations>>

Server == \E request \in requests : CredentialRead(request) \/ HeartbeatAnswered(request)

Next ==
  \/ Operator \/ RotationEnds \/ TimePasses \/ LimiterForgets \/ Installer \/ Server
  \/ \E h \in Host : (\E beat \in Beat : HeartbeatSent(h, beat)) \/ AttemptFails(h) \/ SendGivenUp(h)
  \/ \E request \in requests : HeartbeatFails(request)

Spec == Init /\ [][Next]_vars

(***************************************************************************)
(* Properties                                                              *)
(***************************************************************************)
\* A heartbeat is accepted, and an earlier acknowledgement is repeated, only for
\* a credential that is live and a device that is enabled when the answer is
\* given, however long the request has waited (API_SPEC.md, section 32).
Entitled(c) == LiveAt(c, now) /\ device[credential[c].device].enabled
HeartbeatsAreAuthorised ==
  [][\A d \in DOMAIN device :
       recent'[d] > recent[d] \/ device'[d].seen # device[d].seen =>
         \E request \in requests \ requests' : request.device = d /\ Entitled(request.credential)]_vars

\* A device has at most two live credentials, and only one that outlasts the
\* overlap of a rotation.
OneLastingCredential ==
  \A d \in DOMAIN device :
    /\ Cardinality(LiveCredentials(d, now)) <= 2
    /\ \A overlap \in Overlap \union {ReplaceOverlap} :
         (\A o \in Overlap \union {ReplaceOverlap} : o <= overlap) =>
           Cardinality(LiveCredentials(d, now + overlap)) <= 1

\* A token issues one credential, for the device it names, before it expires; a
\* token that is revoked or deleted issues none.
TokensIssueOnce ==
  \A e \in DOMAIN enrollment :
    LET issued == {c \in DOMAIN credential : credential[c].by = e}
    IN /\ Cardinality(issued) <= 1
       /\ enrollment[e].revoked => issued = {}
       /\ issued # {} <=> EnrollmentStatus(e) \in {"ENROLLED", "ONLINE"}
       /\ issued # {} => enrollment[e].used < enrollment[e].expires
       /\ \A c \in issued : credential[c].device = enrollment[e].issued
       /\ e \in ToInstall => issued = {}
=============================================================================
