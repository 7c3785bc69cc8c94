------------------------------- MODULE Console -------------------------------
(***************************************************************************)
(* The operators' console: accounts and sessions (Accounts, Sessions), the *)
(* fleet as it is listed and managed (Fleet, DashboardRead) and the policy *)
(* of notifications (NotificationPolicy), behind the endpoints of          *)
(* server/app/api/dashboard.py. A request authenticates its session in one *)
(* transaction, which gives it its role, and does its work in another; so  *)
(* the account may have changed in between. Local commands, heartbeats,    *)
(* sweeps and the alerts they raise go on beside it.                       *)
(***************************************************************************)
EXTENDS Sessions, NotificationPolicy, DashboardRead

CONSTANTS
  Start,           \* accounts and sessions to begin with: [users, sessions]
  Allowed,         \* settings a deployment may have: sets of addresses
  IncidentQuery,   \* devices whose incidents are asked for, None for all
  Samples,         \* sequences of heartbeat samples to be drawn: see DownsampleHistory
  MaxOperations    \* bound: what operators ask for and what happens in the fleet

Subject == {identity.subject : identity \in Identity}
UserRow == [role : Role, active : BOOLEAN, sub : Subject \union {None}]
SessionRow ==
  [identity : Identity, revoked : BOOLEAN, expired : BOOLEAN, transaction : Nat \union {None}]

ASSUME NoneIsNoRow ==
  /\ None \notin Nat \union Role \union BOOLEAN \union Subject \union UserRow \union Policy
  /\ None \notin ProjectRow \union DeviceRow \union Key
ASSUME ProjectsExist == Project # {} /\ Name # {}
ASSUME SamplesAreReports == Samples \subseteq Seq(Seq(STRING))
ASSUME PoliciesAreWhole == Policy \subseteq [events : SUBSET Kind, recipients : SUBSET Email]
\* The Owner cannot be made inactive.
ASSUME StartIsLived ==
  \A start \in Start :
    /\ start.users \in [Email -> UserRow \union {None}]
    /\ \A e, f \in Email :
         start.users[e] # None /\ start.users[e].role = "OWNER" =>
           /\ start.users[e].active
           /\ start.users[f] # None /\ start.users[f].role = "OWNER" => e = f
    /\ start.sessions \in Seq(SessionRow)
    /\ \A s \in DOMAIN start.sessions : start.sessions[s].transaction = None

VARIABLES
  requests,     \* requests that were admitted and have yet to do their work
  operations

accounts == <<accountVars, sessionVars>>
vars == <<accounts, fleetVars, policyVars, reading, requests, operations>>

\* One project with one device that was seen, and unless it is the first start,
\* accounts that have logged in.
Init ==
  /\ \E start \in Start : users = start.users /\ sessions = start.sessions
  /\ bootstraps = {} /\ transactions = <<>> /\ logins = {}
  /\ allowed \in Allowed /\ \A a \in Allowed : a \subseteq allowed
  /\ LET p == Min(Project) d == Min(Device) name == Min(Name)
     IN /\ projects = [q \in Project |-> IF q = p THEN [name |-> name, active |-> TRUE] ELSE None]
        /\ fleet = [e \in Device |-> IF e = d THEN [NewDevice(p, name) EXCEPT !.seen = 1] ELSE None]
  /\ incidents = <<>>
  /\ projectPolicy = [p \in Project |-> None] /\ devicePolicy = [d \in Device |-> None]
  /\ raising = NothingRaised /\ alerts = <<>>
  /\ reading = NothingRead /\ requests = {} /\ operations = 0

Operation == operations < MaxOperations /\ operations' = operations + 1

\* What a step leaves alone.
FleetAlone == UNCHANGED <<fleetVars, reading>>
AccountsAlone == UNCHANGED accounts

(***************************************************************************)
(* Logging in and out; local commands; deployments.                        *)
(***************************************************************************)
LoginStarts ==
  /\ Operation /\ BeginLogin
  /\ FleetAlone /\ UNCHANGED <<bootstraps, policyVars, requests>>

Callback ==
  /\ \/ \E t \in DOMAIN transactions : ConsumeTransaction(t)
     \/ \E l \in logins :
          \/ \E identity \in Identity : VerifyCallback(l, identity)
          \/ ResolveUser(l) \/ IssueSession(l) \/ LoginFails(l)
  /\ FleetAlone /\ UNCHANGED <<bootstraps, policyVars, requests, operations>>

SessionEnds ==
  /\ Operation
  /\ Expire \/ \E s \in DOMAIN sessions : Logout(s)
  /\ FleetAlone /\ UNCHANGED <<bootstraps, policyVars, requests>>

Deploy ==
  /\ Operation /\ \E addresses \in Allowed : Redeploy(addresses)
  /\ FleetAlone /\ UNCHANGED <<bootstraps, policyVars, requests>>

OwnerCommand ==
  /\ Operation /\ \E e \in Email : BootstrapReads(e)
  /\ FleetAlone /\ UNCHANGED <<sessionVars, policyVars, requests>>
OwnerInserted ==
  /\ \E e \in bootstraps : BootstrapInserts(e)
  /\ FleetAlone /\ UNCHANGED <<sessionVars, policyVars, requests, operations>>

(***************************************************************************)
(* dashboard_user and requires, and then the endpoint.                     *)
(***************************************************************************)
\* authenticate_session: the account is bound if it is not yet.
Admitted(s) == Authenticates(s) /\ users' = Bound(sessions[s].identity)

ChangeAdmitted(s) ==
  /\ Operation /\ Admitted(s)
  /\ LET identity == sessions[s].identity
         role == users[identity.email].role
     IN /\ role \in {"OWNER", "ADMIN"}
        /\ requests' = requests \union {[session |-> s, identity |-> identity, role |-> role]}
  /\ FleetAlone /\ UNCHANGED <<bootstraps, sessionVars, policyVars>>

UserChange(r) ==
  /\ \E e \in Email :
       \/ \E role \in Role : CreateUser(r.role, e, role)
       \/ \E role \in Role \union {None}, isActive \in BOOLEAN \union {None} :
            UpdateUser(r.role, e, role, isActive)
  /\ FleetAlone /\ UNCHANGED <<sessionVars, policyVars>>

ProjectCreated == \E p \in Project, name \in Name : CreateProject(p, name)
DeviceEnrolled == \E d \in Device, p \in Projects, name \in Name : Enroll(d, p, name)

\* The device's row is locked first.
DeviceChange ==
  \E d \in Devices : DeviceFree(d) /\
    \/ \E p \in Projects : Move(d, p)
    \/ \E enabled \in BOOLEAN : SetMonitoring(d, enabled)

FleetChange ==
  /\ ProjectCreated \/ DeviceEnrolled \/ DeviceChange
  /\ reading' = StillSteady
  /\ AccountsAlone /\ UNCHANGED policyVars

ProjectPolicyChange == \E p \in Projects, policy \in Policy : UpdateProjectPolicy(p, policy)
DevicePolicyChange ==
  \E p \in Projects, d \in Devices :
    \/ \E policy \in Policy : UpdateDevicePolicy(p, d, policy, ActiveAccounts)
    \/ ResetDevicePolicy(p, d)

PolicyChange ==
  /\ ProjectPolicyChange \/ DevicePolicyChange
  /\ AccountsAlone /\ FleetAlone

\* Forbidden, not found, in conflict, or rolled back.
NothingChanged == AccountsAlone /\ FleetAlone /\ UNCHANGED policyVars

RequestEnds(r) ==
  /\ requests' = requests \ {r} /\ UNCHANGED operations
  /\ UserChange(r) \/ FleetChange \/ PolicyChange \/ NothingChanged

(***************************************************************************)
(* Lists are read page by page, by whoever has a session.                  *)
(***************************************************************************)
DevicesAsked(s) == \E query \in DeviceQuery : ReadingStarts("devices", query, s)
IncidentsAsked(s) == \E device \in IncidentQuery : ReadingStarts("incidents", device, s)

ListOpened(s) ==
  /\ Operation /\ Admitted(s)
  /\ DevicesAsked(s) \/ IncidentsAsked(s)
  /\ UNCHANGED <<bootstraps, sessionVars, fleetVars, policyVars, requests>>

NextPage ==
  /\ ~reading.done
  /\ \/ Admitted(reading.session) /\ PageRead
     \/ ReadingEnds /\ UNCHANGED users
  /\ UNCHANGED <<bootstraps, sessionVars, fleetVars, policyVars, requests, operations>>

(***************************************************************************)
(* Beside the console.                                                     *)
(***************************************************************************)
\* The local command line. What it does to credentials is in Credentials.
CommandChange ==
  \/ ProjectCreated \/ DeviceEnrolled \/ DeviceChange
  \/ \E d \in Devices : DeviceFree(d) /\
       \/ \E name \in Name : Rename(d, name)
       \/ \E monitored \in BOOLEAN : SetGPUPolicy(d, monitored)
  \/ \E p \in Projects, name \in Name \union {None}, isActive \in BOOLEAN \union {None} :
       UpdateProject(p, name, isActive)

Command ==
  /\ Operation /\ CommandChange
  /\ reading' = StillSteady
  /\ AccountsAlone /\ UNCHANGED <<policyVars, requests>>

\* Heartbeats and sweeps, with the device's row locked.
FleetObserved ==
  /\ Operation
  /\ \E d \in Devices : DeviceFree(d) /\
       \/ \E gpu \in GPUState : HeartbeatAccepted(d, gpu)
       \/ \E state \in State : SweepFindsOverdue(d, state)
       \/ \E opened \in {LastOpened, LastOpened + 1} : IncidentOpens(d, opened)
       \/ \E i \in IncidentsOf(d) : IncidentCloses(i)
  /\ reading' = StillSteady
  /\ AccountsAlone /\ UNCHANGED <<policyVars, requests>>

AlertRaised ==
  /\ Operation /\ \E d \in Devices, kind \in Kind : AlertBegins(d, kind)
  /\ AccountsAlone /\ FleetAlone /\ UNCHANGED requests

AlertStored ==
  /\ AlertEnds
  /\ AccountsAlone /\ FleetAlone /\ UNCHANGED <<requests, operations>>

Next ==
  \/ LoginStarts \/ Callback \/ SessionEnds \/ Deploy
  \/ OwnerCommand \/ OwnerInserted
  \/ \E s \in DOMAIN sessions : ChangeAdmitted(s) \/ ListOpened(s)
  \/ \E r \in requests : RequestEnds(r)
  \/ NextPage
  \/ Command \/ FleetObserved \/ AlertRaised \/ AlertStored

Spec == Init /\ [][Next]_vars
(***************************************************************************)
(* Properties.                                                             *)
(***************************************************************************)
OwnerIsSole == Cardinality(Owners') <= 1
OwnerStays == \A e \in Owners : e \in Owners' /\ users'[e].active

\* The requests of the Owner's identity that end in this step.
OwnersRequests == {r \in requests \ requests' : r.identity.email \in Owners}
Account(e) == IF users[e] = None THEN None ELSE [role |-> users[e].role, active |-> users[e].active]
IsAdmin(account) == account # None /\ account.role = "ADMIN"
AdminsAreTheOwners ==
  \A e \in Email :
    Account(e)' # Account(e) /\ (IsAdmin(Account(e)) \/ IsAdmin(Account(e)')) => OwnersRequests # {}

BindingStays == \A e \in Accounts : users[e].sub # None => users'[e].sub = users[e].sub
RequestsAreBound == \A r \in requests' : users'[r.identity.email].sub = r.identity.subject
\* Sessions of logins, not those of the beginning.
Issued == {s \in DOMAIN sessions : sessions[s].transaction # None}
LoginsGiveOneSession ==
  \A s, t \in Issued' : sessions'[s].transaction = sessions'[t].transaction => s = t

(***************************************************************************)
(* Whatever is asked for at the same time, with whatever role a request    *)
(* was admitted, after races of the local command and of logins: there is  *)
(* one Owner at most, who stays; administrators are made and changed only  *)
(* by a request of the Owner; an account stays with the Google identity    *)
(* that was bound to it first, and only that identity acts in its name;    *)
(* and one login gives one session. (users/service.py:50 and :92,          *)
(* dashboard/service.py:183 and :248.)                                     *)
(***************************************************************************)
AccountsAreGuarded ==
  [][/\ OwnerIsSole /\ OwnerStays /\ AdminsAreTheOwners
     /\ BindingStays /\ RequestsAreBound /\ LoginsGiveOneSession]_vars

(***************************************************************************)
(* An alert is sent where the console says that events of its device go    *)
(* when the alert is stored; unless the project's policy was replaced      *)
(* while it was being raised. (notifications/configuration.py:117, with    *)
(* management.py:168.)                                                     *)
(***************************************************************************)
AlertsFollowOnePolicy ==
  [][alerts' # alerts =>
       \/ Last(alerts').recipients = Resolved(raising.kind, EffectivePolicy(raising.device).policy)
       \/ raising.changed /\ devicePolicy[raising.device] = None]_vars

Seen == UNION {reading.pages[i] : i \in DOMAIN reading.pages}
PagesInOrder ==
  \A i, j \in DOMAIN reading.pages : i < j =>
    \A r \in reading.pages[i], s \in reading.pages[j] : Before(r.key, s.key)

\* The points of a history are in order and end with the newest sample, and its
\* series are those of the GPUs seen last.
HistoryIsDrawn ==
  \A samples \in Samples :
    LET retained == Retained(samples)
        history == DownsampleHistory(retained)
        last == Len(history.points)
    IN /\ \A i, j \in 1..last : i < j => history.points[i] < history.points[j]
       /\ retained # <<>> =>
            /\ history.points[last] = Len(retained) /\ Last(retained) = Last(samples)
            /\ \A gpu \in ToSet(Last(retained)) :
                 gpu \in DOMAIN history.series \/ Cardinality(DOMAIN history.series) = SeriesCap

\* list_alerts: the newest alerts of a device.
AlertsOf(d) == {a \in DOMAIN alerts : alerts[a].device = d}
ListedAlerts(d) ==
  LET newer(a, b) == a > b
  IN First(Limit, AlertsOf(d), newer)
NewestAlertsAreListed ==
  \A d \in Devices : \A a \in ListedAlerts(d), b \in AlertsOf(d) : b > a => b \in ListedAlerts(d)

(***************************************************************************)
(* A list that was read to its end, page by page, while devices were       *)
(* renamed, moved, enrolled and observed, has each row that kept its place *)
(* once, in order; the newest alerts are those listed; and a history ends  *)
(* with the newest sample. (dashboard/read.py:637, :739 and :215.)         *)
(***************************************************************************)
ListsAreExact ==
  /\ PagesInOrder
  /\ reading.done => reading.steady \subseteq Seen
  /\ NewestAlertsAreListed /\ HistoryIsDrawn
=============================================================================
