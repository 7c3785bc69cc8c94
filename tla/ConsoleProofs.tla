----------------------------- MODULE ConsoleProofs -----------------------------
(***************************************************************************)
(* The console, for every number of accounts, sessions, projects, devices  *)
(* and requests. Requests and logins act on what was true when they were   *)
(* admitted: what of it stays true until then is AccountsInv, RequestsInv  *)
(* and SessionsInv. While an alert is raised its device is locked, and     *)
(* nothing but the policy of its project can change: FleetInv, PolicyInv.  *)
(* A list under way has seen what has kept its place, or has it before it: *)
(* RowsInv, ReadingInv.                                                    *)
(***************************************************************************)
EXTENDS Console, OrderedProofs

(***************************************************************************)
(* Accounts.                                                               *)
(***************************************************************************)
AccountsInv ==
  /\ bootstraps \subseteq Email
  /\ users \in [Email -> UserRow \union {None}]
  /\ \A e, f \in Owners : e = f
  /\ \A e \in Owners : users[e].active

\* An admitted request acts for the identity its account is bound to, and as
\* Owner only for the Owner.
RequestsInv ==
  \A r \in requests :
    /\ r.identity \in Identity /\ r.identity.email \in Accounts
    /\ users[r.identity.email].sub = r.identity.subject
    /\ r.role = "OWNER" => r.identity.email \in Owners

(***************************************************************************)
(* Logins: a login's transaction was consumed for it alone, and its        *)
(* session comes after it.                                                 *)
(***************************************************************************)
Transaction == [consumed : BOOLEAN, expired : BOOLEAN]

Consumed == {t \in DOMAIN transactions : transactions[t].consumed}
LoginInv(l) ==
  /\ l \in [transaction : Nat, identity : Identity \union {None}, resolved : BOOLEAN]
  /\ l.transaction \in Consumed
  /\ l.resolved => l.identity \in Identity
LoginsInv ==
  /\ transactions \in Seq(Transaction)
  /\ \A l \in logins : LoginInv(l)
  /\ \A l, m \in logins : l.transaction = m.transaction => l = m

IssuedInv ==
  /\ sessions \in Seq(SessionRow)
  /\ \A s \in Issued : sessions[s].transaction \in Consumed
  /\ \A s \in Issued, l \in logins : sessions[s].transaction # l.transaction
  /\ \A s, t \in Issued : sessions[s].transaction = sessions[t].transaction => s = t

SessionsInv == LoginsInv /\ IssuedInv

(***************************************************************************)
(* The fleet and the policies.                                             *)
(***************************************************************************)
FleetInv ==
  /\ DOMAIN fleet = Device
  /\ \A d \in Devices : "project" \in DOMAIN fleet[d] /\ fleet[d].project \in Project

Address == Email \union Deployment
GlobalPolicy == [events |-> Kind, recipients |-> Deployment]
Selection == [source : {"DEVICE", "PROJECT", "GLOBAL"}, policy : Policy \union {GlobalPolicy}]

\* While the device is locked its alert goes by the policy of the console, unless
\* that is not the device's own and the project's was replaced.
RaisingInv ==
  raising # NothingRaised =>
    /\ raising \in [device : Device, kind : Kind, selected : Selection, changed : BOOLEAN]
    /\ raising.device \in Devices
    /\ \/ raising.selected = EffectivePolicy(raising.device)
       \/ raising.changed /\ devicePolicy[raising.device] = None

PolicyInv ==
  /\ projectPolicy \in [Project -> Policy \union {None}]
  /\ devicePolicy \in [Device -> Policy \union {None}]
  /\ alerts \in Seq([device : Device, recipients : SUBSET Address])
  /\ RaisingInv

\* A list is read in a session that there is.
ReaderInv == ~ reading.done => "session" \in DOMAIN reading /\ reading.session \in DOMAIN sessions

ConsoleInv == ReaderInv /\ AccountsInv /\ RequestsInv /\ SessionsInv /\ FleetInv /\ PolicyInv

(***************************************************************************)
(* What a step does to accounts.                                           *)
(***************************************************************************)
\* Accounts stay, with the identity they are bound to, and the Owner with them.
AccountsStay == Accounts \subseteq Accounts' /\ BindingStays /\ OwnerStays
SameRoles == \A e \in Email : Account(e)' = Account(e)
NoAdminChanges ==
  \A e \in Email : Account(e)' # Account(e) => ~ IsAdmin(Account(e)) /\ ~ IsAdmin(Account(e)')

\* Neither subjects nor accounts are missing.
LEMMA SubjectsAreSomething ==
  /\ \A identity \in Identity : identity.subject # None /\ identity.subject \in Subject
  /\ \A row \in UserRow : row # None
BY NoneIsNoRow DEF Subject

\* The first login or request of an identity binds its account.
LEMMA BoundStep ==
  ASSUME AccountsInv, UNCHANGED bootstraps, NEW identity \in Identity, Resolvable(identity), users' = Bound(identity)
  PROVE  /\ AccountsInv' /\ AccountsStay /\ SameRoles /\ Owners' = Owners
         /\ identity.email \in Accounts' /\ users'[identity.email].sub = identity.subject
<1> DEFINE e == identity.email
<1>1. e \in Email /\ users[e] \in UserRow /\ users[e].sub \in {None, identity.subject}
  BY DEF Resolvable, ActiveAccounts, Accounts, AccountsInv
<1>2. users' = [users EXCEPT ![e].sub = identity.subject]
  BY DEF Bound
<1> HIDE DEF e
<1>3. users' = [users EXCEPT ![e] = [users[e] EXCEPT !.sub = identity.subject]]
  BY <1>2
<1>4. /\ users'[e] \in UserRow /\ users'[e].sub = identity.subject
      /\ users'[e].role = users[e].role /\ users'[e].active = users[e].active
  BY <1>1, <1>3, SubjectsAreSomething DEF AccountsInv, UserRow
<1>5. \A f \in Email : f # e => users'[f] = users[f]
  BY <1>3 DEF AccountsInv
<1>6. users' \in [Email -> UserRow \union {None}]
  BY <1>1, <1>3, <1>4, <1>5 DEF AccountsInv
<1>7. Accounts' = Accounts /\ e \in Accounts
  BY <1>1, <1>4, <1>5, SubjectsAreSomething DEF Accounts
<1>8. \A f \in Accounts : users'[f].role = users[f].role /\ users'[f].active = users[f].active
  BY <1>4, <1>5 DEF Accounts
<1>9. Owners' = Owners
  BY <1>7, <1>8 DEF Owners
<1>10. AccountsInv'
  BY <1>6, <1>7, <1>8, <1>9 DEF AccountsInv, Owners
<1>11. BindingStays
  BY <1>1, <1>4, <1>5 DEF BindingStays, Accounts
<1>12. OwnerStays
  BY <1>7, <1>8, <1>9 DEF OwnerStays, AccountsInv, Owners
<1>13. SameRoles
  BY <1>4, <1>5, <1>7, <1>8 DEF SameRoles, Account, Accounts
<1> QED BY <1>4, <1>7, <1>9, <1>10, <1>11, <1>12, <1>13 DEF AccountsStay, e

\* Accounts that are there are left alone, and one may come that is no administrator.
LEMMA AddedStep ==
  ASSUME AccountsInv, bootstraps' \subseteq Email, NEW e \in Email \ Accounts, NEW role \in Role, role = "OWNER" => Owners = {},
         users' = [users EXCEPT ![e] = NewUser(role)]
  PROVE  AccountsInv' /\ AccountsStay /\ (role # "ADMIN" => NoAdminChanges)
<1>1. NewUser(role) \in UserRow /\ NewUser(role).role = role /\ NewUser(role).active
  BY DEF NewUser, UserRow
<1>2. /\ users' \in [Email -> UserRow \union {None}] /\ users'[e] = NewUser(role)
      /\ \A f \in Email : f # e => users'[f] = users[f]
  BY <1>1 DEF AccountsInv
<1>3. Accounts' = Accounts \union {e}
  BY <1>1, <1>2, SubjectsAreSomething DEF Accounts
<1>4. \A f \in Accounts : users'[f] = users[f]
  BY <1>2 DEF Accounts
<1>5. Owners' = Owners \union (IF role = "OWNER" THEN {e} ELSE {})
  BY <1>1, <1>2, <1>3, <1>4 DEF Owners
<1>6. \A f \in Owners' : users'[f].active
  BY <1>1, <1>2, <1>4, <1>5 DEF AccountsInv, Owners
<1>7. AccountsInv'
  BY <1>2, <1>5, <1>6 DEF AccountsInv
<1>8. AccountsStay
  BY <1>3, <1>4, <1>5 DEF AccountsStay, BindingStays, OwnerStays, AccountsInv, Owners
<1>9. ASSUME role # "ADMIN" PROVE NoAdminChanges
  <2>1. \A f \in Email : f # e => Account(f)' = Account(f)
    BY <1>2 DEF Account
  <2>2. users[e] = None
    BY DEF Accounts
  <2>3. ~ IsAdmin(Account(e))
    BY <2>2 DEF Account, IsAdmin
  <2>4. users'[e] # None /\ users'[e].role = role
    BY <1>1, <1>2, SubjectsAreSomething
  <2>5. Account(e)'.role = role
    BY <2>4 DEF Account
  <2>6. ~ IsAdmin(Account(e)')
    BY <1>9, <2>5 DEF IsAdmin
  <2> QED BY <2>1, <2>3, <2>6 DEF NoAdminChanges
<1> QED BY <1>7, <1>8, <1>9

\* bootstrap_owner inserts an Owner only where there is none.
LEMMA BootstrapStep ==
  ASSUME AccountsInv, NEW e, BootstrapInserts(e)
  PROVE  AccountsInv' /\ AccountsStay /\ NoAdminChanges
<1>1. e \in Email /\ bootstraps' \subseteq Email
  BY DEF BootstrapInserts, AccountsInv
<1>2. CASE Owners = {} /\ e \notin Accounts
  <2>1. users' = [users EXCEPT ![e] = NewUser("OWNER")]
    BY <1>2 DEF BootstrapInserts
  <2>2. "OWNER" \in Role /\ "OWNER" # "ADMIN"
    BY DEF Role
  <2> QED BY <1>1, <1>2, <2>1, <2>2, AddedStep
<1>3. CASE ~ (Owners = {} /\ e \notin Accounts)
  <2>1. users' = users
    BY <1>3 DEF BootstrapInserts
  <2> QED
    BY <1>1, <2>1 DEF AccountsInv, AccountsStay, BindingStays, OwnerStays, NoAdminChanges, Accounts, Owners, Account
<1> QED BY <1>2, <1>3

\* An administrator's requests leave administrators and the Owner alone.
LEMMA UserChangeStep ==
  ASSUME AccountsInv, NEW r, UserChange(r)
  PROVE  AccountsInv' /\ AccountsStay /\ (r.role # "OWNER" => NoAdminChanges)
<1>1. ASSUME NEW e \in Email, NEW role \in Role, CreateUser(r.role, e, role)
      PROVE  AccountsInv' /\ AccountsStay /\ (r.role # "OWNER" => NoAdminChanges)
  <2>1. role # "OWNER" /\ (r.role # "OWNER" => role = "USER")
    BY <1>1, NoneIsNoRow DEF CreateUser, AuthorizeUserChange
  <2>2. /\ e \in Email \ Accounts /\ users' = [users EXCEPT ![e] = NewUser(role)]
        /\ bootstraps' \subseteq Email
    BY <1>1 DEF CreateUser, AccountsInv
  <2> QED BY <2>1, <2>2, AddedStep
<1>2. ASSUME NEW e \in Email, NEW role \in Role \union {None}, NEW isActive \in BOOLEAN \union {None},
             UpdateUser(r.role, e, role, isActive)
      PROVE  AccountsInv' /\ AccountsStay /\ (r.role # "OWNER" => NoAdminChanges)
  <2> DEFINE row == [users[e] EXCEPT !.role = Given(role, @), !.active = Given(isActive, @)]
  <2>1. e \in Accounts /\ users[e] \in UserRow /\ users[e].role # "OWNER" /\ role # "OWNER"
    BY <1>2 DEF UpdateUser, AuthorizeUserChange, AccountsInv, Accounts
  <2>2. users' = [users EXCEPT ![e] = row] /\ bootstraps' = bootstraps
    BY <1>2 DEF UpdateUser
  <2>3. /\ row \in UserRow /\ row.sub = users[e].sub
        /\ row.role = Given(role, users[e].role) /\ row.role # "OWNER"
    BY <2>1 DEF UserRow, Given
  <2>4. r.role # "OWNER" => users[e].role = "USER" /\ row.role = "USER"
    <3>1. r.role # "OWNER" => users[e].role \in {None, "USER"} /\ role \in {None, "USER"}
      BY <1>2 DEF UpdateUser, AuthorizeUserChange
    <3>2. users[e].role # None
      BY <2>1, NoneIsNoRow DEF UserRow
    <3> QED BY <2>3, <3>1, <3>2 DEF Given
  <2> HIDE DEF row
  <2>5. /\ users' \in [Email -> UserRow \union {None}] /\ users'[e] = row
        /\ \A f \in Email : f # e => users'[f] = users[f]
    BY <2>2, <2>3 DEF AccountsInv
  <2>6. Accounts' = Accounts
    BY <2>1, <2>3, <2>5, SubjectsAreSomething DEF Accounts
  <2>7. Owners' = Owners /\ e \notin Owners
    <3>1. e \notin Owners /\ e \notin Owners'
      BY <2>1, <2>3, <2>5 DEF Owners
    <3>2. \A f \in Accounts : f # e => users'[f] = users[f]
      BY <2>5 DEF Accounts
    <3> QED BY <2>6, <3>1, <3>2 DEF Owners
  <2>8. AccountsInv'
    BY <2>2, <2>5, <2>6, <2>7 DEF AccountsInv, Owners, Accounts
  <2>9. AccountsStay
    BY <2>3, <2>5, <2>6, <2>7 DEF AccountsStay, BindingStays, OwnerStays, AccountsInv, Owners, Accounts
  <2>10. ASSUME r.role # "OWNER" PROVE NoAdminChanges
    <3>1. \A f \in Email : f # e => Account(f)' = Account(f)
      BY <2>5 DEF Account
    <3>2. Account(e).role = "USER"
      BY <2>1, <2>4, <2>10, SubjectsAreSomething DEF Account
    <3>3. Account(e)'.role = "USER"
      BY <2>3, <2>4, <2>5, <2>10, SubjectsAreSomething DEF Account
    <3> QED BY <3>1, <3>2, <3>3 DEF NoAdminChanges, IsAdmin
  <2> QED BY <2>8, <2>9, <2>10
<1> QED BY <1>1, <1>2 DEF UserChange

(***************************************************************************)
(* Logins and sessions.                                                    *)
(***************************************************************************)
\* A transaction of the logins under way: of one that was there, or of none before.
LEMMA IssuedKept ==
  ASSUME IssuedInv, UNCHANGED sessions, Consumed \subseteq Consumed',
         \A l \in logins' : l.transaction \notin Consumed \/ \E m \in logins : m.transaction = l.transaction
  PROVE  IssuedInv'
<1>1. Issued' = Issued
  BY DEF Issued
<1>2. \A s \in Issued : sessions[s].transaction \in Consumed
  BY DEF IssuedInv
<1> QED BY <1>1, <1>2 DEF IssuedInv

\* BeginLogin: a new transaction, that nobody has consumed.
LEMMA BeginLoginStep ==
  ASSUME SessionsInv, BeginLogin
  PROVE  SessionsInv'
<1> DEFINE t == [consumed |-> FALSE, expired |-> FALSE]
<1>1. transactions \in Seq(Transaction) /\ t \in Transaction
  BY DEF SessionsInv, LoginsInv, Transaction
<1>2. transactions' = Append(transactions, t) /\ UNCHANGED <<logins, sessions>>
  BY DEF BeginLogin
<1>3. /\ transactions' \in Seq(Transaction)
      /\ \A u \in DOMAIN transactions : u \in DOMAIN transactions' /\ transactions'[u] = transactions[u]
  BY <1>1, <1>2
<1>4. Consumed \subseteq Consumed'
  BY <1>3 DEF Consumed
<1>5. LoginsInv'
  BY <1>2, <1>3, <1>4 DEF SessionsInv, LoginsInv, LoginInv
<1>6. IssuedInv'
  BY <1>2, <1>4, IssuedKept DEF SessionsInv
<1> QED BY <1>5, <1>6 DEF SessionsInv

\* A transaction that is changed stays consumed.
LEMMA TransactionStep ==
  ASSUME LoginsInv, NEW t \in DOMAIN transactions, NEW row \in Transaction,
         transactions[t].consumed => row.consumed, transactions' = [transactions EXCEPT ![t] = row]
  PROVE  /\ transactions' \in Seq(Transaction) /\ Consumed \subseteq Consumed'
         /\ row.consumed => t \in Consumed'
<1>1. transactions \in Seq(Transaction) /\ DOMAIN transactions' = DOMAIN transactions
  BY DEF LoginsInv
<1>2. transactions' \in Seq(Transaction)
  BY <1>1
<1>3. \A u \in DOMAIN transactions : transactions'[u] = IF u = t THEN row ELSE transactions[u]
  BY <1>1
<1> QED BY <1>1, <1>2, <1>3 DEF Consumed

\* complete_login consumes a transaction once: its login has it alone.
LEMMA ConsumeStep ==
  ASSUME SessionsInv, NEW t \in DOMAIN transactions, ConsumeTransaction(t)
  PROVE  SessionsInv'
<1> DEFINE new == [transaction |-> t, identity |-> None, resolved |-> FALSE]
<1> DEFINE row == [transactions[t] EXCEPT !.consumed = TRUE]
<1>1. /\ ~ transactions[t].consumed /\ transactions' = [transactions EXCEPT ![t] = row]
      /\ logins' = logins \union {new} /\ UNCHANGED sessions
  BY DEF ConsumeTransaction
<1>2. transactions \in Seq(Transaction) /\ transactions[t] \in Transaction /\ t \in Nat
  BY DEF SessionsInv, LoginsInv, LoginInv
<1>3. row \in Transaction /\ row.consumed
  BY <1>2 DEF Transaction
<1>4. transactions' \in Seq(Transaction) /\ Consumed \subseteq Consumed' /\ t \in Consumed' /\ t \notin Consumed
  BY <1>1, <1>3, TransactionStep DEF SessionsInv, Consumed
<1>5. new \in [transaction : Nat, identity : Identity \union {None}, resolved : BOOLEAN] /\ ~ new.resolved
  BY <1>2
<1>6. LoginsInv'
  <2>1. new.transaction = t
    OBVIOUS
  <2> HIDE DEF new
  <2>2. \A l \in logins : LoginInv(l)
    BY DEF SessionsInv, LoginsInv
  <2>3. \A l \in logins : l.transaction \in Consumed
    BY <2>2 DEF LoginInv
  <2>5. \A l \in logins' : LoginInv(l)'
    BY <1>1, <1>4, <1>5, <2>1, <2>2 DEF LoginInv
  <2>4. \A l, m \in logins' : l.transaction = m.transaction => l = m
    BY <1>1, <1>4, <2>1, <2>3 DEF SessionsInv, LoginsInv
  <2> QED BY <1>4, <2>4, <2>5 DEF LoginsInv
<1>7. IssuedInv'
  BY <1>1, <1>4, IssuedKept DEF SessionsInv
<1> QED BY <1>6, <1>7 DEF SessionsInv

\* A login that goes on keeps its transaction.
LEMMA LoginStep ==
  ASSUME SessionsInv, UNCHANGED <<transactions, sessions>>, NEW l \in logins,
         NEW new \in [transaction : {l.transaction}, identity : Identity \union {None}, resolved : BOOLEAN],
         new.resolved => new.identity \in Identity,
         logins' = (logins \ {l}) \union {new} \/ logins' = logins \ {l}
  PROVE  SessionsInv'
<1>1. Consumed' = Consumed
  BY DEF Consumed
<1>2. LoginsInv'
  BY <1>1 DEF SessionsInv, LoginsInv, LoginInv
<1>3. IssuedInv'
  BY <1>1, IssuedKept DEF SessionsInv
<1> QED BY <1>2, <1>3 DEF SessionsInv

\* The login's session takes its transaction over.
LEMMA IssueStep ==
  ASSUME SessionsInv, NEW l \in logins, IssueSession(l)
  PROVE  SessionsInv' /\ DOMAIN sessions \subseteq DOMAIN sessions'
<1> DEFINE new == NewSession(l.identity, l.transaction)
<1>1. /\ logins' = logins \ {l} /\ sessions' = Append(sessions, new) /\ l.resolved
      /\ UNCHANGED transactions
  BY DEF IssueSession
<1>2. l.identity \in Identity /\ l.transaction \in Consumed /\ l.transaction \in Nat
  BY <1>1 DEF SessionsInv, LoginsInv, LoginInv
<1>3. new \in SessionRow /\ new.transaction = l.transaction
  BY <1>2 DEF NewSession, SessionRow
<1>4. sessions \in Seq(SessionRow) /\ Len(sessions) \in Nat /\ DOMAIN sessions = 1 .. Len(sessions)
  BY DEF SessionsInv, IssuedInv
<1> HIDE DEF new
<1>5. /\ sessions' \in Seq(SessionRow) /\ DOMAIN sessions' = 1 .. Len(sessions) + 1
      /\ sessions'[Len(sessions) + 1] = new
      /\ \A s \in 1 .. Len(sessions) : sessions'[s] = sessions[s]
  BY <1>1, <1>3, <1>4
<1>6. Consumed' = Consumed
  BY <1>1 DEF Consumed
<1>7. Issued' \subseteq Issued \union {Len(sessions) + 1} /\ Issued \subseteq DOMAIN sessions
  BY <1>4, <1>5 DEF Issued
<1>8. LoginsInv'
  BY <1>1, <1>6 DEF SessionsInv, LoginsInv, LoginInv
<1>9. \A s \in Issued : sessions'[s] = sessions[s]
  BY <1>4, <1>5, <1>7
<1>10. /\ \A s \in Issued : sessions[s].transaction \in Consumed
       /\ \A s \in Issued, m \in logins : sessions[s].transaction # m.transaction
       /\ \A s, t \in Issued : sessions[s].transaction = sessions[t].transaction => s = t
       /\ \A m \in logins : m.transaction = l.transaction => m = l
  BY DEF SessionsInv, IssuedInv, LoginsInv
<1>11. IssuedInv'
  <2>1. \A s \in Issued' : sessions'[s].transaction \in Consumed'
    BY <1>2, <1>3, <1>5, <1>6, <1>7, <1>9, <1>10
  <2>2. \A s \in Issued', m \in logins' : sessions'[s].transaction # m.transaction
    BY <1>1, <1>3, <1>5, <1>7, <1>9, <1>10
  <2>3. \A s, t \in Issued' : sessions'[s].transaction = sessions'[t].transaction => s = t
    BY <1>3, <1>5, <1>7, <1>9, <1>10
  <2> QED BY <1>5, <2>1, <2>2, <2>3 DEF IssuedInv
<1>12. DOMAIN sessions \subseteq DOMAIN sessions'
  BY <1>4, <1>5
<1> QED BY <1>8, <1>11, <1>12 DEF SessionsInv

\* A session that is revoked or expires stays the session it was.
LEMMA SessionStep ==
  ASSUME SessionsInv, UNCHANGED <<transactions, logins>>, NEW s \in DOMAIN sessions, NEW row \in SessionRow,
         row.transaction = sessions[s].transaction, sessions' = [sessions EXCEPT ![s] = row]
  PROVE  SessionsInv' /\ DOMAIN sessions \subseteq DOMAIN sessions'
<1>1. sessions \in Seq(SessionRow)
  BY DEF SessionsInv, IssuedInv
<1>2. /\ sessions' \in Seq(SessionRow) /\ DOMAIN sessions' = DOMAIN sessions
      /\ \A t \in DOMAIN sessions : sessions'[t].transaction = sessions[t].transaction
  BY <1>1
<1>3. Issued' = Issued /\ Issued \subseteq DOMAIN sessions /\ Consumed' = Consumed
  BY <1>2 DEF Issued, Consumed
<1>4. IssuedInv'
  BY <1>2, <1>3 DEF SessionsInv, IssuedInv
<1>5. LoginsInv'
  BY <1>3 DEF SessionsInv, LoginsInv, LoginInv
<1> QED BY <1>2, <1>4, <1>5 DEF SessionsInv

(***************************************************************************)
(* Steps of the console, for accounts and sessions.                        *)
(***************************************************************************)
\* As accounts stay, admitted requests stay bound to theirs.
LEMMA RequestsKept ==
  ASSUME RequestsInv, AccountsInv, AccountsStay, requests' \subseteq requests
  PROVE  RequestsInv'
<1> SUFFICES ASSUME NEW r \in requests'
             PROVE  /\ r.identity \in Identity /\ r.identity.email \in Accounts'
                    /\ users'[r.identity.email].sub = r.identity.subject
                    /\ r.role = "OWNER" => r.identity.email \in Owners'
  BY DEF RequestsInv
<1>1. /\ r.identity \in Identity /\ r.identity.email \in Accounts
      /\ users[r.identity.email].sub = r.identity.subject
      /\ r.role = "OWNER" => r.identity.email \in Owners
  BY DEF RequestsInv
<1> QED BY <1>1, SubjectsAreSomething DEF AccountsStay, BindingStays, OwnerStays

\* Steps that change no account.
LEMMA UsersUnchanged ==
  ASSUME AccountsInv, UNCHANGED users
  PROVE  AccountsStay /\ SameRoles
BY DEF AccountsInv, AccountsStay, BindingStays, OwnerStays, SameRoles, Account, Accounts, Owners

\* A step that makes and unmakes no administrator needs no Owner.
LEMMA NobodyBecomesAdmin ==
  ASSUME SameRoles \/ NoAdminChanges
  PROVE  AdminsAreTheOwners
BY DEF SameRoles, NoAdminChanges, AdminsAreTheOwners

\* Every session that is used is of an identity Google has vouched for.
LEMMA AdmittedStep ==
  ASSUME AccountsInv, SessionsInv, NEW s \in DOMAIN sessions, Admitted(s), UNCHANGED bootstraps
  PROVE  /\ AccountsInv' /\ AccountsStay /\ SameRoles
         /\ sessions[s].identity \in Identity
         /\ sessions[s].identity.email \in Accounts' /\ Owners' = Owners
         /\ users'[sessions[s].identity.email].sub = sessions[s].identity.subject
<1>0. sessions[s] \in SessionRow
  BY DEF SessionsInv, IssuedInv
<1>1. sessions[s].identity \in Identity
  BY <1>0 DEF SessionRow
<1>2. Resolvable(sessions[s].identity) /\ users' = Bound(sessions[s].identity)
  BY DEF Admitted, Authenticates
<1> QED BY <1>1, <1>2, BoundStep

\* A callback at work.
LEMMA CallbackStep ==
  ASSUME AccountsInv, SessionsInv, Callback
  PROVE  /\ AccountsInv' /\ SessionsInv' /\ AccountsStay /\ SameRoles
         /\ DOMAIN sessions \subseteq DOMAIN sessions'
<1>1. UNCHANGED <<bootstraps, requests>>
  BY DEF Callback
<1>2. ASSUME UNCHANGED users PROVE AccountsInv' /\ AccountsStay /\ SameRoles
  BY <1>1, <1>2, UsersUnchanged DEF AccountsInv, Accounts, Owners
<1>3. ASSUME NEW t \in DOMAIN transactions, ConsumeTransaction(t)
      PROVE  SessionsInv' /\ UNCHANGED <<users, sessions>>
  BY <1>3, ConsumeStep DEF ConsumeTransaction
<1>4. ASSUME NEW l \in logins, NEW identity \in Identity, VerifyCallback(l, identity)
      PROVE  SessionsInv' /\ UNCHANGED <<users, sessions>>
  <2> DEFINE new == [l EXCEPT !.identity = identity]
  <2>1. l \in [transaction : Nat, identity : Identity \union {None}, resolved : BOOLEAN]
    BY DEF SessionsInv, LoginsInv, LoginInv
  <2>2. new \in [transaction : {l.transaction}, identity : Identity \union {None}, resolved : BOOLEAN]
    BY <2>1
  <2>3. new.identity \in Identity
    BY <2>1
  <2>4. logins' = (logins \ {l}) \union {new} /\ UNCHANGED <<users, transactions, sessions>>
    BY <1>4 DEF VerifyCallback
  <2> HIDE DEF new
  <2> QED BY <2>2, <2>3, <2>4, LoginStep
<1>5. ASSUME NEW l \in logins, ResolveUser(l)
      PROVE  SessionsInv' /\ UNCHANGED sessions /\ AccountsInv' /\ AccountsStay /\ SameRoles
  <2> DEFINE new == [l EXCEPT !.resolved = TRUE]
  <2>1. l \in [transaction : Nat, identity : Identity \union {None}, resolved : BOOLEAN]
    BY DEF SessionsInv, LoginsInv, LoginInv
  <2>2. l.identity \in Identity /\ Resolvable(l.identity) /\ users' = Bound(l.identity)
    BY <1>5, <2>1 DEF ResolveUser
  <2>3. new \in [transaction : {l.transaction}, identity : Identity \union {None}, resolved : BOOLEAN]
    BY <2>1
  <2>4. new.identity \in Identity
    BY <2>1, <2>2
  <2>5. logins' = (logins \ {l}) \union {new} /\ UNCHANGED <<transactions, sessions>>
    BY <1>5 DEF ResolveUser
  <2>6. SessionsInv'
    <3> HIDE DEF new
    <3> QED BY <2>3, <2>4, <2>5, LoginStep
  <2> QED BY <1>1, <2>2, <2>5, <2>6, BoundStep
<1>6. ASSUME NEW l \in logins, IssueSession(l)
      PROVE  SessionsInv' /\ UNCHANGED users /\ DOMAIN sessions \subseteq DOMAIN sessions'
  BY <1>6, IssueStep DEF IssueSession
<1>7. ASSUME NEW l \in logins, LoginFails(l)
      PROVE  SessionsInv' /\ UNCHANGED <<users, sessions>>
  <2>1. l \in [transaction : Nat, identity : Identity \union {None}, resolved : BOOLEAN] /\ LoginInv(l)
    BY DEF SessionsInv, LoginsInv, LoginInv
  <2>2. l \in [transaction : {l.transaction}, identity : Identity \union {None}, resolved : BOOLEAN]
    BY <2>1
  <2>3. l.resolved => l.identity \in Identity
    BY <2>1 DEF LoginInv
  <2>4. logins' = logins \ {l} /\ UNCHANGED <<users, transactions, sessions>>
    BY <1>7 DEF LoginFails
  <2> QED BY <2>2, <2>3, <2>4, LoginStep
<1> QED BY <1>2, <1>3, <1>4, <1>5, <1>6, <1>7 DEF Callback

\* Logging out, and time.
LEMMA SessionEndsStep ==
  ASSUME SessionsInv, SessionEnds
  PROVE  SessionsInv' /\ DOMAIN sessions \subseteq DOMAIN sessions' /\ UNCHANGED users
<1>1. \A s \in DOMAIN sessions : sessions[s] \in SessionRow
  BY DEF SessionsInv, IssuedInv
<1>2. ASSUME NEW s \in DOMAIN sessions, Logout(s)
      PROVE  SessionsInv' /\ DOMAIN sessions \subseteq DOMAIN sessions' /\ UNCHANGED users
  <2> DEFINE row == [sessions[s] EXCEPT !.revoked = TRUE]
  <2>1. row \in SessionRow /\ row.transaction = sessions[s].transaction
    BY <1>1 DEF SessionRow
  <2>2. sessions' = [sessions EXCEPT ![s] = row] /\ UNCHANGED <<users, transactions, logins>>
    BY <1>2 DEF Logout
  <2> HIDE DEF row
  <2> QED BY <2>1, <2>2, SessionStep
<1>3. ASSUME NEW s \in DOMAIN sessions, sessions' = [sessions EXCEPT ![s].expired = TRUE],
             UNCHANGED <<users, transactions, logins>>
      PROVE  SessionsInv' /\ DOMAIN sessions \subseteq DOMAIN sessions' /\ UNCHANGED users
  <2> DEFINE row == [sessions[s] EXCEPT !.expired = TRUE]
  <2>1. row \in SessionRow /\ row.transaction = sessions[s].transaction
    BY <1>1 DEF SessionRow
  <2>2. sessions' = [sessions EXCEPT ![s] = row]
    BY <1>3
  <2> HIDE DEF row
  <2> QED BY <1>3, <2>1, <2>2, SessionStep
<1>4. ASSUME NEW t \in DOMAIN transactions, transactions' = [transactions EXCEPT ![t].expired = TRUE],
             UNCHANGED <<users, sessions, logins>>
      PROVE  SessionsInv' /\ DOMAIN sessions \subseteq DOMAIN sessions' /\ UNCHANGED users
  <2> DEFINE row == [transactions[t] EXCEPT !.expired = TRUE]
  <2>1. transactions[t] \in Transaction
    BY DEF SessionsInv, LoginsInv
  <2>2. row \in Transaction /\ (transactions[t].consumed => row.consumed)
    BY <2>1 DEF Transaction
  <2>3. transactions' = [transactions EXCEPT ![t] = row]
    BY <1>4
  <2> HIDE DEF row
  <2>4. transactions' \in Seq(Transaction) /\ Consumed \subseteq Consumed'
    BY <2>2, <2>3, TransactionStep DEF SessionsInv
  <2>5. LoginsInv'
    BY <1>4, <2>4 DEF SessionsInv, LoginsInv, LoginInv
  <2>6. IssuedInv'
    BY <1>4, <2>4, IssuedKept DEF SessionsInv
  <2> QED BY <1>4, <2>5, <2>6 DEF SessionsInv
<1> QED BY <1>2, <1>3, <1>4 DEF SessionEnds, Expire

\* What holds of a step, for the property of accounts.
Guarded ==
  AccountsInv' /\ RequestsInv' /\ SessionsInv' /\ AccountsStay /\ AdminsAreTheOwners
    /\ DOMAIN sessions \subseteq DOMAIN sessions'

\* Every step keeps accounts, requests and sessions, and changes of administrators are the Owner's.
LEMMA AccountSteps ==
  ASSUME ReaderInv, AccountsInv, RequestsInv, SessionsInv, [Next]_vars
  PROVE  Guarded
<1> USE DEF Guarded
<1>1. ASSUME UNCHANGED <<transactions, logins, sessions>>
      PROVE  SessionsInv' /\ DOMAIN sessions \subseteq DOMAIN sessions'
  BY <1>1 DEF SessionsInv, LoginsInv, LoginInv, IssuedInv, Issued, Consumed
<1>2. ASSUME UNCHANGED users, bootstraps' \subseteq Email
      PROVE  AccountsInv' /\ AccountsStay /\ AdminsAreTheOwners
  BY <1>2, UsersUnchanged, NobodyBecomesAdmin DEF AccountsInv, Accounts, Owners
<1>3. bootstraps \subseteq Email
  BY DEF AccountsInv
<1>4. CASE LoginStarts
  <2>1. UNCHANGED <<users, bootstraps, requests, sessions>> /\ BeginLogin
    BY <1>4 DEF LoginStarts, BeginLogin
  <2> QED BY <1>2, <1>3, <2>1, BeginLoginStep, RequestsKept
<1>5. CASE Callback
  <2>1. UNCHANGED requests
    BY <1>5 DEF Callback
  <2> QED BY <1>5, <2>1, CallbackStep, RequestsKept, NobodyBecomesAdmin
<1>6. CASE SessionEnds
  <2>1. UNCHANGED <<bootstraps, requests>>
    BY <1>6 DEF SessionEnds
  <2> QED BY <1>2, <1>3, <1>6, <2>1, SessionEndsStep, RequestsKept
<1>7. CASE Deploy
  <2>1. UNCHANGED <<users, bootstraps, requests, transactions, logins, sessions>>
    BY <1>7 DEF Deploy, Redeploy
  <2> QED BY <1>1, <1>2, <1>3, <2>1, RequestsKept
<1>8. CASE OwnerCommand
  <2>1. UNCHANGED <<users, requests, transactions, logins, sessions>> /\ bootstraps' \subseteq Email
    BY <1>3, <1>8 DEF OwnerCommand, BootstrapReads, sessionVars
  <2> QED BY <1>1, <1>2, <2>1, RequestsKept
<1>9. CASE OwnerInserted
  <2>1. UNCHANGED <<requests, transactions, logins, sessions>> /\ \E e \in bootstraps : BootstrapInserts(e)
    BY <1>9 DEF OwnerInserted, sessionVars
  <2>2. AccountsInv' /\ AccountsStay /\ NoAdminChanges
    BY <2>1, BootstrapStep
  <2> QED BY <1>1, <2>1, <2>2, RequestsKept, NobodyBecomesAdmin
<1>10. ASSUME NEW s \in DOMAIN sessions, ChangeAdmitted(s) PROVE Guarded
  <2> DEFINE identity == sessions[s].identity
  <2> DEFINE new == [session |-> s, identity |-> identity, role |-> users[identity.email].role]
  <2>1. UNCHANGED <<bootstraps, transactions, logins, sessions>> /\ Admitted(s) /\ requests' = requests \union {new}
    BY <1>10 DEF ChangeAdmitted, sessionVars
  <2>2. /\ AccountsInv' /\ AccountsStay /\ SameRoles /\ Owners' = Owners
        /\ identity \in Identity /\ identity.email \in Accounts'
        /\ users'[identity.email].sub = identity.subject
    BY <2>1, AdmittedStep
  <2>3. identity.email \in Accounts
    BY <2>1 DEF Admitted, Authenticates, Resolvable, ActiveAccounts
  <2>4. new.role = "OWNER" => identity.email \in Owners'
    BY <2>2, <2>3 DEF Owners
  <2>5. \A r \in requests :
          /\ r.identity \in Identity /\ r.identity.email \in Accounts'
          /\ users'[r.identity.email].sub = r.identity.subject
          /\ r.role = "OWNER" => r.identity.email \in Owners'
    BY <2>2, SubjectsAreSomething DEF RequestsInv, AccountsStay, BindingStays
  <2>6. RequestsInv'
    BY <2>1, <2>2, <2>4, <2>5 DEF RequestsInv
  <2> QED BY <1>1, <2>1, <2>2, <2>6, NobodyBecomesAdmin
<1>11. ASSUME NEW s \in DOMAIN sessions, Admitted(s),
              UNCHANGED <<bootstraps, requests, transactions, logins, sessions>>
       PROVE  Guarded
  BY <1>1, <1>11, AdmittedStep, RequestsKept, NobodyBecomesAdmin
<1>12. ASSUME NEW s \in DOMAIN sessions, ListOpened(s) PROVE Guarded
  BY <1>11, <1>12 DEF ListOpened, sessionVars
<1>13. CASE NextPage
  <2>1. UNCHANGED <<bootstraps, requests, transactions, logins, sessions>>
    BY <1>13 DEF NextPage, sessionVars
  <2>2. CASE Admitted(reading.session)
    BY <1>11, <1>13, <2>1, <2>2 DEF NextPage, ReaderInv
  <2>3. CASE UNCHANGED users
    BY <1>1, <1>2, <1>3, <2>1, <2>3, RequestsKept
  <2> QED BY <1>13, <2>2, <2>3 DEF NextPage
<1>14. ASSUME AccountsAlone, requests' \subseteq requests PROVE Guarded
  <2>1. UNCHANGED <<users, bootstraps, transactions, logins, sessions>>
    BY <1>14 DEF AccountsAlone, accounts, accountVars, sessionVars
  <2> QED BY <1>1, <1>2, <1>3, <1>14, <2>1, RequestsKept
<1>15. ASSUME NEW r \in requests, RequestEnds(r) PROVE Guarded
  <2>1. requests' = requests \ {r}
    BY <1>15 DEF RequestEnds
  <2>2. CASE UserChange(r)
    <3>1. AccountsInv' /\ AccountsStay /\ (r.role # "OWNER" => NoAdminChanges)
      BY <2>2, UserChangeStep
    <3>2. UNCHANGED <<transactions, logins, sessions>>
      BY <2>2 DEF UserChange, sessionVars
    <3>3. r.role = "OWNER" => AdminsAreTheOwners
      BY <2>1 DEF RequestsInv, OwnersRequests, AdminsAreTheOwners
    <3> QED BY <1>1, <2>1, <3>1, <3>2, <3>3, RequestsKept, NobodyBecomesAdmin
  <2>3. CASE FleetChange \/ PolicyChange \/ NothingChanged
    <3>1. AccountsAlone
      BY <2>3 DEF FleetChange, PolicyChange, NothingChanged
    <3> QED BY <1>14, <2>1, <3>1
  <2> QED BY <1>15, <2>2, <2>3 DEF RequestEnds
<1>16. CASE Command \/ FleetObserved \/ AlertRaised \/ AlertStored
  BY <1>14, <1>16 DEF Command, FleetObserved, AlertRaised, AlertStored
<1>17. CASE UNCHANGED vars
  BY <1>14, <1>17 DEF vars, AccountsAlone
<1> QED
  BY <1>4, <1>5, <1>6, <1>7, <1>8, <1>9, <1>10, <1>12, <1>13, <1>15, <1>16, <1>17 DEF Next

\* Whoever reads a list goes on in the session it was opened in.
LEMMA ReaderSteps ==
  ASSUME ReaderInv, DOMAIN sessions \subseteq DOMAIN sessions', [Next]_vars
  PROVE  ReaderInv'
<1>1. CASE UNCHANGED reading
  BY <1>1 DEF ReaderInv
<1>2. CASE reading' = StillSteady
  BY <1>2 DEF StillSteady, ReaderInv
<1>3. ASSUME NEW s \in DOMAIN sessions, ListOpened(s) PROVE ReaderInv'
  <2>1. reading'.session = s /\ "session" \in DOMAIN reading'
    BY <1>3 DEF ListOpened, DevicesAsked, IncidentsAsked, ReadingStarts
  <2> QED BY <2>1 DEF ReaderInv
<1>4. CASE NextPage
  <2>1. CASE PageRead
    BY <1>4, <2>1 DEF NextPage, PageRead, ReaderInv
  <2>2. CASE ReadingEnds
    BY <2>2 DEF ReadingEnds, NothingRead, ReaderInv
  <2> QED BY <1>4, <2>1, <2>2 DEF NextPage
<1>5. CASE LoginStarts \/ Callback \/ SessionEnds \/ Deploy \/ OwnerCommand \/ OwnerInserted
  BY <1>1, <1>5 DEF LoginStarts, Callback, SessionEnds, Deploy, OwnerCommand, OwnerInserted, FleetAlone
<1>6. ASSUME NEW s \in DOMAIN sessions, ChangeAdmitted(s) PROVE ReaderInv'
  BY <1>1, <1>6 DEF ChangeAdmitted, FleetAlone
<1>7. ASSUME NEW r \in requests, RequestEnds(r) PROVE ReaderInv'
  BY <1>1, <1>2, <1>7
  DEF RequestEnds, UserChange, FleetChange, PolicyChange, NothingChanged, FleetAlone
<1>8. CASE Command \/ FleetObserved \/ AlertRaised \/ AlertStored \/ UNCHANGED vars
  BY <1>1, <1>2, <1>8 DEF Command, FleetObserved, AlertRaised, AlertStored, FleetAlone, vars
<1> QED BY <1>3, <1>4, <1>5, <1>6, <1>7, <1>8 DEF Next

(***************************************************************************)
(* The fleet, and the policies of alerts.                                  *)
(***************************************************************************)
\* The row of the device whose alert is being raised does not change.
LockHeld ==
  raising # NothingRaised => \A d \in Devices : raising.device = d => d \in Devices' /\ fleet'[d] = fleet[d]

\* A change of one row: of a device that is not locked, or of a new one.
LEMMA RowStep ==
  ASSUME FleetInv, NEW d \in Device, NEW row, fleet' = [fleet EXCEPT ![d] = row],
         row # None => "project" \in DOMAIN row /\ row.project \in Project,
         d \in Devices => DeviceFree(d)
  PROVE  FleetInv' /\ LockHeld
<1>1. DOMAIN fleet' = Device /\ fleet'[d] = row /\ \A e \in Device : e # d => fleet'[e] = fleet[e]
  BY DEF FleetInv
<1>2. \A e \in Devices : e \in Device /\ fleet[e] # None
  BY DEF Devices
<1>3. FleetInv'
  BY <1>1 DEF FleetInv, Devices
<1>4. LockHeld
  BY <1>1, <1>2 DEF LockHeld, DeviceFree, Devices
<1> QED BY <1>3, <1>4

\* A step that leaves the fleet alone keeps it.
LEMMA FleetKept ==
  ASSUME FleetInv, UNCHANGED fleet
  PROVE  FleetInv' /\ LockHeld
BY DEF FleetInv, LockHeld, Devices

\* A device that is enrolled was not there before.
LEMMA EnrollStep ==
  ASSUME FleetInv, NEW d \in Device, NEW p \in Projects, NEW name, Enroll(d, p, name)
  PROVE  FleetInv' /\ LockHeld
<1>1. d \notin Devices /\ fleet' = [fleet EXCEPT ![d] = NewDevice(p, name)] /\ p \in Project
  BY DEF Enroll, Projects
<1>2. "project" \in DOMAIN NewDevice(p, name) /\ NewDevice(p, name).project \in Project
  BY <1>1 DEF NewDevice
<1> QED BY <1>1, <1>2, RowStep

\* Every change of a device that is there waits for its lock.
LEMMA DeviceStep ==
  ASSUME FleetInv, NEW d \in Devices, DeviceFree(d)
  PROVE  /\ \A p \in Projects : Move(d, p) => FleetInv' /\ LockHeld
         /\ \A enabled : SetMonitoring(d, enabled) => FleetInv' /\ LockHeld
         /\ \A name : Rename(d, name) => FleetInv' /\ LockHeld
         /\ \A monitored : SetGPUPolicy(d, monitored) => FleetInv' /\ LockHeld
         /\ \A gpu : HeartbeatAccepted(d, gpu) => FleetInv' /\ LockHeld
         /\ \A state : SweepFindsOverdue(d, state) => FleetInv' /\ LockHeld
<1>1. d \in Device /\ "project" \in DOMAIN fleet[d] /\ fleet[d].project \in Project
  BY DEF Devices, FleetInv
<1>2. ASSUME NEW row, fleet' = [fleet EXCEPT ![d] = row], "project" \in DOMAIN row, row.project \in Project
      PROVE  FleetInv' /\ LockHeld
  BY <1>1, <1>2, RowStep
<1>3. ASSUME NEW p \in Projects, Move(d, p) PROVE FleetInv' /\ LockHeld
  <2> DEFINE row == [fleet[d] EXCEPT !.project = p]
  <2>1. fleet' = [fleet EXCEPT ![d] = row] /\ p \in Project
    BY <1>3 DEF Move, Projects
  <2>2. "project" \in DOMAIN row /\ row.project \in Project
    BY <1>1, <2>1
  <2> HIDE DEF row
  <2> QED BY <1>2, <2>1, <2>2
<1>4. ASSUME NEW enabled, SetMonitoring(d, enabled) PROVE FleetInv' /\ LockHeld
  <2> DEFINE row == [fleet[d] EXCEPT !.enabled = enabled]
  <2>1. fleet' = [fleet EXCEPT ![d] = row]
    BY <1>4 DEF SetMonitoring
  <2>2. "project" \in DOMAIN row /\ row.project \in Project
    BY <1>1
  <2> HIDE DEF row
  <2> QED BY <1>2, <2>1, <2>2
<1>5. ASSUME NEW name, Rename(d, name) PROVE FleetInv' /\ LockHeld
  <2> DEFINE row == [fleet[d] EXCEPT !.name = name]
  <2>1. fleet' = [fleet EXCEPT ![d] = row]
    BY <1>5 DEF Rename
  <2>2. "project" \in DOMAIN row /\ row.project \in Project
    BY <1>1
  <2> HIDE DEF row
  <2> QED BY <1>2, <2>1, <2>2
<1>6. ASSUME NEW monitored, SetGPUPolicy(d, monitored) PROVE FleetInv' /\ LockHeld
  <2> DEFINE row == [fleet[d] EXCEPT !.gpuMonitored = monitored]
  <2>1. fleet' = [fleet EXCEPT ![d] = row]
    BY <1>6 DEF SetGPUPolicy
  <2>2. "project" \in DOMAIN row /\ row.project \in Project
    BY <1>1
  <2> HIDE DEF row
  <2> QED BY <1>2, <2>1, <2>2
<1>7. ASSUME NEW gpu, HeartbeatAccepted(d, gpu) PROVE FleetInv' /\ LockHeld
  <2> DEFINE row == [fleet[d] EXCEPT !.seen = LastSeen + 1, !.state = "ONLINE", !.gpu = gpu]
  <2>1. fleet' = [fleet EXCEPT ![d] = row]
    BY <1>1, <1>7 DEF HeartbeatAccepted, FleetInv
  <2>2. "project" \in DOMAIN row /\ row.project \in Project
    BY <1>1
  <2> HIDE DEF row
  <2> QED BY <1>2, <2>1, <2>2
<1>8. ASSUME NEW state, SweepFindsOverdue(d, state) PROVE FleetInv' /\ LockHeld
  <2> DEFINE row == [fleet[d] EXCEPT !.state = state]
  <2>1. fleet' = [fleet EXCEPT ![d] = row]
    BY <1>8 DEF SweepFindsOverdue
  <2>2. "project" \in DOMAIN row /\ row.project \in Project
    BY <1>1
  <2> HIDE DEF row
  <2> QED BY <1>2, <2>1, <2>2
<1> QED BY <1>3, <1>4, <1>5, <1>6, <1>7, <1>8

\* No step changes the device that is locked.
LEMMA FleetSteps ==
  ASSUME FleetInv, [Next]_vars
  PROVE  FleetInv' /\ LockHeld
<1>1. ASSUME FleetAlone \/ UNCHANGED fleetVars PROVE FleetInv' /\ LockHeld
  BY <1>1, FleetKept DEF FleetAlone, fleetVars
<1>2. ASSUME ProjectCreated \/ DeviceEnrolled \/ DeviceChange PROVE FleetInv' /\ LockHeld
  <2>1. CASE ProjectCreated
    BY <2>1, FleetKept DEF ProjectCreated, CreateProject
  <2>2. CASE DeviceEnrolled
    BY <2>2, EnrollStep DEF DeviceEnrolled
  <2>3. CASE DeviceChange
    BY <2>3, DeviceStep DEF DeviceChange
  <2> QED BY <1>2, <2>1, <2>2, <2>3
<1>3. CASE LoginStarts \/ Callback \/ SessionEnds \/ Deploy \/ OwnerCommand \/ OwnerInserted
  BY <1>1, <1>3 DEF LoginStarts, Callback, SessionEnds, Deploy, OwnerCommand, OwnerInserted
<1>4. ASSUME NEW s \in DOMAIN sessions, ChangeAdmitted(s) \/ ListOpened(s) PROVE FleetInv' /\ LockHeld
  BY <1>1, <1>4 DEF ChangeAdmitted, ListOpened
<1>5. ASSUME NEW r \in requests, RequestEnds(r) PROVE FleetInv' /\ LockHeld
  BY <1>1, <1>2, <1>5 DEF RequestEnds, UserChange, FleetChange, PolicyChange, NothingChanged
<1>6. CASE NextPage
  BY <1>1, <1>6 DEF NextPage
<1>7. CASE Command
  <2>1. ASSUME NEW d \in Devices, DeviceFree(d),
               \/ \E name \in Name : Rename(d, name)
               \/ \E monitored \in BOOLEAN : SetGPUPolicy(d, monitored)
        PROVE  FleetInv' /\ LockHeld
    BY <2>1, DeviceStep
  <2>2. ASSUME NEW p, NEW name, NEW isActive, UpdateProject(p, name, isActive) PROVE FleetInv' /\ LockHeld
    BY <2>2, FleetKept DEF UpdateProject
  <2>3. CommandChange
    BY <1>7 DEF Command
  <2> QED BY <1>2, <2>1, <2>2, <2>3 DEF CommandChange
<1>8. CASE FleetObserved
  <2>1. PICK d \in Devices : DeviceFree(d) /\
           \/ \E gpu \in GPUState : HeartbeatAccepted(d, gpu)
           \/ \E state \in State : SweepFindsOverdue(d, state)
           \/ \E opened \in {LastOpened, LastOpened + 1} : IncidentOpens(d, opened)
           \/ \E i \in IncidentsOf(d) : IncidentCloses(i)
    BY <1>8 DEF FleetObserved
  <2>2. ASSUME NEW opened, IncidentOpens(d, opened) PROVE FleetInv' /\ LockHeld
    BY <2>2, FleetKept DEF IncidentOpens
  <2>3. ASSUME NEW incident, IncidentCloses(incident) PROVE FleetInv' /\ LockHeld
    BY <2>3, FleetKept DEF IncidentCloses
  <2> QED BY <2>1, <2>2, <2>3, DeviceStep
<1>9. CASE AlertRaised \/ AlertStored \/ UNCHANGED vars
  BY <1>1, <1>9 DEF AlertRaised, AlertStored, vars
<1> QED BY <1>3, <1>4, <1>5, <1>6, <1>7, <1>8, <1>9 DEF Next

\* A policy that is there is no missing row.
LEMMA EffectiveTyped ==
  ASSUME FleetInv, PolicyInv, NEW d \in Devices
  PROVE  /\ EffectivePolicy(d) \in Selection
         /\ devicePolicy[d] # None => EffectivePolicy(d) = [source |-> "DEVICE", policy |-> devicePolicy[d]]
         /\ devicePolicy[d] = None /\ projectPolicy[fleet[d].project] # None =>
              EffectivePolicy(d) = [source |-> "PROJECT", policy |-> projectPolicy[fleet[d].project]]
         /\ devicePolicy[d] = None /\ projectPolicy[fleet[d].project] = None =>
              EffectivePolicy(d) = [source |-> "GLOBAL", policy |-> GlobalPolicy]
<1>1. d \in Device /\ fleet[d].project \in Project
  BY DEF Devices, FleetInv
<1>2. devicePolicy[d] \in Policy \union {None} /\ projectPolicy[fleet[d].project] \in Policy \union {None}
  BY <1>1 DEF PolicyInv
<1> QED BY <1>2 DEF EffectivePolicy, SelectEmailPolicy, Selection, GlobalPolicy

\* While nothing that the device's policy depends on changes, it is the same.
LEMMA EffectiveKept ==
  ASSUME NEW d, fleet'[d] = fleet[d], devicePolicy'[d] = devicePolicy[d],
         devicePolicy[d] # None \/ projectPolicy'[fleet[d].project] = projectPolicy[fleet[d].project]
  PROVE  EffectivePolicy(d)' = EffectivePolicy(d)
BY DEF EffectivePolicy, SelectEmailPolicy

\* The alert under way stays as it is while its device and its project keep their policies.
LEMMA RaisingKept ==
  ASSUME RaisingInv, LockHeld, UNCHANGED raising,
         raising # NothingRaised =>
           /\ devicePolicy'[raising.device] = devicePolicy[raising.device]
           /\ \/ projectPolicy'[fleet[raising.device].project] = projectPolicy[fleet[raising.device].project]
              \/ devicePolicy[raising.device] # None \/ raising.changed
  PROVE  RaisingInv'
<1> SUFFICES ASSUME raising # NothingRaised PROVE RaisingInv'
  BY DEF RaisingInv
<1> DEFINE d == raising.device
<1>1. /\ raising \in [device : Device, kind : Kind, selected : Selection, changed : BOOLEAN] /\ d \in Devices
      /\ raising.selected = EffectivePolicy(d) \/ (raising.changed /\ devicePolicy[d] = None)
  BY DEF RaisingInv
<1>2. d \in Devices' /\ fleet'[d] = fleet[d] /\ devicePolicy'[d] = devicePolicy[d]
  BY <1>1 DEF LockHeld
<1>3. CASE raising.changed /\ devicePolicy[d] = None
  BY <1>1, <1>2, <1>3 DEF RaisingInv
<1>4. CASE ~ (raising.changed /\ devicePolicy[d] = None)
  <2>1. EffectivePolicy(d)' = EffectivePolicy(d)
    <3>1. d' = d
      OBVIOUS
    <3> HIDE DEF d
    <3>2. devicePolicy[d] # None \/ projectPolicy'[fleet[d].project] = projectPolicy[fleet[d].project]
      BY <1>4 DEF d
    <3> QED BY <1>2, <3>1, <3>2, EffectiveKept
  <2> QED BY <1>1, <1>2, <1>4, <2>1 DEF RaisingInv
<1> QED BY <1>3, <1>4

\* A step that leaves the policies alone keeps them, and the alert under way.
LEMMA PolicyKept ==
  ASSUME PolicyInv, LockHeld, UNCHANGED policyVars
  PROVE  PolicyInv'
<1>1. UNCHANGED <<projectPolicy, devicePolicy, raising, alerts>>
  BY DEF policyVars
<1>2. RaisingInv'
  BY <1>1, RaisingKept DEF PolicyInv
<1> QED BY <1>1, <1>2 DEF PolicyInv

\* The project's policy may be replaced meanwhile, which is noted.
LEMMA ProjectPolicyStep ==
  ASSUME FleetInv, PolicyInv, UNCHANGED fleet, NEW p \in Projects, NEW policy \in Policy, UpdateProjectPolicy(p, policy)
  PROVE  PolicyInv'
<1>1. /\ projectPolicy' = [projectPolicy EXCEPT ![p] = policy] /\ p \in Project
      /\ UNCHANGED <<devicePolicy, alerts>>
  BY DEF UpdateProjectPolicy, Projects
<1>2. /\ projectPolicy' \in [Project -> Policy \union {None}]
      /\ \A q \in Project : q # p => projectPolicy'[q] = projectPolicy[q]
  BY <1>1 DEF PolicyInv
<1>3. LockHeld
  BY FleetKept
<1>4. RaisingInv'
  <2>1. CASE UNCHANGED raising /\ (raising # NothingRaised => fleet[raising.device].project # p)
    <3>1. raising # NothingRaised => fleet[raising.device].project \in Project
      BY DEF PolicyInv, RaisingInv, FleetInv
    <3> QED BY <1>1, <1>2, <1>3, <2>1, <3>1, RaisingKept DEF PolicyInv
  <2>2. CASE raising # NothingRaised /\ raising' = [raising EXCEPT !.changed = TRUE]
    <3> DEFINE d == raising.device
    <3>1. /\ raising \in [device : Device, kind : Kind, selected : Selection, changed : BOOLEAN] /\ d \in Devices
          /\ raising.selected = EffectivePolicy(d) \/ devicePolicy[d] = None
      BY <2>2 DEF PolicyInv, RaisingInv
    <3>2. /\ raising' \in [device : Device, kind : Kind, selected : Selection, changed : BOOLEAN]
          /\ raising'.device = d /\ raising'.changed /\ raising'.selected = raising.selected
      BY <2>2, <3>1
    <3>3. Devices' = Devices /\ devicePolicy' = devicePolicy
      BY <1>1 DEF Devices
    <3>4. CASE devicePolicy[d] = None
      BY <3>1, <3>2, <3>3, <3>4 DEF RaisingInv
    <3>5. CASE devicePolicy[d] # None
      <4>1. EffectivePolicy(d) = [source |-> "DEVICE", policy |-> devicePolicy[d]]
        BY <3>1, <3>5, EffectiveTyped
      <4>2. SelectEmailPolicy(projectPolicy'[fleet'[d].project], devicePolicy'[d])
              = [source |-> "DEVICE", policy |-> devicePolicy[d]]
        BY <3>3, <3>5 DEF SelectEmailPolicy
      <4>3. EffectivePolicy(raising.device)' = raising.selected
        BY <3>1, <3>2, <3>5, <4>1, <4>2 DEF EffectivePolicy
      <4> QED BY <3>1, <3>2, <3>3, <4>3 DEF RaisingInv
    <3> QED BY <3>4, <3>5
  <2> QED BY <2>1, <2>2 DEF UpdateProjectPolicy
<1> QED BY <1>1, <1>2, <1>4 DEF PolicyInv

\* The device's own waits for the lock.
LEMMA DevicePolicyStep ==
  ASSUME PolicyInv, UNCHANGED fleet, FleetInv, NEW d \in Devices, DeviceFree(d), NEW policy \in Policy \union {None},
         devicePolicy' = [devicePolicy EXCEPT ![d] = policy], UNCHANGED <<projectPolicy, raising, alerts>>
  PROVE  PolicyInv'
<1>1. d \in Device
  BY DEF Devices
<1>2. /\ devicePolicy' \in [Device -> Policy \union {None}]
      /\ \A e \in Device : e # d => devicePolicy'[e] = devicePolicy[e]
  BY <1>1 DEF PolicyInv
<1>3. raising # NothingRaised => raising.device \in Device /\ raising.device # d
  BY DEF PolicyInv, RaisingInv, DeviceFree
<1>4. RaisingInv'
  BY <1>2, <1>3, FleetKept, RaisingKept DEF PolicyInv
<1> QED BY <1>2, <1>4 DEF PolicyInv

\* Either kind of change of a policy.
LEMMA PolicyChangeStep ==
  ASSUME FleetInv, PolicyInv, PolicyChange
  PROVE  PolicyInv'
<1>1. UNCHANGED fleet
  BY DEF PolicyChange, FleetAlone, fleetVars
<1>2. CASE ProjectPolicyChange
  BY <1>1, <1>2, ProjectPolicyStep DEF ProjectPolicyChange
<1>3. CASE DevicePolicyChange
  <2>1. PICK p \in Projects, d \in Devices :
          \/ \E policy \in Policy : UpdateDevicePolicy(p, d, policy, ActiveAccounts)
          \/ ResetDevicePolicy(p, d)
    BY <1>3 DEF DevicePolicyChange
  <2>2. \E policy \in Policy \union {None} :
          /\ devicePolicy' = [devicePolicy EXCEPT ![d] = policy] /\ DeviceFree(d)
          /\ UNCHANGED <<projectPolicy, raising, alerts>>
    BY <2>1 DEF UpdateDevicePolicy, ResetDevicePolicy
  <2> QED BY <1>1, <2>2, DevicePolicyStep
<1> QED BY <1>2, <1>3 DEF PolicyChange

\* An alert begins with the policy of the console.
LEMMA AlertBeginsStep ==
  ASSUME FleetInv, PolicyInv, AlertRaised
  PROVE  PolicyInv'
<1>1. PICK d \in Devices, kind \in Kind : AlertBegins(d, kind)
  BY DEF AlertRaised
<1>2. /\ raising' = [device |-> d, kind |-> kind, selected |-> EffectivePolicy(d), changed |-> FALSE]
      /\ UNCHANGED <<projectPolicy, devicePolicy, alerts, fleet>>
  BY <1>1 DEF AlertBegins, AlertRaised, FleetAlone, fleetVars
<1>3. EffectivePolicy(d) \in Selection /\ d \in Device
  BY EffectiveTyped DEF Devices
<1>4. Devices' = Devices /\ EffectivePolicy(d)' = EffectivePolicy(d)
  BY <1>2 DEF Devices, EffectivePolicy
<1>5. EffectivePolicy(raising.device)' = EffectivePolicy(d)
  BY <1>2, <1>4 DEF EffectivePolicy
<1>6. RaisingInv'
  BY <1>2, <1>3, <1>4, <1>5 DEF RaisingInv
<1> QED BY <1>2, <1>6 DEF PolicyInv

\* The alert's destinations are those the console shows, though its recipients are
\* read after its policy was selected.
LEMMA AlertEndsStep ==
  ASSUME FleetInv, PolicyInv, AlertStored
  PROVE  /\ PolicyInv'
         /\ \/ Last(alerts').recipients = Resolved(raising.kind, EffectivePolicy(raising.device).policy)
            \/ raising.changed /\ devicePolicy[raising.device] = None
<1> DEFINE d == raising.device
<1> DEFINE policy == [raising.selected.policy EXCEPT !.recipients = ReadAgain(d, raising.selected)]
<1> DEFINE alert == [device |-> d, recipients |-> Resolved(raising.kind, policy)]
<1>1. /\ raising # NothingRaised /\ raising' = NothingRaised /\ alerts' = Append(alerts, alert)
      /\ UNCHANGED <<projectPolicy, devicePolicy>>
  BY DEF AlertStored, AlertEnds
<1>2. /\ raising \in [device : Device, kind : Kind, selected : Selection, changed : BOOLEAN] /\ d \in Devices
      /\ raising.selected = EffectivePolicy(d) \/ (raising.changed /\ devicePolicy[d] = None)
  BY <1>1 DEF PolicyInv, RaisingInv
<1>3. d \in Device /\ fleet[d].project \in Project
  BY <1>2 DEF FleetInv, Devices
<1>4. devicePolicy[d] \in Policy \union {None} /\ projectPolicy[fleet[d].project] \in Policy \union {None}
  BY <1>3 DEF PolicyInv
<1>5. raising.selected \in Selection /\ raising.selected.policy \in Policy \union {GlobalPolicy}
  BY <1>2 DEF Selection
<1>6. \A p \in Policy \union {GlobalPolicy} :
        /\ p.recipients \in SUBSET Address /\ "recipients" \in DOMAIN p
        /\ \A recipients : /\ [p EXCEPT !.recipients = recipients].recipients = recipients
                           /\ [p EXCEPT !.recipients = recipients].events = p.events
  <2>1. \A p \in [events : SUBSET Kind, recipients : SUBSET Email] \union {GlobalPolicy} :
          /\ p.recipients \in SUBSET Address /\ "recipients" \in DOMAIN p
          /\ \A recipients : /\ [p EXCEPT !.recipients = recipients].recipients = recipients
                             /\ [p EXCEPT !.recipients = recipients].events = p.events
    BY DEF GlobalPolicy, Address
  <2> QED BY <2>1, PoliciesAreWhole
<1>7. ReadAgain(d, raising.selected) \in SUBSET Address
  <2>1. \A p \in Policy \union {None} : RecipientsOf(p) \in SUBSET Address
    BY <1>6 DEF RecipientsOf
  <2> HIDE DEF d
  <2> QED BY <1>4, <1>5, <1>6, <2>1 DEF ReadAgain
<1>8. /\ policy.events = raising.selected.policy.events
      /\ policy.recipients = ReadAgain(d, raising.selected)
  BY <1>5, <1>6
<1>9. Resolved(raising.kind, policy) \in SUBSET Address
  BY <1>7, <1>8 DEF Resolved
<1>10. alerts \in Seq([device : Device, recipients : SUBSET Address])
       /\ alert \in [device : Device, recipients : SUBSET Address]
  BY <1>3, <1>9 DEF PolicyInv
<1>11. /\ alerts' \in Seq([device : Device, recipients : SUBSET Address])
       /\ Last(alerts') = alert
  <2> HIDE DEF alert
  <2>1. alerts' \in Seq([device : Device, recipients : SUBSET Address])
    BY <1>1, <1>10
  <2>2. Len(alerts') = Len(alerts) + 1 /\ alerts'[Len(alerts) + 1] = alert
    BY <1>1, <1>10
  <2> QED BY <2>1, <2>2 DEF Last
<1>12. PolicyInv'
  BY <1>1, <1>11 DEF PolicyInv, RaisingInv
<1>13. ASSUME raising.selected = EffectivePolicy(d)
       PROVE  Resolved(raising.kind, policy) = Resolved(raising.kind, EffectivePolicy(d).policy)
  <2>1. ReadAgain(d, raising.selected) = raising.selected.policy.recipients
    <3> HIDE DEF d
    <3>1. CASE devicePolicy[d] # None
      <4>1. raising.selected = [source |-> "DEVICE", policy |-> devicePolicy[d]]
        BY <1>2, <1>13, <3>1, EffectiveTyped
      <4> QED BY <3>1, <4>1 DEF ReadAgain, RecipientsOf
    <3>2. CASE devicePolicy[d] = None /\ projectPolicy[fleet[d].project] # None
      <4>1. raising.selected = [source |-> "PROJECT", policy |-> projectPolicy[fleet[d].project]]
        BY <1>2, <1>13, <3>2, EffectiveTyped
      <4> QED BY <3>2, <4>1 DEF ReadAgain, RecipientsOf
    <3>3. CASE devicePolicy[d] = None /\ projectPolicy[fleet[d].project] = None
      <4>1. raising.selected = [source |-> "GLOBAL", policy |-> GlobalPolicy]
        BY <1>2, <1>13, <3>3, EffectiveTyped
      <4> QED BY <4>1 DEF ReadAgain
    <3> QED BY <3>1, <3>2, <3>3
  <2> HIDE DEF policy, d
  <2> QED BY <1>8, <1>13, <2>1 DEF Resolved
<1> QED
  <2>1. Last(alerts').recipients = Resolved(raising.kind, policy)
    BY <1>11
  <2> HIDE DEF policy
  <2> QED BY <1>2, <1>12, <1>13, <2>1

\* Only an alert that is stored comes to the alerts.
LEMMA PolicySteps ==
  ASSUME FleetInv, PolicyInv, [Next]_vars
  PROVE  /\ PolicyInv'
         /\ alerts' # alerts =>
              \/ Last(alerts').recipients = Resolved(raising.kind, EffectivePolicy(raising.device).policy)
              \/ raising.changed /\ devicePolicy[raising.device] = None
<1>0. LockHeld
  BY FleetSteps
<1>1. ASSUME UNCHANGED policyVars PROVE PolicyInv' /\ alerts' = alerts
  BY <1>0, <1>1, PolicyKept DEF policyVars
<1>2. CASE LoginStarts \/ Callback \/ SessionEnds \/ Deploy \/ OwnerCommand \/ OwnerInserted
  BY <1>1, <1>2 DEF LoginStarts, Callback, SessionEnds, Deploy, OwnerCommand, OwnerInserted
<1>3. ASSUME NEW s \in DOMAIN sessions, ChangeAdmitted(s) \/ ListOpened(s) PROVE PolicyInv' /\ alerts' = alerts
  BY <1>1, <1>3 DEF ChangeAdmitted, ListOpened
<1>4. ASSUME NEW r \in requests, RequestEnds(r) PROVE PolicyInv' /\ alerts' = alerts
  <2>1. CASE PolicyChange
    <3>1. alerts' = alerts
      BY <2>1 DEF PolicyChange, ProjectPolicyChange, DevicePolicyChange,
                  UpdateProjectPolicy, UpdateDevicePolicy, ResetDevicePolicy
    <3> QED BY <2>1, <3>1, PolicyChangeStep
  <2>2. CASE UserChange(r) \/ FleetChange \/ NothingChanged
    BY <1>1, <2>2 DEF UserChange, FleetChange, NothingChanged
  <2> QED BY <1>4, <2>1, <2>2 DEF RequestEnds
<1>5. CASE NextPage \/ Command \/ FleetObserved \/ UNCHANGED vars
  BY <1>1, <1>5 DEF NextPage, Command, FleetObserved, vars
<1>6. CASE AlertRaised
  <2>1. alerts' = alerts
    BY <1>6 DEF AlertRaised, AlertBegins
  <2> QED BY <1>6, <2>1, AlertBeginsStep
<1>7. CASE AlertStored
  BY <1>7, AlertEndsStep
<1> QED BY <1>2, <1>3, <1>4, <1>5, <1>6, <1>7 DEF Next

(***************************************************************************)
(* The invariant, and the properties.                                      *)
(***************************************************************************)
\* At the first start, and with accounts that have logged in.
LEMMA InitConsole == Init => ConsoleInv
<1> SUFFICES ASSUME Init PROVE ConsoleInv
  OBVIOUS
<1>1. PICK start \in Start : users = start.users /\ sessions = start.sessions
  BY DEF Init
<1>2. bootstraps = {} /\ transactions = <<>> /\ logins = {} /\ requests = {}
  BY DEF Init
<1>3. AccountsInv
  BY <1>1, <1>2, StartIsLived DEF AccountsInv, Owners, Accounts
<1>4. sessions \in Seq(SessionRow) /\ \A s \in DOMAIN sessions : sessions[s].transaction = None
  BY <1>1, StartIsLived
<1>5. Issued = {}
  BY <1>4 DEF Issued
<1>7. SessionsInv
  BY <1>2, <1>4, <1>5 DEF SessionsInv, LoginsInv, IssuedInv
<1>8. RequestsInv
  BY <1>2 DEF RequestsInv
<1>9. ReaderInv
  BY DEF Init, ReaderInv, NothingRead
<1>10. FleetInv
  <2> DEFINE p == Min(Project)
  <2> DEFINE d == Min(Device)
  <2> DEFINE row == [NewDevice(p, Min(Name)) EXCEPT !.seen = 1]
  <2>1. /\ fleet = [e \in Device |-> IF e = d THEN row ELSE None]
        /\ projects = [q \in Project |-> IF q = p THEN [name |-> Min(Name), active |-> TRUE] ELSE None]
    BY DEF Init
  <2>2. "project" \in DOMAIN row /\ row.project = p
    BY DEF NewDevice
  <2> HIDE DEF row, d, p
  <2>3. ASSUME NEW e \in Devices PROVE fleet[e] = row
    BY <2>1 DEF Devices
  <2>4. p \in Project
    <3>1. \E q \in Project : \A other \in Project : q <= other
      BY LeastNumber, ProjectsExist, NumbersAreOrdered, Project \in SUBSET Nat
    <3> QED BY <3>1 DEF p, Min
  <2> QED BY <2>1, <2>2, <2>3, <2>4 DEF FleetInv
<1>11. PolicyInv
  BY DEF Init, PolicyInv, RaisingInv
<1> QED BY <1>3, <1>7, <1>8, <1>9, <1>10, <1>11 DEF ConsoleInv

\* Requests and logins, beside each other and beside commands and alerts, keep all of it.
LEMMA ConsoleSteps ==
  ASSUME ConsoleInv, [Next]_vars
  PROVE  /\ ConsoleInv' /\ Guarded
         /\ alerts' # alerts =>
              \/ Last(alerts').recipients = Resolved(raising.kind, EffectivePolicy(raising.device).policy)
              \/ raising.changed /\ devicePolicy[raising.device] = None
<1>1. ReaderInv /\ AccountsInv /\ RequestsInv /\ SessionsInv /\ FleetInv /\ PolicyInv
  BY DEF ConsoleInv
<1>2. Guarded
  BY <1>1, AccountSteps
<1>3. ReaderInv'
  BY <1>1, <1>2, ReaderSteps DEF Guarded
<1>4. FleetInv'
  BY <1>1, FleetSteps
<1>5. /\ PolicyInv'
      /\ alerts' # alerts =>
           \/ Last(alerts').recipients = Resolved(raising.kind, EffectivePolicy(raising.device).policy)
           \/ raising.changed /\ devicePolicy[raising.device] = None
  BY <1>1, PolicySteps
<1> QED BY <1>2, <1>3, <1>4, <1>5 DEF ConsoleInv, Guarded

\* So it holds in every state.
LEMMA ConsoleInvariant == Spec => []ConsoleInv
<1>1. Init => ConsoleInv
  BY InitConsole
<1>2. ConsoleInv /\ [Next]_vars => ConsoleInv'
  BY ConsoleSteps
<1> QED BY <1>1, <1>2, PTL DEF Spec

\* A set whose elements are all the same has one at most.
LEMMA AtMostOne ==
  ASSUME NEW S, \A a, b \in S : a = b
  PROVE  Cardinality(S) <= 1
<1>1. CASE S = {}
  BY <1>1, FS_EmptySet
<1>2. CASE S # {}
  <2>1. PICK a \in S : S = {a}
    BY <1>2
  <2> QED BY <2>1, FS_Singleton
<1> QED BY <1>1, <1>2

\* There is one Owner at most, who stays; administrators are the Owner's doing; an
\* account stays with its identity, which alone acts for it; a login gives one session.
THEOREM GuardedAccounts == Spec => AccountsAreGuarded
<1>1. ASSUME ConsoleInv, [Next]_vars
      PROVE  /\ OwnerIsSole /\ OwnerStays /\ AdminsAreTheOwners
             /\ BindingStays /\ RequestsAreBound /\ LoginsGiveOneSession
  <2>1. AccountsInv' /\ RequestsInv' /\ SessionsInv' /\ AccountsStay /\ AdminsAreTheOwners
    BY <1>1, ConsoleSteps DEF Guarded
  <2>2. OwnerIsSole
    <3>1. \A e, f \in Owners' : e = f
      BY <2>1 DEF AccountsInv
    <3> QED BY <3>1, AtMostOne DEF OwnerIsSole
  <2>3. RequestsAreBound
    BY <2>1 DEF RequestsInv, RequestsAreBound
  <2>4. LoginsGiveOneSession
    BY <2>1 DEF SessionsInv, IssuedInv, LoginsGiveOneSession
  <2> QED BY <2>1, <2>2, <2>3, <2>4 DEF AccountsStay
<1>2. ConsoleInv /\ [Next]_vars =>
        [/\ OwnerIsSole /\ OwnerStays /\ AdminsAreTheOwners
         /\ BindingStays /\ RequestsAreBound /\ LoginsGiveOneSession]_vars
  BY <1>1
<1> QED BY <1>2, ConsoleInvariant, PTL DEF Spec, AccountsAreGuarded

\* An alert goes where the console says that the events of its device go, unless the
\* project's policy was replaced while it was raised.
THEOREM OnePolicy == Spec => AlertsFollowOnePolicy
<1>1. ConsoleInv /\ [Next]_vars =>
        [alerts' # alerts =>
           \/ Last(alerts').recipients = Resolved(raising.kind, EffectivePolicy(raising.device).policy)
           \/ raising.changed /\ devicePolicy[raising.device] = None]_vars
  <2>1. ASSUME ConsoleInv, [Next]_vars, alerts' # alerts
        PROVE  \/ Last(alerts').recipients = Resolved(raising.kind, EffectivePolicy(raising.device).policy)
               \/ raising.changed /\ devicePolicy[raising.device] = None
    BY <2>1, ConsoleSteps
  <2> QED BY <2>1
<1> QED BY <1>1, ConsoleInvariant, PTL DEF Spec, AlertsFollowOnePolicy

(***************************************************************************)
(* Lists.                                                                  *)
(***************************************************************************)
RowsInv ==
  /\ projects \in [Project -> ProjectRow \union {None}]
  /\ fleet \in [Device -> DeviceRow \union {None}]
  /\ \A d \in Devices : fleet[d].project \in Projects
  /\ IsFiniteSet(Devices) /\ IsFiniteSet(Projects)
  /\ incidents \in Seq(IncidentRow)

\* Rows with keys, as lists have them.
ListRow == [id : Nat, key : Key]

\* What is steady was seen, or lies behind the cursor.
UnderWay ==
  /\ {"list", "query", "session", "cursor"} \subseteq DOMAIN reading
  /\ reading.steady \subseteq Rows(reading.list, reading.query)
  /\ reading.cursor = None => reading.pages = <<>>
  /\ reading.cursor # None =>
       /\ reading.cursor \in Key
       /\ \A r \in Seen : ~ Before(reading.cursor, r.key)
       /\ \A r \in reading.steady : r \in Seen \/ Before(reading.cursor, r.key)

ReadingInv ==
  /\ {"pages", "done", "steady"} \subseteq DOMAIN reading /\ reading = [f \in DOMAIN reading |-> reading[f]]
  /\ reading.done \in BOOLEAN /\ reading.pages \in Seq(SUBSET ListRow)
  /\ PagesInOrder
  /\ IF reading.done THEN reading.steady \subseteq Seen ELSE UnderWay

(***************************************************************************)
(* Keys and rows.                                                          *)
(***************************************************************************)
\* Keys are in a strict order in which any two can be compared.
LEMMA KeysAreOrdered ==
  ASSUME NEW a \in Key, NEW b \in Key, NEW c \in Key
  PROVE  /\ ~ Before(a, a)
         /\ Before(a, b) /\ Before(b, c) => Before(a, c)
         /\ a = b \/ Before(a, b) \/ Before(b, a)
<1>1. \A x \in {a, b, c} : x[1] \in Int /\ x[2] \in Int /\ x[3] \in Int /\ x = <<x[1], x[2], x[3]>>
  BY DEF Key
<1>2. a[1] = b[1] /\ a[2] = b[2] /\ a[3] = b[3] => a = b
  BY <1>1
<1> QED BY <1>1, <1>2 DEF Before

\* A device that is listed has a name of its own and one of its project.
LEMMA DeviceKeys ==
  ASSUME RowsInv, NEW d \in Devices
  PROVE  /\ d \in Nat /\ fleet[d] \in DeviceRow /\ projects[fleet[d].project] \in ProjectRow
         /\ DeviceKey(d) \in Key /\ DeviceKey(d)[3] = d
<1>1. d \in Device /\ fleet[d] \in DeviceRow /\ fleet[d].project \in Projects
  BY DEF Devices, RowsInv
<1>2. fleet[d].project \in Project /\ projects[fleet[d].project] \in ProjectRow
  BY <1>1 DEF Projects, RowsInv
<1>3. d \in Nat /\ fleet[d].name \in Nat /\ projects[fleet[d].project].name \in Nat
  BY <1>1, <1>2, NumbersAreOrdered DEF DeviceRow, ProjectRow
<1> QED BY <1>1, <1>2, <1>3 DEF DeviceKey, Key

\* The rows of a list are finitely many, with one key each.
LEMMA ListedRows ==
  ASSUME RowsInv, NEW list, NEW query
  PROVE  /\ Rows(list, query) \subseteq ListRow /\ IsFiniteSet(Rows(list, query))
         /\ \A r, s \in Rows(list, query) : r.key = s.key => r = s
<1>1. CASE list = "devices"
  <2> DEFINE row(d) == [id |-> d, key |-> DeviceKey(d)]
  <2>1. Rows(list, query) = {row(d) : d \in Listed(query)}
    BY <1>1 DEF Rows
  <2>2. Listed(query) \in SUBSET Devices /\ IsFiniteSet(Listed(query))
    BY FS_Subset, Listed(query) \in SUBSET Devices DEF Listed, RowsInv
  <2>3. \A d \in Listed(query) : row(d) \in ListRow /\ row(d).key[3] = d
    BY <2>2, DeviceKeys DEF ListRow
  <2>4. IsFiniteSet({row(d) : d \in Listed(query)})
    <3> DEFINE f == [d \in Listed(query) |-> row(d)]
    <3>1. f \in Surjection(Listed(query), {row(d) : d \in Listed(query)})
      BY Zenon DEF Surjection
    <3> QED BY <2>2, <3>1, FS_Surjection
  <2>5. \A d, e \in Listed(query) : row(d).key = row(e).key => row(d) = row(e)
    BY <2>3
  <2> HIDE DEF row
  <2> QED BY <2>1, <2>3, <2>4, <2>5
<1>2. CASE list # "devices"
  <2> DEFINE row(i) == [id |-> i, key |-> IncidentKey(i)]
  <2>1. Rows(list, query) = {row(i) : i \in IncidentsOf(query)}
    BY <1>2 DEF Rows
  <2>2. IncidentsOf(query) \in SUBSET (1 .. Len(incidents)) /\ Len(incidents) \in Nat
    BY DEF IncidentsOf, RowsInv
  <2>3. IsFiniteSet(IncidentsOf(query))
    <3>1. IsFiniteSet(1 .. Len(incidents))
      BY <2>2, FS_Interval
    <3> QED BY <2>2, <3>1, FS_Subset
  <2>4. \A i \in IncidentsOf(query) : row(i) \in ListRow /\ row(i).key[2] = -i /\ i \in Nat
    <3> SUFFICES ASSUME NEW i \in IncidentsOf(query) PROVE row(i) \in ListRow /\ row(i).key[2] = -i /\ i \in Nat
      OBVIOUS
    <3>1. i \in Nat /\ i \in 1 .. Len(incidents) /\ incidents[i] \in IncidentRow
      BY <2>2 DEF RowsInv
    <3> QED BY <3>1 DEF IncidentKey, ListRow, Key, IncidentRow
  <2>5. IsFiniteSet({row(i) : i \in IncidentsOf(query)})
    <3> DEFINE f == [i \in IncidentsOf(query) |-> row(i)]
    <3>1. f \in Surjection(IncidentsOf(query), {row(i) : i \in IncidentsOf(query)})
      BY Zenon DEF Surjection
    <3> QED BY <2>3, <3>1, FS_Surjection
  <2>6. \A i, j \in IncidentsOf(query) : row(i).key = row(j).key => row(i) = row(j)
    BY <2>4
  <2> HIDE DEF row
  <2> QED BY <2>1, <2>4, <2>5, <2>6
<1> QED BY <1>1, <1>2

\* A page ends where the next one begins.
LEMMA PageRows ==
  ASSUME RowsInv, NEW list, NEW query, NEW cursor
  PROVE  LET rows == Behind(list, query, cursor)
             page == Page(list, query, cursor)
         IN /\ page.items \subseteq rows
            /\ \/ page.next = None /\ page.items = rows
               \/ /\ page.next \in Key /\ page.next # None /\ \E r \in page.items : page.next = r.key
                  /\ \A r \in page.items : ~ Before(page.next, r.key)
                  /\ \A r \in rows \ page.items : Before(page.next, r.key)
<1> DEFINE rows == Behind(list, query, cursor)
<1> DEFINE page == Page(list, query, cursor)
<1> DEFINE R == {p \in rows \X rows : Before(p[1].key, p[2].key)}
<1> DEFINE items == {row \in rows : Cardinality({other \in rows : Before(other.key, row.key)}) < Limit}
<1> DEFINE last == CHOOSE row \in items : \A other \in items \ {row} : Before(other.key, row.key)
<1>1. page = [items |-> items, next |-> IF Cardinality(rows) > Limit THEN last.key ELSE None]
  BY DEF Page, First, LastOf
<1>2. /\ rows \in SUBSET ListRow /\ IsFiniteSet(rows) /\ \A r \in rows : r.key \in Key
      /\ \A r, s \in rows : r.key = s.key => r = s
  <2>1. rows \in SUBSET Rows(list, query)
    BY DEF Behind
  <2> HIDE DEF rows
  <2> QED BY <2>1, ListedRows, FS_Subset DEF ListRow
<1> HIDE DEF rows
<1>3. \A a, b \in rows : <<a, b>> \in R <=> Before(a.key, b.key)
  OBVIOUS
<1>4. Orders(R, rows)
  <2> HIDE DEF R
  <2> QED BY <1>2, <1>3, KeysAreOrdered DEF Orders
<1>5. items = Top(Limit, R, rows)
  <2> HIDE DEF R
  <2>1. \A row \in rows : {other \in rows : Before(other.key, row.key)} = Preceding(R, rows, row)
    BY <1>3 DEF Preceding
  <2> QED BY <2>1 DEF Top, Rank
<1>6. Limit \in Nat /\ Limit # 0 /\ Cardinality(rows) \in Nat
  BY <1>2, FS_CardinalityType, CapsArePositive
<1>7. CASE Cardinality(rows) <= Limit
  <2>1. items = rows
    <3> HIDE DEF R, items
    <3> QED BY <1>2, <1>4, <1>5, <1>6, <1>7, TopIsAll
  <2> HIDE DEF items, last
  <2> QED BY <1>1, <1>6, <1>7, <2>1 DEF rows
<1>8. CASE Cardinality(rows) > Limit
  <2>1. items \in SUBSET rows
    OBVIOUS
  <2> HIDE DEF R, items
  <2>2. Cardinality(items) <= Limit /\ items # rows
    BY <1>2, <1>4, <1>5, <1>6, <1>8, TopIsBounded
  <2>3. Cardinality(items) = Limit
    BY <1>2, <1>4, <1>5, <1>6, <2>2, TopIsFull
  <2>4. items # {}
    BY <1>6, <2>3, FS_EmptySet
  <2>5. \E row \in items : \A other \in items \ {row} : <<other, row>> \in R
    BY <1>2, <1>4, <2>1, <2>4, Highest
  <2>6. \E row \in items : \A other \in items \ {row} : Before(other.key, row.key)
    BY <1>3, <2>1, <2>5
  <2>7. last \in items /\ \A other \in items \ {last} : Before(other.key, last.key)
    BY <2>6
  <2> HIDE DEF last
  <2>8. \A row \in rows \ items : Before(last.key, row.key)
    <3>1. \A row \in rows \ items : <<last, row>> \in R
      BY <1>2, <1>4, <1>5, <1>6, <2>7, TopSeparates
    <3> QED BY <1>3, <2>1, <2>7, <3>1
  <2>9. \A row \in items : ~ Before(last.key, row.key)
    <3> SUFFICES ASSUME NEW row \in items PROVE ~ Before(last.key, row.key)
      OBVIOUS
    <3>1. last.key \in Key /\ row.key \in Key
      BY <1>2, <2>1, <2>7
    <3> QED BY <2>7, <3>1, KeysAreOrdered
  <2>10. page.next = last.key /\ page.items = items
    BY <1>1, <1>6, <1>8
  <2>11. page.next \in Key /\ page.next # None
    BY <1>2, <2>1, <2>7, <2>10, NoneIsNoRow
  <2> HIDE DEF page
  <2> QED BY <2>1, <2>7, <2>8, <2>9, <2>10, <2>11 DEF rows, page
<1> QED BY <1>6, <1>7, <1>8

\* What is listed depends on the rows alone.
LEMMA ListedAnew ==
  ASSUME NEW list, NEW query
  PROVE  /\ list = reading'.list /\ query = reading'.query =>
              Rows(reading.list, reading.query)' = Rows(list, query)'
         /\ list = reading.list /\ query = reading.query =>
              UNION {Rows(r.list, r.query)' : r \in {reading}} = Rows(list, query)'
         /\ UNCHANGED fleetVars => Rows(list, query)' = Rows(list, query)
<1>1. ASSUME list = reading'.list, query = reading'.query
      PROVE  Rows(reading.list, reading.query)' = Rows(list, query)'
  BY <1>1 DEF Rows, Listed, IncidentsOf, DeviceMatches, StateMatches, GPUMatches, Devices, DeviceKey, IncidentKey
<1>2. ASSUME list = reading.list, query = reading.query
      PROVE  UNION {Rows(r.list, r.query)' : r \in {reading}} = Rows(list, query)'
  BY <1>2 DEF Rows, Listed, IncidentsOf, DeviceMatches, StateMatches, GPUMatches, Devices, DeviceKey, IncidentKey
<1>3. ASSUME UNCHANGED fleetVars
      PROVE  Rows(list, query)' = Rows(list, query)
  BY <1>3 DEF fleetVars, Rows, Listed, IncidentsOf, DeviceMatches, StateMatches, GPUMatches, Devices, DeviceKey,
              IncidentKey
<1> QED BY <1>1, <1>2, <1>3

(***************************************************************************)
(* The reader.                                                             *)
(***************************************************************************)
\* Nothing is read.
LEMMA NothingReadStep ==
  ASSUME reading' = NothingRead
  PROVE  ReadingInv'
<1>1. reading' = [list |-> None, pages |-> <<>>, steady |-> {}, done |-> TRUE]
  BY DEF NothingRead
<1>2. Seen' = {} /\ PagesInOrder'
  BY <1>1 DEF Seen, PagesInOrder
<1>3. reading'.done = TRUE /\ reading'.steady = {} /\ reading'.pages = <<>>
  BY <1>1
<1>4. {"pages", "done", "steady"} \subseteq DOMAIN reading' /\ reading' = [f \in DOMAIN reading' |-> reading'[f]]
  BY <1>1
<1>5. <<>> \in Seq(SUBSET ListRow)
  OBVIOUS
<1> QED BY <1>2, <1>3, <1>4, <1>5 DEF ReadingInv

\* A reader begins: nothing is seen yet, and every row is steady.
LEMMA ReadingStartsStep ==
  ASSUME NEW list, NEW query, NEW s, ReadingStarts(list, query, s), UNCHANGED fleetVars
  PROVE  ReadingInv'
<1>1. reading' = [list |-> list, query |-> query, session |-> s, cursor |-> None,
                  pages |-> <<>>, done |-> FALSE, steady |-> Rows(list, query)]
  BY DEF ReadingStarts
<1>2. PagesInOrder'
  BY <1>1 DEF PagesInOrder
<1>3. Rows(reading.list, reading.query)' = Rows(list, query)
  BY <1>1, ListedAnew
<1>4. reading'.steady = Rows(list, query) /\ reading'.cursor = None /\ reading'.pages = <<>> /\ reading'.done = FALSE
  BY <1>1
<1>5. {"list", "query", "session", "cursor", "pages", "done", "steady"} \subseteq DOMAIN reading'
  BY <1>1
<1>6. UnderWay'
  BY <1>3, <1>4, <1>5 DEF UnderWay
<1>7. reading' = [f \in DOMAIN reading' |-> reading'[f]] /\ reading'.pages \in Seq(SUBSET ListRow)
  BY <1>1
<1> QED BY <1>2, <1>4, <1>5, <1>6, <1>7 DEF ReadingInv

\* A row that changes its place, or goes, is no longer steady.
LEMMA StillSteadyStep ==
  ASSUME ReadingInv, reading' = StillSteady
  PROVE  ReadingInv'
<1>1. CASE reading.done
  <2>1. reading' = reading
    BY <1>1 DEF StillSteady
  <2>2. PagesInOrder' /\ Seen' = Seen
    BY <2>1 DEF ReadingInv, PagesInOrder, Seen
  <2> QED BY <1>1, <2>1, <2>2 DEF ReadingInv
<1>2. CASE ~ reading.done
  <2>1. PICK list, query : list = reading.list /\ query = reading.query
    OBVIOUS
  <2>2. UnderWay
    BY <1>2 DEF ReadingInv
  <2>3. reading' = [reading EXCEPT !.steady = @ \intersect Rows(list, query)']
    BY <1>2, <2>1, ListedAnew DEF StillSteady
  <2>4. /\ DOMAIN reading' = DOMAIN reading /\ reading' = [f \in DOMAIN reading' |-> reading'[f]]
        /\ reading'.steady = reading.steady \intersect Rows(list, query)'
        /\ UNCHANGED <<reading.list, reading.query, reading.cursor, reading.pages, reading.done>>
    BY <2>2, <2>3 DEF ReadingInv, UnderWay
  <2>5. Seen' = Seen /\ (PagesInOrder' <=> PagesInOrder)
    BY <2>4 DEF Seen, PagesInOrder
  <2>6. Rows(reading.list, reading.query)' = Rows(list, query)'
    BY <2>1, <2>4, ListedAnew
  <2>7. UnderWay'
    BY <2>2, <2>4, <2>5, <2>6 DEF UnderWay
  <2> QED BY <1>2, <2>4, <2>5, <2>7 DEF ReadingInv
<1> QED BY <1>1, <1>2 DEF ReadingInv

\* Nor does it matter what else happens.
LEMMA ReadingKept ==
  ASSUME ReadingInv, UNCHANGED <<reading, fleetVars>>
  PROVE  ReadingInv'
<1>1. PICK list, query : list = reading.list /\ query = reading.query
  OBVIOUS
<1>2. Rows(reading.list, reading.query)' = Rows(reading.list, reading.query)
  <2>1. Rows(reading.list, reading.query)' = Rows(list, query)'
    BY <1>1, ListedAnew
  <2>2. Rows(list, query)' = Rows(list, query)
    BY ListedAnew
  <2> QED BY <1>1, <2>1, <2>2
<1>3. Seen' = Seen /\ (PagesInOrder' <=> PagesInOrder)
  BY DEF Seen, PagesInOrder
<1>4. UnderWay => UnderWay'
  BY <1>2, <1>3 DEF UnderWay
<1> QED BY <1>3, <1>4 DEF ReadingInv

\* The next page: it is behind all that was seen, and what it leaves is behind it.
LEMMA PageReadStep ==
  ASSUME RowsInv, ReadingInv, ~ reading.done, PageRead, UNCHANGED fleetVars
  PROVE  ReadingInv'
<1> DEFINE cursor == reading.cursor
<1> DEFINE rows == Behind(reading.list, reading.query, cursor)
<1> DEFINE page == Page(reading.list, reading.query, cursor)
<1> DEFINE pages == reading.pages
<1>1. reading' = [reading EXCEPT !.pages = Append(@, page.items), !.cursor = page.next, !.done = page.next = None]
  BY DEF PageRead
<1>2. UnderWay /\ reading.pages \in Seq(SUBSET ListRow) /\ PagesInOrder
  BY DEF ReadingInv
<1>3. /\ DOMAIN reading' = DOMAIN reading /\ reading' = [f \in DOMAIN reading' |-> reading'[f]]
      /\ reading'.pages = Append(pages, page.items) /\ reading'.cursor = page.next
      /\ reading'.done = (page.next = None)
      /\ UNCHANGED <<reading.list, reading.query, reading.steady>>
  BY <1>1, <1>2 DEF ReadingInv, UnderWay
<1>4. /\ page.items \subseteq rows
      /\ \/ page.next = None /\ page.items = rows
         \/ /\ page.next \in Key /\ page.next # None /\ \E r \in page.items : page.next = r.key
            /\ \A r \in page.items : ~ Before(page.next, r.key)
            /\ \A r \in rows \ page.items : Before(page.next, r.key)
  BY PageRows
<1>5. rows \in SUBSET ListRow
  BY ListedRows, rows \in SUBSET Rows(reading.list, reading.query) DEF Behind
<1>6. \A r \in rows : cursor # None => Before(cursor, r.key)
  BY DEF Behind
<1>7. \A r \in reading.steady : (cursor # None => Before(cursor, r.key)) => r \in rows
  BY <1>2 DEF UnderWay, Behind
<1>8. /\ cursor = None => pages = <<>>
      /\ cursor # None =>
           /\ cursor \in Key
           /\ \A r \in Seen : ~ Before(cursor, r.key)
           /\ \A r \in reading.steady : r \in Seen \/ Before(cursor, r.key)
  BY <1>2 DEF UnderWay
<1>9. {"list", "query", "session", "cursor", "pages", "done", "steady"} \subseteq DOMAIN reading
  BY <1>2 DEF ReadingInv, UnderWay
<1> HIDE DEF rows, page, cursor, pages
<1>10. pages \in Seq(SUBSET ListRow) /\ page.items \in SUBSET ListRow
  BY <1>2, <1>4, <1>5 DEF pages
<1>11. /\ Len(pages) \in Nat /\ DOMAIN pages = 1 .. Len(pages)
       /\ DOMAIN Append(pages, page.items) = 1 .. Len(pages) + 1
       /\ \A i \in 1 .. Len(pages) : Append(pages, page.items)[i] = pages[i] /\ pages[i] \in SUBSET ListRow
       /\ Append(pages, page.items)[Len(pages) + 1] = page.items
       /\ Append(pages, page.items) \in Seq(SUBSET ListRow)
  BY <1>10
<1>12. Seen' = Seen \union page.items
  <2>1. Seen = UNION {pages[i] : i \in DOMAIN pages}
    BY DEF Seen, pages
  <2>2. Seen' = UNION {Append(pages, page.items)[i] : i \in 1 .. Len(pages) + 1}
    BY <1>3, <1>11 DEF Seen
  <2>3. 1 .. Len(pages) + 1 = (1 .. Len(pages)) \union {Len(pages) + 1}
    BY <1>11
  <2> QED BY <1>11, <2>1, <2>2, <2>3
<1>13. Seen \subseteq ListRow /\ \A i \in 1 .. Len(pages) : pages[i] \subseteq Seen
  BY <1>11 DEF Seen, pages
<1>14. cursor = None => Seen = {}
  BY <1>8, <1>11 DEF Seen, pages
<1>15. \A r \in Seen, s \in page.items : Before(r.key, s.key)
  <2> SUFFICES ASSUME NEW r \in Seen, NEW s \in page.items PROVE Before(r.key, s.key)
    OBVIOUS
  <2>1. cursor # None /\ cursor \in Key /\ ~ Before(cursor, r.key) /\ Before(cursor, s.key)
    BY <1>4, <1>6, <1>8, <1>14
  <2>2. r.key \in Key /\ s.key \in Key
    BY <1>10, <1>13 DEF ListRow
  <2>3. r.key = cursor \/ Before(r.key, cursor)
    BY <2>1, <2>2, KeysAreOrdered
  <2> QED BY <2>1, <2>2, <2>3, KeysAreOrdered
<1>16. PagesInOrder'
  <2>1. SUFFICES ASSUME NEW i \in 1 .. Len(pages) + 1, NEW j \in 1 .. Len(pages) + 1, i < j,
                        NEW r \in Append(pages, page.items)[i], NEW s \in Append(pages, page.items)[j]
                 PROVE  Before(r.key, s.key)
    BY <1>3, <1>11 DEF PagesInOrder
  <2>2. i \in 1 .. Len(pages) /\ r \in pages[i] /\ r \in Seen
    BY <1>11, <1>13, <2>1
  <2>3. CASE j = Len(pages) + 1
    BY <1>11, <1>15, <2>1, <2>2, <2>3
  <2>4. CASE j \in 1 .. Len(pages)
    BY <1>2, <1>11, <2>1, <2>2, <2>4 DEF PagesInOrder, pages
  <2> QED BY <1>11, <2>3, <2>4
<1>17. \A r \in reading.steady : r \in Seen \/ r \in rows
  BY <1>7, <1>8
<1>18. reading'.pages \in Seq(SUBSET ListRow) /\ {"pages", "done", "steady"} \subseteq DOMAIN reading'
  BY <1>3, <1>9, <1>11
<1>19. CASE page.next = None /\ page.items = rows
  <2>1. reading'.done = TRUE /\ reading'.steady \subseteq Seen'
    BY <1>3, <1>12, <1>17, <1>19
  <2> QED BY <1>3, <1>16, <1>18, <2>1 DEF ReadingInv
<1>20. CASE /\ page.next \in Key /\ page.next # None /\ \E r \in page.items : page.next = r.key
            /\ \A r \in page.items : ~ Before(page.next, r.key)
            /\ \A r \in rows \ page.items : Before(page.next, r.key)
  <2>1. reading'.done = FALSE
    BY <1>3, <1>20
  <2>2. \A r \in Seen' : ~ Before(page.next, r.key)
    <3> SUFFICES ASSUME NEW r \in Seen, Before(page.next, r.key) PROVE FALSE
      BY <1>12, <1>20
    <3>1. PICK s \in page.items : page.next = s.key
      BY <1>20
    <3>2. r.key \in Key /\ s.key \in Key /\ Before(r.key, s.key)
      BY <1>10, <1>13, <1>15 DEF ListRow
    <3> QED BY <3>1, <3>2, KeysAreOrdered
  <2>3. \A r \in reading'.steady : r \in Seen' \/ Before(page.next, r.key)
    BY <1>3, <1>12, <1>17, <1>20
  <2>4. reading'.steady \subseteq Rows(reading.list, reading.query)'
    <3>1. PICK list, query : list = reading.list /\ query = reading.query
      OBVIOUS
    <3>2. Rows(reading.list, reading.query)' = Rows(list, query)
      BY <1>3, <3>1, ListedAnew
    <3> QED BY <1>2, <1>3, <3>1, <3>2 DEF UnderWay
  <2>5. UnderWay'
    BY <1>3, <1>9, <1>20, <2>2, <2>3, <2>4 DEF UnderWay
  <2> QED BY <1>3, <1>16, <1>18, <2>1, <2>5 DEF ReadingInv
<1> QED BY <1>4, <1>19, <1>20

(***************************************************************************)
(* Projects, devices and incidents.                                        *)
(***************************************************************************)
\* Rows that are not missing.
LEMMA RowsAreThere ==
  None \notin ProjectRow /\ None \notin DeviceRow
BY NoneIsNoRow

\* A change of one device, or a new one.
LEMMA DeviceRowStep ==
  ASSUME RowsInv, NEW d \in Device, NEW row \in DeviceRow, row.project \in Projects,
         fleet' = [fleet EXCEPT ![d] = row], UNCHANGED <<projects, incidents>>
  PROVE  RowsInv'
<1>1. fleet' \in [Device -> DeviceRow \union {None}] /\ fleet'[d] = row /\ \A e \in Device : e # d => fleet'[e] = fleet[e]
  BY DEF RowsInv
<1>2. Devices' \in SUBSET (Devices \union {d}) /\ \A e \in Devices' : e \in Device /\ (e # d => e \in Devices)
  BY <1>1 DEF Devices
<1>3. IsFiniteSet(Devices')
  BY <1>2, FS_AddElement, FS_Subset DEF RowsInv
<1>4. Projects' = Projects
  BY DEF Projects
<1>5. \A e \in Devices' : fleet'[e].project \in Projects'
  BY <1>1, <1>2, <1>4 DEF RowsInv
<1> QED BY <1>1, <1>3, <1>4, <1>5 DEF RowsInv

\* A change of one project, or a new one.
LEMMA ProjectRowStep ==
  ASSUME RowsInv, NEW p \in Project, NEW row \in ProjectRow,
         projects' = [projects EXCEPT ![p] = row], UNCHANGED <<fleet, incidents>>
  PROVE  RowsInv'
<1>1. /\ projects' \in [Project -> ProjectRow \union {None}] /\ projects'[p] = row
      /\ \A q \in Project : q # p => projects'[q] = projects[q]
  BY DEF RowsInv
<1>2. Projects \subseteq Projects' /\ Projects' \in SUBSET (Projects \union {p})
  BY <1>1, RowsAreThere DEF Projects
<1>3. Devices' = Devices
  BY DEF Devices
<1>4. IsFiniteSet(Projects')
  BY <1>2, FS_AddElement, FS_Subset DEF RowsInv
<1> QED BY <1>1, <1>2, <1>3, <1>4 DEF RowsInv

\* A change of incidents alone.
LEMMA IncidentsStep ==
  ASSUME RowsInv, incidents' \in Seq(IncidentRow), UNCHANGED <<projects, fleet>>
  PROVE  RowsInv'
BY DEF RowsInv, Devices, Projects

\* A finite set of numbers that is not empty has a greatest one.
LEMMA GreatestNumber ==
  ASSUME NEW T, \A a \in T : a \in Nat, IsFiniteSet(T), T # {}
  PROVE  \E m \in T : \A k \in T : m >= k
<1> DEFINE R == {p \in T \X T : p[1] < p[2]}
<1>1. \A a, b \in T : <<a, b>> \in R <=> a < b
  OBVIOUS
<1>2. Orders(R, T)
  <2> HIDE DEF R
  <2> QED BY <1>1 DEF Orders
<1>3. \E m \in T : \A k \in T \ {m} : <<k, m>> \in R
  <2> HIDE DEF R
  <2> QED BY <1>2, Highest, T \in SUBSET T
<1>4. PICK m \in T : \A k \in T \ {m} : k < m
  BY <1>1, <1>3
<1> QED BY <1>4

\* The last time that a device was seen is a time.
LEMMA LastSeenIsATime ==
  ASSUME RowsInv
  PROVE  LastSeen \in Nat
<1> DEFINE T == {0} \union ({fleet[d].seen : d \in Devices} \ {None})
<1>1. \A d \in Devices : fleet[d].seen \in Nat \union {None}
  BY DEF RowsInv, Devices, DeviceRow
<1>2. T \in SUBSET Nat /\ T # {}
  BY <1>1
<1>3. IsFiniteSet(T)
  <2> DEFINE S == {fleet[d].seen : d \in Devices}
  <2> DEFINE f == [d \in Devices |-> fleet[d].seen]
  <2>1. f \in Surjection(Devices, S)
    BY Zenon DEF Surjection
  <2>2. IsFiniteSet(S)
    BY <2>1, FS_Surjection DEF RowsInv
  <2>3. IsFiniteSet(S \union {0})
    BY <2>2, FS_AddElement
  <2> QED BY <2>3, FS_Subset, T \in SUBSET (S \union {0})
<1>4. LastSeen = Max(T)
  BY DEF LastSeen
<1> HIDE DEF T
<1>5. \E x \in T : \A y \in T : x >= y
  BY <1>2, <1>3, GreatestNumber
<1>6. Max(T) \in T
  BY <1>5 DEF Max
<1> QED BY <1>2, <1>4, <1>6

\* A new incident opens when the last one did, or later.
LEMMA IncidentOpensStep ==
  ASSUME RowsInv, NEW d \in Devices, NEW opened \in {LastOpened, LastOpened + 1}, IncidentOpens(d, opened)
  PROVE  RowsInv'
<1>1. LastOpened \in Nat
  <2>1. CASE incidents = <<>>
    BY <2>1 DEF LastOpened
  <2>2. CASE incidents # <<>>
    <3>1. Len(incidents) \in DOMAIN incidents
      BY <2>2 DEF RowsInv
    <3>2. incidents[Len(incidents)] \in IncidentRow
      BY <3>1 DEF RowsInv
    <3> QED BY <2>2, <3>2 DEF LastOpened, IncidentRow
  <2> QED BY <2>1, <2>2
<1>2. [device |-> d, opened |-> opened, closed |-> FALSE] \in IncidentRow
  BY <1>1 DEF IncidentRow, Devices
<1>3. incidents' = Append(incidents, [device |-> d, opened |-> opened, closed |-> FALSE]) /\ UNCHANGED <<projects, fleet>>
  BY DEF IncidentOpens
<1>4. incidents' \in Seq(IncidentRow)
  BY <1>2, <1>3 DEF RowsInv
<1> QED BY <1>3, <1>4, IncidentsStep

\* An incident closes once.
LEMMA IncidentClosesStep ==
  ASSUME RowsInv, NEW i \in DOMAIN incidents, IncidentCloses(i)
  PROVE  RowsInv'
<1> DEFINE row == [incidents[i] EXCEPT !.closed = TRUE]
<1>1. incidents' = [incidents EXCEPT ![i] = row] /\ UNCHANGED <<projects, fleet>>
  BY DEF IncidentCloses
<1>2. incidents[i] \in IncidentRow
  BY DEF RowsInv
<1>3. row \in IncidentRow
  BY <1>2 DEF IncidentRow
<1> HIDE DEF row
<1>4. incidents' \in Seq(IncidentRow)
  BY <1>1, <1>3 DEF RowsInv
<1> QED BY <1>1, <1>4, IncidentsStep

\* What operators, commands, heartbeats and sweeps write is a row.
LEMMA DeviceRowSteps ==
  ASSUME RowsInv, NEW d \in Devices
  PROVE  /\ \A p \in Projects : Move(d, p) => RowsInv'
         /\ \A enabled \in BOOLEAN : SetMonitoring(d, enabled) => RowsInv'
         /\ \A name \in Name : Rename(d, name) => RowsInv'
         /\ \A monitored \in BOOLEAN : SetGPUPolicy(d, monitored) => RowsInv'
         /\ \A gpu \in GPUState : HeartbeatAccepted(d, gpu) => RowsInv'
         /\ \A state \in State : SweepFindsOverdue(d, state) => RowsInv'
<1>1. d \in Device /\ fleet[d] \in DeviceRow /\ fleet[d].project \in Projects
  BY DEF Devices, RowsInv
<1>2. ASSUME NEW row \in DeviceRow, row.project \in Projects,
             fleet' = [fleet EXCEPT ![d] = row], UNCHANGED <<projects, incidents>>
      PROVE  RowsInv'
  BY <1>1, <1>2, DeviceRowStep
<1>3. ASSUME NEW p \in Projects, Move(d, p) PROVE RowsInv'
  <2> DEFINE row == [fleet[d] EXCEPT !.project = p]
  <2>1. fleet' = [fleet EXCEPT ![d] = row] /\ UNCHANGED <<projects, incidents>> /\ p \in Project
    BY <1>3 DEF Move, Projects
  <2>2. row \in DeviceRow /\ row.project = p
    BY <1>1, <2>1 DEF DeviceRow
  <2> HIDE DEF row
  <2> QED BY <1>2, <2>1, <2>2
<1>4. ASSUME NEW enabled \in BOOLEAN, SetMonitoring(d, enabled) PROVE RowsInv'
  <2> DEFINE row == [fleet[d] EXCEPT !.enabled = enabled]
  <2>1. fleet' = [fleet EXCEPT ![d] = row] /\ UNCHANGED <<projects, incidents>>
    BY <1>4 DEF SetMonitoring
  <2>2. row \in DeviceRow /\ row.project = fleet[d].project
    BY <1>1 DEF DeviceRow
  <2> HIDE DEF row
  <2> QED BY <1>1, <1>2, <2>1, <2>2
<1>5. ASSUME NEW name \in Name, Rename(d, name) PROVE RowsInv'
  <2> DEFINE row == [fleet[d] EXCEPT !.name = name]
  <2>1. fleet' = [fleet EXCEPT ![d] = row] /\ UNCHANGED <<projects, incidents>>
    BY <1>5 DEF Rename
  <2>2. row \in DeviceRow /\ row.project = fleet[d].project
    BY <1>1 DEF DeviceRow
  <2> HIDE DEF row
  <2> QED BY <1>1, <1>2, <2>1, <2>2
<1>6. ASSUME NEW monitored \in BOOLEAN, SetGPUPolicy(d, monitored) PROVE RowsInv'
  <2> DEFINE row == [fleet[d] EXCEPT !.gpuMonitored = monitored]
  <2>1. fleet' = [fleet EXCEPT ![d] = row] /\ UNCHANGED <<projects, incidents>>
    BY <1>6 DEF SetGPUPolicy
  <2>2. row \in DeviceRow /\ row.project = fleet[d].project
    BY <1>1 DEF DeviceRow
  <2> HIDE DEF row
  <2> QED BY <1>1, <1>2, <2>1, <2>2
<1>7. ASSUME NEW gpu \in GPUState, HeartbeatAccepted(d, gpu) PROVE RowsInv'
  <2> DEFINE row == [fleet[d] EXCEPT !.seen = LastSeen + 1, !.state = "ONLINE", !.gpu = gpu]
  <2>1. fleet' = [fleet EXCEPT ![d] = row] /\ UNCHANGED <<projects, incidents>>
    BY <1>1, <1>7 DEF HeartbeatAccepted, RowsInv
  <2>2. row \in DeviceRow /\ row.project = fleet[d].project
    <3>1. LastSeen + 1 \in Nat /\ "ONLINE" \in State
      BY LastSeenIsATime, StatesAreKnown
    <3> QED BY <1>1, <1>7, <3>1 DEF DeviceRow
  <2> HIDE DEF row
  <2> QED BY <1>1, <1>2, <2>1, <2>2
<1>8. ASSUME NEW state \in State, SweepFindsOverdue(d, state) PROVE RowsInv'
  <2> DEFINE row == [fleet[d] EXCEPT !.state = state]
  <2>1. fleet' = [fleet EXCEPT ![d] = row] /\ UNCHANGED <<projects, incidents>>
    BY <1>8 DEF SweepFindsOverdue
  <2>2. row \in DeviceRow /\ row.project = fleet[d].project
    BY <1>1 DEF DeviceRow
  <2> HIDE DEF row
  <2> QED BY <1>1, <1>2, <2>1, <2>2
<1> QED BY <1>3, <1>4, <1>5, <1>6, <1>7, <1>8

\* A device is enrolled in a project that is there, and a project keeps its row.
LEMMA NewRowSteps ==
  ASSUME RowsInv
  PROVE  /\ ProjectCreated => RowsInv'
         /\ DeviceEnrolled => RowsInv'
         /\ \A p \in Projects, name \in Name \union {None}, isActive \in BOOLEAN \union {None} :
              UpdateProject(p, name, isActive) => RowsInv'
<1>1. ASSUME NEW p \in Project, NEW name \in Name, CreateProject(p, name) PROVE RowsInv'
  <2>1. [name |-> name, active |-> TRUE] \in ProjectRow
    BY DEF ProjectRow
  <2> QED BY <1>1, <2>1, ProjectRowStep DEF CreateProject
<1>2. ASSUME NEW d \in Device, NEW p \in Projects, NEW name \in Name, Enroll(d, p, name) PROVE RowsInv'
  <2>1. NewDevice(p, name) \in DeviceRow /\ NewDevice(p, name).project = p
    BY StatesAreKnown DEF NewDevice, DeviceRow, Projects
  <2>2. fleet' = [fleet EXCEPT ![d] = NewDevice(p, name)] /\ UNCHANGED <<projects, incidents>>
    BY <1>2 DEF Enroll
  <2> QED BY <2>1, <2>2, DeviceRowStep
<1>3. ASSUME NEW p \in Projects, NEW name \in Name \union {None}, NEW isActive \in BOOLEAN \union {None},
             UpdateProject(p, name, isActive)
      PROVE  RowsInv'
  <2>1. p \in Project /\ projects[p] \in ProjectRow
    BY DEF Projects, RowsInv
  <2> DEFINE row == [projects[p] EXCEPT !.name = Given(name, @), !.active = Given(isActive, @)]
  <2>2. projects' = [projects EXCEPT ![p] = row] /\ UNCHANGED <<fleet, incidents>>
    BY <1>3, <2>1 DEF UpdateProject, RowsInv
  <2>3. row \in ProjectRow
    BY <2>1 DEF ProjectRow, Given
  <2> HIDE DEF row
  <2> QED BY <2>1, <2>2, <2>3, ProjectRowStep
<1> QED BY <1>1, <1>2, <1>3 DEF ProjectCreated, DeviceEnrolled

\* Every step leaves rows, and a reader that has what was steady.
LEMMA ListSteps ==
  ASSUME RowsInv, ReadingInv, [Next]_vars
  PROVE  RowsInv' /\ ReadingInv'
<1>1. ASSUME UNCHANGED <<reading, fleetVars>> PROVE RowsInv' /\ ReadingInv'
  BY <1>1, ReadingKept DEF fleetVars, RowsInv, Devices, Projects
<1>2. ASSUME NEW d \in Devices,
             \/ \E p \in Projects : Move(d, p)
             \/ \E enabled \in BOOLEAN : SetMonitoring(d, enabled)
             \/ \E name \in Name : Rename(d, name)
             \/ \E monitored \in BOOLEAN : SetGPUPolicy(d, monitored)
             \/ \E gpu \in GPUState : HeartbeatAccepted(d, gpu)
             \/ \E state \in State : SweepFindsOverdue(d, state)
      PROVE  RowsInv'
  BY <1>2, DeviceRowSteps
<1>3. ASSUME ProjectCreated \/ DeviceEnrolled \/ DeviceChange PROVE RowsInv'
  <2>1. CASE DeviceChange
    BY <1>2, <2>1 DEF DeviceChange
  <2> QED BY <1>3, <2>1, NewRowSteps
<1>4. CASE LoginStarts \/ Callback \/ SessionEnds \/ Deploy \/ OwnerCommand \/ OwnerInserted
  BY <1>1, <1>4 DEF LoginStarts, Callback, SessionEnds, Deploy, OwnerCommand, OwnerInserted, FleetAlone
<1>5. ASSUME NEW s \in DOMAIN sessions, ChangeAdmitted(s) PROVE RowsInv' /\ ReadingInv'
  BY <1>1, <1>5 DEF ChangeAdmitted, FleetAlone
<1>6. ASSUME NEW s \in DOMAIN sessions, ListOpened(s) PROVE RowsInv' /\ ReadingInv'
  <2>1. UNCHANGED fleetVars
    BY <1>6 DEF ListOpened
  <2>2. RowsInv'
    BY <2>1 DEF fleetVars, RowsInv, Devices, Projects
  <2>3. ReadingInv'
    BY <1>6, <2>1, ReadingStartsStep DEF ListOpened, DevicesAsked, IncidentsAsked
  <2> QED BY <2>2, <2>3
<1>7. ASSUME NEW r \in requests, RequestEnds(r) PROVE RowsInv' /\ ReadingInv'
  <2>1. CASE FleetChange
    BY <1>3, <2>1, StillSteadyStep DEF FleetChange
  <2>2. CASE UserChange(r) \/ PolicyChange \/ NothingChanged
    BY <1>1, <2>2 DEF UserChange, PolicyChange, NothingChanged, FleetAlone
  <2> QED BY <1>7, <2>1, <2>2 DEF RequestEnds
<1>8. CASE NextPage
  <2>1. UNCHANGED fleetVars /\ ~ reading.done
    BY <1>8 DEF NextPage
  <2>2. RowsInv'
    BY <2>1 DEF fleetVars, RowsInv, Devices, Projects
  <2>3. CASE PageRead
    BY <2>1, <2>3, PageReadStep, <2>2
  <2>4. CASE ReadingEnds
    BY <2>4, NothingReadStep, <2>2 DEF ReadingEnds
  <2> QED BY <1>8, <2>3, <2>4 DEF NextPage
<1>9. CASE Command
  <2>1. RowsInv'
    BY <1>2, <1>3, <1>9, NewRowSteps DEF Command, CommandChange
  <2> QED BY <1>9, <2>1, StillSteadyStep DEF Command
<1>10. CASE FleetObserved
  <2>1. PICK d \in Devices :
          \/ \E gpu \in GPUState : HeartbeatAccepted(d, gpu)
          \/ \E state \in State : SweepFindsOverdue(d, state)
          \/ \E opened \in {LastOpened, LastOpened + 1} : IncidentOpens(d, opened)
          \/ \E i \in IncidentsOf(d) : IncidentCloses(i)
    BY <1>10 DEF FleetObserved
  <2>2. RowsInv'
    BY <1>2, <2>1, IncidentOpensStep, IncidentClosesStep DEF IncidentsOf
  <2> QED BY <1>10, <2>2, StillSteadyStep DEF FleetObserved
<1>11. CASE AlertRaised \/ AlertStored
  BY <1>1, <1>11 DEF AlertRaised, AlertStored, FleetAlone
<1>12. CASE UNCHANGED vars
  BY <1>1, <1>12 DEF vars
<1> QED BY <1>4, <1>5, <1>6, <1>7, <1>8, <1>9, <1>10, <1>11, <1>12 DEF Next

\* To begin with there is one project with one device, and nothing is read.
LEMMA InitLists == Init => RowsInv /\ ReadingInv
<1> SUFFICES ASSUME Init PROVE RowsInv /\ ReadingInv
  OBVIOUS
<1> DEFINE p == Min(Project)
<1> DEFINE d == Min(Device)
<1> DEFINE name == Min(Name)
<1> DEFINE row == [NewDevice(p, name) EXCEPT !.seen = 1]
<1>1. /\ fleet = [e \in Device |-> IF e = d THEN row ELSE None]
      /\ projects = [q \in Project |-> IF q = p THEN [name |-> name, active |-> TRUE] ELSE None]
      /\ incidents = <<>> /\ reading = NothingRead
  BY DEF Init
<1>2. p \in Project /\ name \in Name
  <2>1. ASSUME NEW S \in SUBSET Nat, S # {} PROVE Min(S) \in S
    <3>1. \E x \in S : \A y \in S : x <= y
      BY <2>1, LeastNumber
    <3> QED BY <3>1 DEF Min
  <2> QED BY <2>1, ProjectsExist, NumbersAreOrdered, Project \in SUBSET Nat, Name \in SUBSET Nat
<1>3. row \in DeviceRow /\ row.project = p
  BY <1>2, StatesAreKnown DEF NewDevice, DeviceRow
<1>4. [name |-> name, active |-> TRUE] \in ProjectRow
  BY <1>2 DEF ProjectRow
<1> HIDE DEF row, p, d, name
<1>5. Devices \in SUBSET {d} /\ \A e \in Devices : e = d /\ fleet[e] = row
  BY <1>1 DEF Devices
<1>6. p \in Projects /\ Projects \in SUBSET {p}
  BY <1>1, <1>2, <1>4, RowsAreThere DEF Projects
<1>7. IsFiniteSet(Devices) /\ IsFiniteSet(Projects)
  BY <1>5, <1>6, FS_Singleton, FS_Subset
<1>8. incidents \in Seq(IncidentRow)
  BY <1>1
<1>9. RowsInv
  BY <1>1, <1>3, <1>4, <1>5, <1>6, <1>7, <1>8 DEF RowsInv
<1>10. ReadingInv
  <2>1. reading = [list |-> None, pages |-> <<>>, steady |-> {}, done |-> TRUE]
    BY <1>1 DEF NothingRead
  <2>2. Seen = {} /\ PagesInOrder
    BY <2>1 DEF Seen, PagesInOrder
  <2>3. reading.done = TRUE /\ reading.steady = {} /\ reading.pages = <<>>
    BY <2>1
  <2>4. {"pages", "done", "steady"} \subseteq DOMAIN reading /\ reading = [f \in DOMAIN reading |-> reading[f]]
    BY <2>1
  <2>5. <<>> \in Seq(SUBSET ListRow)
    OBVIOUS
  <2> QED BY <2>2, <2>3, <2>4, <2>5 DEF ReadingInv
<1> QED BY <1>9, <1>10

\* list_alerts leaves out older alerts than it shows.
LEMMA NewestListed ==
  ASSUME PolicyInv
  PROVE  NewestAlertsAreListed
<1> SUFFICES ASSUME NEW d \in Devices, NEW a \in ListedAlerts(d), NEW b \in AlertsOf(d), b > a
             PROVE  b \in ListedAlerts(d)
  BY DEF NewestAlertsAreListed
<1> DEFINE newer(x) == {other \in AlertsOf(d) : other > x}
<1>1. ListedAlerts(d) = {x \in AlertsOf(d) : Cardinality(newer(x)) < Limit}
  BY DEF ListedAlerts, First
<1>2. AlertsOf(d) \in SUBSET (1 .. Len(alerts)) /\ Len(alerts) \in Nat
  BY DEF AlertsOf, PolicyInv
<1>3. IsFiniteSet(AlertsOf(d))
  <2>1. IsFiniteSet(1 .. Len(alerts))
    BY <1>2, FS_Interval
  <2> QED BY <1>2, <2>1, FS_Subset
<1>4. a \in Nat /\ b \in Nat /\ \A x \in AlertsOf(d) : x \in Nat
  BY <1>1, <1>2
<1>5. newer(b) \in SUBSET newer(a) /\ newer(a) \in SUBSET AlertsOf(d)
  <2>1. ASSUME NEW x \in AlertsOf(d), x > b PROVE x > a
    BY <1>4, <2>1
  <2> QED BY <2>1
<1> HIDE DEF newer
<1>6. Cardinality(newer(b)) <= Cardinality(newer(a)) /\ Cardinality(newer(a)) \in Nat /\ Cardinality(newer(b)) \in Nat
  BY <1>3, <1>5, FS_Subset, FS_CardinalityType
<1>7. Cardinality(newer(a)) < Limit /\ Limit \in Nat
  BY <1>1, CapsArePositive
<1> QED BY <1>1, <1>6, <1>7

(***************************************************************************)
(* Histories.                                                              *)
(***************************************************************************)
\* The ceiling of a quotient, and what it is for a larger dividend.
LEMMA CeilingsGrow ==
  ASSUME NEW a \in Nat, NEW b \in Nat, NEW n \in Nat \ {0}
  PROVE  /\ CeilDiv(a, n) \in Nat
         /\ a + n <= b => CeilDiv(a, n) < CeilDiv(b, n)
<1> DEFINE x == a + n - 1
<1> DEFINE y == b + n - 1
<1>1. x \in Nat /\ y \in Nat /\ n \in Nat /\ n # 0 /\ (a + n <= b => x + n <= y)
  OBVIOUS
<1>2. CeilDiv(a, n) = x \div n /\ CeilDiv(b, n) = y \div n
  BY DEF CeilDiv
<1> HIDE DEF x, y
<1>3. x \div n \in Nat /\ y \div n \in Nat /\ (x + n <= y => x \div n < y \div n)
  BY <1>1
<1> QED BY <1>1, <1>2, <1>3

\* The points of a history go up, and the last is the newest sample.
LEMMA PointsAreInOrder ==
  ASSUME NEW n \in Nat
  PROVE  LET points == HistorySamplePoints(n)
         IN /\ points \in Seq(1 .. n) /\ (n # 0 => Len(points) # 0 /\ points[Len(points)] = n)
            /\ \A i, j \in 1 .. Len(points) : i < j => points[i] < points[j]
<1>0. PointCap \in Nat /\ PointCap # 0
  BY CapsArePositive
<1>1. CASE n <= PointCap
  <2>1. HistorySamplePoints(n) = [i \in 1 .. n |-> i]
    BY <1>1 DEF HistorySamplePoints
  <2>2. Len([i \in 1 .. n |-> i]) = n /\ [i \in 1 .. n |-> i] \in Seq(1 .. n)
    OBVIOUS
  <2> QED BY <2>1, <2>2
<1>2. CASE ~ (n <= PointCap)
  <2> DEFINE point(bucket) == CeilDiv(bucket * n, PointCap)
  <2>1. HistorySamplePoints(n) = [bucket \in 1 .. PointCap |-> point(bucket)]
    BY <1>2 DEF HistorySamplePoints
  <2>2. \A i \in 1 .. PointCap : i * n \in Nat
    OBVIOUS
  <2>3. ASSUME NEW i \in 1 .. PointCap, NEW j \in 1 .. PointCap, i < j PROVE point(i) < point(j)
    <3>1. i * n + PointCap <= j * n
      <4>1. j * n = i * n + (j - i) * n /\ (j - i) * n >= n
        BY <1>0, <2>3
      <4> QED BY <1>0, <1>2, <2>2, <4>1
    <3> QED BY <1>0, <2>2, <3>1, CeilingsGrow
  <2>4. point(PointCap) = n
    <3>1. (PointCap * n + PointCap - 1) \div PointCap = n
      BY <1>0
    <3> QED BY <3>1 DEF CeilDiv
  <2>5. ASSUME NEW i \in 1 .. PointCap PROVE point(i) \in 1 .. n
    <3>1. point(i) \in Nat /\ CeilDiv(0, PointCap) = 0
      BY <1>0, <2>2, CeilingsGrow DEF CeilDiv
    <3>2. 0 + PointCap <= i * n
      BY <1>0, <1>2, <2>2
    <3>3. CeilDiv(0, PointCap) < point(i)
      BY <1>0, <2>2, <3>2, CeilingsGrow
    <3>4. point(i) <= n
      BY <1>0, <2>3, <2>4, <3>1
    <3> QED BY <3>1, <3>3, <3>4
  <2> HIDE DEF point
  <2>6. /\ [bucket \in 1 .. PointCap |-> point(bucket)] \in Seq(1 .. n)
        /\ Len([bucket \in 1 .. PointCap |-> point(bucket)]) = PointCap
    BY <1>0, <2>5
  <2> QED BY <1>0, <2>1, <2>3, <2>4, <2>6
<1> QED BY <1>1, <1>2

\* Places of observations are keys, finitely many.
LEMMA ObservedPlaces ==
  ASSUME NEW samples \in Seq(Seq(STRING))
  PROVE  Observations(samples) \subseteq Key /\ IsFiniteSet(Observations(samples))
<1>1. /\ Len(samples) \in Nat /\ DOMAIN samples = 1 .. Len(samples)
      /\ \A p \in DOMAIN samples : /\ DOMAIN samples[p] = 1 .. Len(samples[p]) /\ Len(samples[p]) \in Nat
                                   /\ samples[p] \in Seq(STRING)
  OBVIOUS
<1> DEFINE at(p) == {p} \X (DOMAIN samples[p]) \X {0}
<1>2. Observations(samples) = UNION {at(p) : p \in DOMAIN samples}
  BY DEF Observations
<1>3. \A p \in DOMAIN samples : at(p) \subseteq Key
  BY <1>1 DEF Key
<1>4. ASSUME NEW p \in DOMAIN samples PROVE IsFiniteSet(at(p))
  <2> DEFINE f == [i \in DOMAIN samples[p] |-> <<p, i, 0>>]
  <2>1. f \in Surjection(DOMAIN samples[p], at(p))
    <3>1. \A i \in DOMAIN samples[p] : f[i] \in at(p)
      OBVIOUS
    <3>2. \A o \in at(p) : \E i \in DOMAIN samples[p] : f[i] = o
      <4>1. ASSUME NEW o \in at(p) PROVE \E i \in DOMAIN samples[p] : f[i] = o
        <5>1. o = <<p, o[2], 0>> /\ o[2] \in DOMAIN samples[p]
          BY <4>1
        <5>2. f[o[2]] = o
          BY <5>1
        <5> QED BY <5>1, <5>2
      <4> QED BY <4>1
    <3> HIDE DEF at
    <3>3. f \in [DOMAIN samples[p] -> at(p)]
      BY <3>1
    <3> HIDE DEF f
    <3> QED BY <3>2, <3>3 DEF Surjection
  <2>2. IsFiniteSet(1 .. Len(samples[p]))
    BY <1>1, FS_Interval
  <2> QED BY <1>1, <2>1, <2>2, FS_Surjection
<1> DEFINE all == {at(p) : p \in DOMAIN samples}
<1>5. IsFiniteSet(all)
  <2> DEFINE f == [p \in DOMAIN samples |-> at(p)]
  <2>1. f \in Surjection(DOMAIN samples, all)
    BY Zenon DEF Surjection
  <2>2. IsFiniteSet(1 .. Len(samples))
    BY <1>1, FS_Interval
  <2> QED BY <1>1, <2>1, <2>2, FS_Surjection
<1> HIDE DEF at
<1>6. IsFiniteSet(UNION all)
  <2>1. \A T \in all : IsFiniteSet(T)
    BY <1>4
  <2> HIDE DEF all
  <2> QED BY <1>5, <2>1, FS_UNION
<1> QED BY <1>2, <1>3, <1>6

\* A GPU that was observed was observed at a last place, which no other shares.
LEMMA LastPlaces ==
  ASSUME NEW samples \in Seq(Seq(STRING)), NEW o \in Observations(samples)
  PROVE  LET gpu == samples[o[1]][o[2]]
             last == LastSeenAt(samples, gpu)
         IN last \in Key /\ samples[last[1]][last[2]] = gpu
<1> DEFINE gpu == samples[o[1]][o[2]]
<1> DEFINE places == Observations(samples)
<1> DEFINE mine == SeriesOf(samples, gpu)
<1> DEFINE R == {p \in places \X places : Before(p[1], p[2])}
<1>1. places \subseteq Key /\ IsFiniteSet(places)
  BY ObservedPlaces
<1>2. mine \in SUBSET places /\ o \in mine /\ \A p \in mine : samples[p[1]][p[2]] = gpu
  BY DEF SeriesOf
<1>3. LastSeenAt(samples, gpu) = CHOOSE p \in mine : \A q \in mine \ {p} : Before(q, p)
  BY DEF LastSeenAt, LastOf
<1> HIDE DEF places, mine, gpu
<1>4. \A p, q \in places : <<p, q>> \in R <=> Before(p, q)
  OBVIOUS
<1> HIDE DEF R
<1>5. Orders(R, places)
  BY <1>1, <1>4, KeysAreOrdered DEF Orders
<1>6. \E p \in mine : \A q \in mine \ {p} : <<q, p>> \in R
  BY <1>1, <1>2, <1>5, Highest
<1>7. \E p \in mine : \A q \in mine \ {p} : Before(q, p)
  BY <1>2, <1>4, <1>6
<1>8. LastSeenAt(samples, gpu) \in mine
  BY <1>3, <1>7
<1> QED BY <1>1, <1>2, <1>8 DEF gpu

\* All GPUs that were observed have a series, or there are as many as there may be.
LEMMA SeriesAreFull ==
  ASSUME NEW samples \in Seq(Seq(STRING)), NEW o \in Observations(samples)
  PROVE  samples[o[1]][o[2]] \in NewestSeries(samples) \/ Cardinality(NewestSeries(samples)) = SeriesCap
<1> DEFINE gpus == {samples[p[1]][p[2]] : p \in Observations(samples)}
<1> DEFINE last(g) == LastSeenAt(samples, g)
<1> DEFINE R == {p \in gpus \X gpus : Before(last(p[2]), last(p[1]))}
<1>1. NewestSeries(samples) = {g \in gpus : Cardinality({h \in gpus : Before(last(g), last(h))}) < SeriesCap}
  BY DEF NewestSeries, First
<1>2. IsFiniteSet(gpus)
  <2> DEFINE f == [p \in Observations(samples) |-> samples[p[1]][p[2]]]
  <2>1. f \in Surjection(Observations(samples), gpus)
    BY Zenon DEF Surjection
  <2> QED BY <2>1, ObservedPlaces, FS_Surjection
<1>3. \A g \in gpus : last(g) \in Key /\ samples[last(g)[1]][last(g)[2]] = g
  BY LastPlaces
<1>4. samples[o[1]][o[2]] \in gpus
  OBVIOUS
<1> HIDE DEF gpus, last
<1>5. \A g, h \in gpus : <<g, h>> \in R <=> Before(last(h), last(g))
  OBVIOUS
<1> HIDE DEF R
<1>6. Orders(R, gpus)
  <2>1. \A g, h \in gpus : last(g) = last(h) => g = h
    BY <1>3
  <2> QED BY <1>3, <1>5, <2>1, KeysAreOrdered DEF Orders
<1>7. NewestSeries(samples) = Top(SeriesCap, R, gpus)
  <2>1. \A g \in gpus : {h \in gpus : Before(last(g), last(h))} = Preceding(R, gpus, g)
    BY <1>5 DEF Preceding
  <2> QED BY <1>1, <2>1 DEF Top, Rank
<1>8. SeriesCap \in Nat
  BY CapsArePositive
<1> QED BY <1>2, <1>4, <1>6, <1>7, <1>8, TopIsFull

\* A history has points in order, ends with the newest sample, and shows the GPUs
\* seen last.
LEMMA HistoryDrawn == HistoryIsDrawn
<1> SUFFICES ASSUME NEW samples \in Samples
             PROVE  LET retained == Retained(samples)
                        history == DownsampleHistory(retained)
                        last == Len(history.points)
                    IN /\ \A i, j \in 1..last : i < j => history.points[i] < history.points[j]
                       /\ retained # <<>> =>
                            /\ history.points[last] = Len(retained) /\ Last(retained) = Last(samples)
                            /\ \A gpu \in ToSet(Last(retained)) :
                                 gpu \in DOMAIN history.series \/ Cardinality(DOMAIN history.series) = SeriesCap
  BY DEF HistoryIsDrawn
<1> DEFINE retained == Retained(samples)
<1> DEFINE n == Len(retained)
<1> DEFINE points == HistorySamplePoints(n)
<1> DEFINE selected == [p \in DOMAIN points |-> retained[points[p]]]
<1> DEFINE history == DownsampleHistory(retained)
<1>1. samples \in Seq(Seq(STRING)) /\ Len(samples) \in Nat /\ RawCap \in Nat /\ RawCap # 0
  BY SamplesAreReports, CapsArePositive
<1>2. /\ retained \in Seq(Seq(STRING)) /\ n \in Nat
      /\ retained # <<>> => n # 0 /\ Last(retained) = Last(samples)
  <2>1. CASE Len(samples) > RawCap
    <3>1. retained = SubSeq(samples, Len(samples) - RawCap + 1, Len(samples))
      BY <2>1 DEF Retained
    <3>2. \A i \in Len(samples) - RawCap + 1 .. Len(samples) : samples[i] \in Seq(STRING)
      BY <1>1, <2>1
    <3>3. retained \in Seq(Seq(STRING)) /\ n = RawCap
      BY <1>1, <2>1, <3>1, <3>2
    <3>4. retained[RawCap] = samples[Len(samples)]
      <4>1. Len(samples) - RawCap + 1 \in Int /\ Len(samples) - RawCap + 1 + RawCap - 1 = Len(samples)
        BY <1>1
      <4> QED BY <1>1, <2>1, <3>1, <4>1
    <3> HIDE DEF retained
    <3> QED BY <1>1, <3>3, <3>4 DEF Last
  <2>2. CASE ~ (Len(samples) > RawCap)
    <3>1. retained = SubSeq(samples, 1, Len(samples))
      BY <2>2 DEF Retained
    <3>2. retained \in Seq(Seq(STRING)) /\ n = Len(samples) /\ (n # 0 => retained[n] = samples[Len(samples)])
      BY <1>1, <3>1
    <3>3. retained # <<>> => n # 0
      BY <3>2
    <3> QED BY <1>1, <3>2, <3>3 DEF Last
  <2> QED BY <2>1, <2>2
<1> HIDE DEF retained
<1>3. /\ points \in Seq(1 .. n) /\ (n # 0 => Len(points) # 0 /\ points[Len(points)] = n)
      /\ \A i, j \in 1 .. Len(points) : i < j => points[i] < points[j]
  BY <1>2, PointsAreInOrder
<1>4. history.points = points /\ DOMAIN history.series = NewestSeries(selected)
  BY DEF DownsampleHistory
<1> HIDE DEF history, points
<1>5. selected \in Seq(Seq(STRING)) /\ DOMAIN selected = 1 .. Len(points)
  <2>1. DOMAIN points = 1 .. Len(points) /\ Len(points) \in Nat /\ \A p \in DOMAIN points : points[p] \in 1 .. n
    BY <1>3
  <2>2. \A p \in DOMAIN points : retained[points[p]] \in Seq(STRING)
    BY <1>2, <2>1
  <2> QED BY <2>1, <2>2
<1>6. ASSUME retained # <<>>, NEW gpu \in ToSet(Last(retained))
      PROVE  gpu \in NewestSeries(selected) \/ Cardinality(NewestSeries(selected)) = SeriesCap
  <2> DEFINE k == Len(points)
  <2>1. k \in DOMAIN selected /\ selected[k] = Last(retained)
    BY <1>2, <1>3, <1>6 DEF Last
  <2> HIDE DEF selected
  <2>2. PICK i \in DOMAIN selected[k] : gpu = selected[k][i]
    BY <1>6, <2>1 DEF ToSet
  <2>3. <<k, i, 0>> \in Observations(selected)
    BY <2>1, <2>2 DEF Observations
  <2> QED BY <1>5, <2>2, <2>3, SeriesAreFull
<1>7. retained # <<>> => history.points[Len(history.points)] = n /\ Last(retained) = Last(samples)
  BY <1>2, <1>3, <1>4
<1> QED BY <1>3, <1>4, <1>6, <1>7 DEF history, retained, n

(***************************************************************************)
(* What lists, alerts and histories show.                                  *)
(***************************************************************************)
\* Rows and the reading of a list are as described in every state.
LEMMA ListsInvariant == Spec => [](RowsInv /\ ReadingInv)
<1>1. Init => RowsInv /\ ReadingInv
  BY InitLists
<1>2. RowsInv /\ ReadingInv /\ [Next]_vars => (RowsInv /\ ReadingInv)'
  BY ListSteps
<1> QED BY <1>1, <1>2, PTL DEF Spec

\* A list read to its end, page by page, has each row that kept its place once and in
\* order, whatever was renamed, moved or enrolled meanwhile; the newest alerts are
\* listed; and histories end with the newest sample.
THEOREM ListsExact == Spec => []ListsAreExact
<1>1. ConsoleInv /\ RowsInv /\ ReadingInv => ListsAreExact
  <2> SUFFICES ASSUME ConsoleInv, RowsInv, ReadingInv PROVE ListsAreExact
    OBVIOUS
  <2>1. PagesInOrder /\ (reading.done => reading.steady \subseteq Seen)
    BY DEF ReadingInv
  <2>2. HistoryIsDrawn
    BY HistoryDrawn
  <2>3. NewestAlertsAreListed
    BY NewestListed DEF ConsoleInv
  <2> QED BY <2>1, <2>2, <2>3 DEF ListsAreExact
<1> QED BY <1>1, ConsoleInvariant, ListsInvariant, PTL
================================================================================
