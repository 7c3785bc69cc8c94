------------------------------- MODULE Sessions -------------------------------
(***************************************************************************)
(* Browser sessions of the dashboard: server/app/dashboard/service.py with *)
(* the login endpoints of api/auth.py. A login is a row, OAuthTransaction, *)
(* that one callback may consume; consuming it, verifying the identity     *)
(* with Google, finding the account and issuing the session are four steps *)
(* with transactions of their own. A session names an identity; the        *)
(* account, its role and whether it is active are read again on each       *)
(* request.                                                                *)
(*                                                                         *)
(* Instants are left out: a login and a session may expire at any time. A  *)
(* callback without the browser's binding for its login is refused and     *)
(* changes nothing, and so does the limiter of logins.                     *)
(***************************************************************************)
EXTENDS Accounts, Sequences, Naturals

CONSTANTS
  Identity,         \* what Google may vouch for: [subject, email]
  MaxTransactions   \* bound: logins begun

VARIABLES
  allowed,        \* the addresses the deployment admits (AuthorizationPolicy)
  transactions,   \* OAuthTransaction rows: consumed, expired
  logins,         \* callbacks at work: transaction, identity and whether it has its account
  sessions        \* AdminSession rows: identity, revoked, expired; transaction is history

sessionVars == <<allowed, transactions, logins, sessions>>

BeginLogin ==
  /\ Len(transactions) < MaxTransactions
  /\ transactions' = Append(transactions, [consumed |-> FALSE, expired |-> FALSE])
  /\ UNCHANGED <<users, allowed, logins, sessions>>

(***************************************************************************)
(* complete_login                                                          *)
(***************************************************************************)
ConsumeTransaction(t) ==
  /\ ~transactions[t].consumed /\ ~transactions[t].expired
  /\ transactions' = [transactions EXCEPT ![t].consumed = TRUE]
  /\ logins' = logins \union {[transaction |-> t, identity |-> None, resolved |-> FALSE]}
  /\ UNCHANGED <<users, allowed, sessions>>

\* verify_callback, then AuthorizationPolicy.allows
VerifyCallback(l, identity) ==
  /\ l.identity = None /\ identity.email \in allowed
  /\ logins' = (logins \ {l}) \union {[l EXCEPT !.identity = identity]}
  /\ UNCHANGED <<users, allowed, transactions, sessions>>

\* _resolve_application_user_in_session: the first login binds the account.
\* google_sub is unique, so that a subject bound elsewhere fails.
Resolvable(identity) ==
  /\ identity.email \in ActiveAccounts
  /\ \/ users[identity.email].sub = identity.subject
     \/ /\ users[identity.email].sub = None
        /\ \A e \in Accounts : users[e].sub # identity.subject
Bound(identity) == [users EXCEPT ![identity.email].sub = identity.subject]

ResolveUser(l) ==
  /\ l.identity # None /\ ~l.resolved /\ Resolvable(l.identity)
  /\ users' = Bound(l.identity)
  /\ logins' = (logins \ {l}) \union {[l EXCEPT !.resolved = TRUE]}
  /\ UNCHANGED <<allowed, transactions, sessions>>

NewSession(identity, t) ==
  [identity |-> identity, revoked |-> FALSE, expired |-> FALSE, transaction |-> t]

IssueSession(l) ==
  /\ l.resolved /\ logins' = logins \ {l}
  /\ sessions' = Append(sessions, NewSession(l.identity, l.transaction))
  /\ UNCHANGED <<users, allowed, transactions>>

\* Google refuses or cannot be reached, the identity is not allowed, the account
\* is not there or not the same person's, the process ends.
LoginFails(l) ==
  logins' = logins \ {l} /\ UNCHANGED <<users, allowed, transactions, sessions>>

(***************************************************************************)
(* authenticate_session and logout                                         *)
(***************************************************************************)
\* A session of an identity that is no longer allowed is refused each time; its
\* revocation is rolled back with the transaction.
Authenticates(s) ==
  /\ ~sessions[s].revoked /\ ~sessions[s].expired
  /\ sessions[s].identity.email \in allowed
  /\ Resolvable(sessions[s].identity)

Logout(s) ==
  /\ ~sessions[s].revoked /\ ~sessions[s].expired
  /\ sessions' = [sessions EXCEPT ![s].revoked = TRUE]
  /\ UNCHANGED <<users, allowed, transactions, logins>>

Expire ==
  /\ \/ /\ \E t \in DOMAIN transactions :
             /\ ~transactions[t].consumed /\ ~transactions[t].expired
             /\ transactions' = [transactions EXCEPT ![t].expired = TRUE]
        /\ UNCHANGED sessions
     \/ /\ \E s \in DOMAIN sessions :
             ~sessions[s].expired /\ sessions' = [sessions EXCEPT ![s].expired = TRUE]
        /\ UNCHANGED transactions
  /\ UNCHANGED <<users, allowed, logins>>

\* A deployment starts with other settings.
Redeploy(addresses) ==
  /\ addresses # allowed /\ allowed' = addresses
  /\ UNCHANGED <<users, transactions, logins, sessions>>
=============================================================================
