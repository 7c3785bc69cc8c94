------------------------------- MODULE Accounts -------------------------------
(***************************************************************************)
(* The application's accounts: server/app/users/service.py. The sole Owner *)
(* is created by a local command, which looks for an Owner first and       *)
(* inserts one in a second statement: a row that is not there cannot be    *)
(* locked, so two commands may both find none, and only the unique         *)
(* owner_guard of models/auth.py keeps the second out. Every other change  *)
(* is asked for with the role its actor had when the request was admitted, *)
(* and reads the role of the account it changes under that row's lock.     *)
(*                                                                         *)
(* An account is named by its normalised e-mail address.                   *)
(***************************************************************************)
EXTENDS Columns, FiniteSets

CONSTANT Email

VARIABLES
  users,        \* ApplicationUser rows: role, is_active, google_sub; None without one
  bootstraps    \* the addresses whose bootstrap has found no Owner

accountVars == <<users, bootstraps>>

Role == {"OWNER", "ADMIN", "USER"}

Accounts == {e \in Email : users[e] # None}
Owners == {e \in Accounts : users[e].role = "OWNER"}
ActiveAccounts == {e \in Accounts : users[e].active}
NewUser(role) == [role |-> role, active |-> TRUE, sub |-> None]

(***************************************************************************)
(* bootstrap_owner                                                         *)
(***************************************************************************)
BootstrapReads(e) ==
  /\ Owners = {} /\ e \notin bootstraps
  /\ bootstraps' = bootstraps \union {e}
  /\ UNCHANGED users

\* The unique columns email and owner_guard decide.
BootstrapInserts(e) ==
  /\ e \in bootstraps /\ bootstraps' = bootstraps \ {e}
  /\ users' = IF Owners = {} /\ e \notin Accounts
              THEN [users EXCEPT ![e] = NewUser("OWNER")] ELSE users

(***************************************************************************)
(* What the dashboard asks for.                                            *)
(***************************************************************************)
\* Mutant: the role of the account that is changed is not looked at.
AuthorizeByRequestedRole(actor, target, requested) ==
  /\ requested # "OWNER"
  /\ actor = "OWNER" \/ (actor = "ADMIN" /\ requested \in {None, "USER"})

AuthorizeUserChange(actor, target, requested) ==
  /\ "OWNER" \notin {target, requested}
  /\ \/ actor = "OWNER"
     \/ actor = "ADMIN" /\ {target, requested} \subseteq {None, "USER"}

CreateUser(actor, e, role) ==
  /\ AuthorizeUserChange(actor, None, role)
  /\ e \notin Accounts
  /\ users' = [users EXCEPT ![e] = NewUser(role)]
  /\ UNCHANGED bootstraps

UpdateUser(actor, e, role, isActive) ==
  /\ e \in Accounts
  /\ AuthorizeUserChange(actor, users[e].role, role)
  /\ users' = [users EXCEPT ![e].role = Given(role, @), ![e].active = Given(isActive, @)]
  /\ UNCHANGED bootstraps
=============================================================================
