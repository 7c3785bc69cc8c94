------------------------------ MODULE MCConsole ------------------------------
(***************************************************************************)
(* Small instance of Console. There are two devices, two projects and two  *)
(* names, so that rows differ in their identifiers only; a page has one    *)
(* row. The second name is wide in a cursor.                               *)
(***************************************************************************)
EXTENDS Console

Of(subject, email) == [subject |-> subject, email |-> email]
Identities == {Of("s1", "owner"), Of("s2", "admin"), Of("s1", "admin"), Of("s2", "other")}

Nobody == [e \in Email |-> None]
LoggedIn(role, subject) == [NewUser(role) EXCEPT !.sub = subject]
Provisioned ==
  [users |-> [Nobody EXCEPT !["owner"] = LoggedIn("OWNER", "s1"), !["admin"] = LoggedIn("ADMIN", "s2")],
   sessions |-> <<NewSession(Of("s1", "owner"), None), NewSession(Of("s2", "admin"), None)>>]
Starts == {[users |-> Nobody, sessions |-> <<>>], Provisioned}

AllowedAddresses == {Email, {"owner"}}

Policies == {[events |-> {"outage"}, recipients |-> {"admin"}], [events |-> {}, recipients |-> {"owner"}]}

Asked(project, state, gpu, disabled) ==
  [project |-> project, state |-> state, gpu |-> gpu, disabled |-> disabled, names |-> Name]
DeviceQueries ==
  {Asked(None, None, None, TRUE), Asked(1, "ONLINE", None, FALSE), Asked(None, None, "OK", TRUE)}

Histories == UNION {[1..n -> {<<>>, <<"g1">>, <<"g1", "g2">>}] : n \in 0..5}
=============================================================================
