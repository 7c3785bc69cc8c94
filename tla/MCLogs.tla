-------------------------------- MODULE MCLogs --------------------------------
(***************************************************************************)
(* Small instance of Logs. Two sources of one journal keep a row each and  *)
(* a page has one row, so that two entries overflow a source and a reading *)
(* takes several pages. A tick is longer than the retention, the window of *)
(* the journal and what the store tolerates of a clock.                    *)
(***************************************************************************)
EXTENDS Logs

TwoSources == <<"skybeat_agent", "system_journal">>

Asked(source, from, direction) ==
  [source |-> source, basis |-> "received", from |-> from, until |-> None, search |-> None,
   direction |-> direction, limit |-> 1]

Queries == {Asked(None, None, "newest"), Asked("system_journal", None, "oldest")}

OneIncident == {[opened |-> 1, closed |-> None]}
=============================================================================
