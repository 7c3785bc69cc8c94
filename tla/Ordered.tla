------------------------------- MODULE Ordered -------------------------------
(***************************************************************************)
(* What a query with ORDER BY and LIMIT gives. Rows are told apart by the  *)
(* order, so that a result is a set: its order is the order asked for.     *)
(***************************************************************************)
EXTENDS Naturals, FiniteSets

\* The first n rows: those with fewer than n before them.
First(n, rows, before(_, _)) ==
  {row \in rows : Cardinality({other \in rows : before(other, row)}) < n}

LastOf(rows, before(_, _)) == CHOOSE row \in rows : \A other \in rows \ {row} : before(other, row)
=============================================================================
