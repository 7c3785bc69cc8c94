------------------------------- MODULE Columns -------------------------------
(***************************************************************************)
(* What the tables of the console have in common (server/app/models): a    *)
(* column or a row may be missing.                                         *)
(***************************************************************************)
CONSTANT None   \* NULL, or no row

\* A change that leaves a field out leaves its column as it is.
Given(value, current) == IF value = None THEN current ELSE value
=============================================================================
