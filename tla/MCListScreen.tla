----------------------------- MODULE MCListScreen -----------------------------
(* ListScreen with one text that finds one of two rows.                       *)
EXTENDS ListScreen

CONSTANTS i1, i2, none, x

MCMatches == [t \in Texts |-> IF t = x THEN {i1} ELSE {i1, i2}]
=============================================================================
