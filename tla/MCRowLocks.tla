------------------------------ MODULE MCRowLocks ------------------------------
(* RowLocks on two tickets, one of two reports and one of a single report.    *)
EXTENDS RowLocks, TLC

CONSTANTS r1, r2, r3

ThreeReports == {r1, r2, r3}
ThreeHomes   == [r \in ThreeReports |-> IF r = r3 THEN 2 ELSE 1]
=============================================================================
