-------------------------- MODULE MCTicketLifecycle --------------------------
(* Constant values for checking TicketLifecycle: two categories, one of each *)
(* office (common/utils/office.ts), and symmetric ids.                       *)
EXTENDS TicketLifecycle, TLC

CONSTANTS CloggedDrainage, FallenTree

MCOfficeFor == [c \in Categories |-> IF c = FallenTree THEN "MDRRMO" ELSE "MEO"]

IdSymmetry == Permutations(Requests) \cup Permutations(WorkOrders)

TicketSymmetry == Permutations(Tickets)
=============================================================================
