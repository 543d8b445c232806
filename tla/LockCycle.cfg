SPECIFICATION Spec
CONSTANTS
  FirstTickets = 2
  LastTicket = 3
  r1 = r1
  r2 = r2
  r3 = r3
  Reports <- ThreeReports
  Home <- ThreeHomes
  Transactions = {p1, p2}
  Ops = {"merge", "remove", "regroup"}
INVARIANT ActionsNeverDeadlock
