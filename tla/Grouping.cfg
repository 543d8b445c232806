SPECIFICATION Spec
CONSTANTS
  Tickets = {t1, t2, t3}
  Reports = {r1, r2, r3}
  Requests = {q1, q2}
  meo = meo
  Kinds <- OneKind
  InitialKind <- OneInitialKind
  Verdicts = {"dismissed", "quarantined"}
  Nowhere = Nowhere
SYMMETRY GroupingSymmetry
INVARIANTS
  CountsMatch
  QuarantinedIsFlagged
  NoTicketEmptied
  ReportsOnCurrentTickets
PROPERTY DecidedOnce
