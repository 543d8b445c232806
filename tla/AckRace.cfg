SPECIFICATION FocalSpec
CONSTANTS
  Tickets = {t1, t2, t3}
  Reports = {r1, r2}
  Requests = {q1}
  FocalRequests = {f1}
  meo = meo
  Kinds <- OneKind
  InitialKind <- OneInitialKind
  Verdicts = {}
  Nowhere = Nowhere
SYMMETRY FocalSymmetry
PROPERTY AcknowledgesItsTicket
