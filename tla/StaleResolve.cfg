SPECIFICATION Spec
CONSTANTS
  Tickets = {t1}
  LegacyTickets = {}
  WorkOrders = {w1}
  Requests = {r1, r2}
  Categories = {CloggedDrainage, FallenTree}
  CloggedDrainage = CloggedDrainage
  FallenTree = FallenTree
  OfficeFor <- MCOfficeFor
  Agencies = {dpwh, meralco}
  NoTicket = NoTicket
  NoWork = NoWork
SYMMETRY IdSymmetry
PROPERTY ResolvesOnlyFinishedWork
