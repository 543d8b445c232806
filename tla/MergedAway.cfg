SPECIFICATION Spec
CONSTANTS
  Tickets = {t1, t2}
  LegacyTickets = {}
  WorkOrders = {w1}
  Requests = {r1}
  Categories = {CloggedDrainage, FallenTree}
  CloggedDrainage = CloggedDrainage
  FallenTree = FallenTree
  OfficeFor <- MCOfficeFor
  Agencies = {dpwh}
  NoTicket = NoTicket
  NoWork = NoWork
SYMMETRY TicketSymmetry
PROPERTY MergedAwayIsHistory
