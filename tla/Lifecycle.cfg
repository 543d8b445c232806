SPECIFICATION Spec
CONSTANTS
  Tickets = {t1}
  LegacyTickets = {}
  WorkOrders = {w1, w2}
  Requests = {r1, r2}
  Categories = {CloggedDrainage, FallenTree}
  CloggedDrainage = CloggedDrainage
  FallenTree = FallenTree
  OfficeFor <- MCOfficeFor
  Agencies = {dpwh}
  NoTicket = NoTicket
  NoWork = NoWork
SYMMETRY IdSymmetry
INVARIANTS
  TypeOK
  ResolutionRecordMatchesStatus
  ReferralBacksOutcome
  ReplacementsEnd
PROPERTIES
  ImplementsLadder
  ClosedTicketFreezesWork
