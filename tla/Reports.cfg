SPECIFICATION MCSpec
CONSTANTS
  r1 = r1
  r2 = r2
  r3 = r3
  c1 = c1
  c2 = c2
  Tickets = {t1, t2}
  Reports <- ThreeReports
  Citizens = {c1, c2}
  Author <- TwoAuthors
  Requests = {q1}
  FocalRequests = {f1}
  Answering = {a1, a2}
  MaxMergeHops = 1
  meo = meo
  Kinds <- OneKind
  InitialKind <- OneInitialKind
  Verdicts = {"quarantined"}
  Nowhere = Nowhere
SYMMETRY ReportsSymmetry
INVARIANTS AnswersAreFinal MirrorMatchesAnswers
PROPERTIES AnswersResolvedTickets AcknowledgesCurrentTickets ScreensOnTheTicketRead
