SPECIFICATION MCSpec
CONSTANTS
  r1 = r1
  r2 = r2
  r3 = r3
  i1 = i1
  i2 = i2
  none = none
  x = x
  FirstTickets = 2
  LastTicket = 3
  Reports <- ThreeReports
  Home <- ThreeHomes
  Transactions = {p1, p2}
  Ops = {"merge", "remove", "regroup", "moderate", "recalculate"}
  Queue = {1, 2}
  Filings = {r1, r2, r3}
  FiledBefore <- ThreeFiled
  Barangays = {b1, b2}
  Quarters <- ThreeQuarters
  Passes = {p1, p2}
  AgeCap = 1
  MaxChanges = 2
  MaxFailedPasses = 1
  Surfaces = {"tickets", "flagged"}
  Items = {i1, i2}
  Tabs = {"active", "done"}
  Texts = {none, x}
  Matches <- MCMatches
  FirstTab = "active"
  FirstText = none
  Fetches = {f1, f2}
  Actions = {k1, k2}
  MaxClicks = 3
  MaxMoves = 1
  MaxLost = 1
INVARIANTS GroupingNeverDeadlocks ShownIsAsked
PROPERTIES PrioritiesSettle ScreenSettles
CHECK_DEADLOCK FALSE
