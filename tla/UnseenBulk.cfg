SPECIFICATION ListSpec
CONSTANTS
  Surfaces = {"tickets"}
  i1 = i1
  i2 = i2
  none = none
  x = x
  Items = {i1, i2}
  Tabs = {"active", "done"}
  Texts = {none, x}
  Matches <- MCMatches
  FirstTab = "active"
  FirstText = none
  Fetches = {f1, f2}
  Actions = {k1, k2}
  MaxClicks = 3
  MaxMoves = 1
  MaxLost = 1
PROPERTY BulkActsOnWhatIsSeen
CHECK_DEADLOCK FALSE
