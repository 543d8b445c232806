SPECIFICATION MCSpec
CONSTANTS
  Accounts = {1, 2, 3}
  Requests = {q1, q2}
  Authorities = {personnel, focal}
  StaffRequests = {q1, q2}
  TicksPerSecond = 2
  LastTick = 3
  g1 = g1
  g2 = g2
  juan = juan
  Emails = {juan, maria}
  GoogleAccounts = {g1, g2}
  MailOf <- MCMailOf
  AccountRequests = {q1, q2}
  Unlinked = Unlinked
  s1 = s1
  s2 = s2
  p1 = p1
  p2 = p2
  Tables = {"report", "reset", "signup", "login"}
  Limits <- MCLimits
  Senders = {s1, s2}
  Places = {p1, p2}
  Origins <- MCOrigins
  Asking = {q1, q2}
  Retention = 2
SYMMETRY RequestSymmetry
INVARIANTS AnAdministratorRemains NewSessionsWork AlwaysAWayIn LimitsHold
