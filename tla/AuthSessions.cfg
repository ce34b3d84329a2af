SPECIFICATION MCSpec
CONSTANTS
  r1 = r1
  r2 = r2
  t1 = t1
  t2 = t2
  t3 = t3
  admin = admin
  other = other
  old = old
  new = new
  None = None
  Requests <- Two
  Jtis <- MCJtis
  Usernames <- MCUsernames
  Passwords <- MCPasswords
  DefaultUsername = admin
  Failures = TRUE
SYMMETRY Interchangeable
CHECK_DEADLOCK FALSE
INVARIANTS
  Unbranched
  NoUnexplainedSignOut
  OnlySparedSurvive
PROPERTY KeepsTickets
