SPECIFICATION MCSpec
CONSTANTS
  Absent = Absent
  Users = {n1, n2}
  Requests = {q1, q2}
  MaxInvites = 2
  InviteRoles = {"viewer"}
  CountFails = TRUE
  Processes = {n1, n2}
  TTL = 2
  OutageTTL = 1
  Links = {l1, l2}
  MaxPasswords = 2
  Parts = {"accounts", "sessions", "overrides", "resources"}
SYMMETRY Interchangeable
INVARIANTS
  AllTypeOK
  InviteMakesItsAccount
  ResetEndsSessions
  FreshAfterTTL
  SeenAtHome
  
  VerdictHasCause
PROPERTY SuperadminLostOnlyToOverlap
CHECK_DEADLOCK FALSE
