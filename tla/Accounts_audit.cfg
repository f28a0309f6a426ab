SPECIFICATION MCSpec
CONSTANTS
  Absent = Absent
  Users = {u1}
  Requests = {q1}
  MaxInvites = 1
  InviteRoles = {"viewer"}
  CountFails = FALSE
  Processes = {p1, p2}
  TTL = 2
  OutageTTL = 1
  Links = {l1}
  MaxPasswords = 1
  Parts = {"sessions"}
INVARIANT ConfirmedResetHolds
CHECK_DEADLOCK FALSE
