SPECIFICATION AccessSpec
CONSTANTS
  w1 = w1
  w2 = w2
  o1 = o1
  o2 = o2
  Users = {a, b, c}
  Admins = {a}
  Workspaces = {w1, w2}
  Organizations = {o1, o2}
  HomeOf <- Homes
  First = w1
  Requests = {q1, q2}
  GivenRoles = {"OWNER", "OPERATOR"}
  GivenOverrides <- Overrides
  MaxChanges = 3
  Devices = {d1, d2, d3}
  MaxAttempts = 2
  MaxPasswords = 3
  ChangesOverlap = FALSE
SYMMETRY Symmetric
CHECK_DEADLOCK FALSE
INVARIANT LockedAfterFailures
