SPECIFICATION PlatformSpec
CONSTANTS
  w1 = w1
  w2 = w2
  o1 = o1
  o2 = o2
  Users = {a, b}
  Admins = {a}
  Workspaces = {w1, w2}
  Organizations = {o1, o2}
  HomeOf <- Homes
  First = w1
  Requests = {q1, q2}
  GivenRoles = {"OWNER", "OPERATOR"}
  GivenOverrides <- Overrides
  MaxChanges = 4
  Devices = {d1, d2, d3}
  MaxAttempts = 2
  MaxPasswords = 3
  ChangesOverlap = FALSE
  f = f
  g = g
  Posts = {p1, p2, p3}
  Keys = {k}
  Unkeyed = Unkeyed
  Limit = 1
  MaxWindow = 3
  Slots = {1, 2, 3}
  Fields = {username, password}
  PageSize = 1
  MaxWrites = 3
  MaxRotations = 2
  MaxUses = 1
  Watched = {f, g}
  Scheduled = {g}
  Anything = Anything
  Codes = {"TIMEOUT", "CREDENTIAL_INVALID"}
  SignInCodes = {"CREDENTIAL_INVALID"}
  GivenRules <- SomeRules
  Raisers = {l1, l2}
  MaxStreak = 1
  MaxDay = 2
  MaxRounds = 1
SYMMETRY Symmetric
CHECK_DEADLOCK FALSE
INVARIANTS
  TypeOK
  AccountsTypeOK
  SerialOwners
  SerialOrgOwners
  CurrentSessionsOnly
  LimitKept
  AnswersAreTrue
  SecretsSurvive
  RotationReachesAll
  ToldUnlessSilenced
PROPERTY
  RolesOnRecord
