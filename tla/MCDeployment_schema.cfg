CONSTANTS
  admin = admin
  ann = ann
  bob = bob
  w1 = w1
  w2 = w2
  k1 = k1
  People = {admin, ann, bob}
  Jobs = {j1, j2}
  MaxTries = 1
  MaxRuns = 2
  MaxByHand = 2
  Keys = {k1}
  LeftBehind <- Legacy
  Admin = admin
  Home = w1
SYMMETRY Symmetric
SPECIFICATION DeploymentSpec
INVARIANTS
  SchemaAsStamped
  Reversible
  SeededOnce
  RestoredFits
PROPERTIES
  UpgradeTakesNothingAway
  FailsOnlyWhenOvertaken
CHECK_DEADLOCK FALSE
