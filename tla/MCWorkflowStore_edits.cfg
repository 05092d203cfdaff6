SPECIFICATION FairSpec
CONSTANTS
  plan = plan
  hook = hook
  blank = blank
  NoTrigger = NoTrigger
  Requests = {q1, q2}
  Graphs = {plan, hook, blank}
  TriggerOf <- Triggers
  Valid = {plan, hook}
  MaxRevision = 2
  MaxVersions = 2
INVARIANTS
  TypeOK
  VersionsInOrder
  PublishedIsValid
  EnabledCanFire
  BindingFollowsWorkflow
PROPERTIES
  DeletedComesToRest
CHECK_DEADLOCK FALSE
