SPECIFICATION Spec
CONSTANTS
  e1 = e1
  e2 = e2
  e3 = e3
  a = a
  b = b
  w1 = w1
  w2 = w2
  None = None
  Executions = {e1, e2, e3}
  Workflows = {a, b}
  WorkflowOf <- MixedWorkflows
  Workers = {w1}
  Requests = {}
  Refs = {r1, r2}
  BatchSize = 2
  EngineMax = 1
  MaxCrashes = 1
  Prompt = TRUE
  ResultsExpire = FALSE
  StartMayThrow = FALSE
SYMMETRY SymmetricPair
INVARIANT OneActiveRunPerWorkflow
PROPERTY ImplementsLifecycle
CHECK_DEADLOCK FALSE
