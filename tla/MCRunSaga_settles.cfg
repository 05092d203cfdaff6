SPECIFICATION FairSpec
CONSTANTS
  e1 = e1
  e2 = e2
  e3 = e3
  a = a
  b = b
  w1 = w1
  w2 = w2
  None = None
  Executions = {e1}
  Workflows = {e1}
  WorkflowOf <- OwnWorkflow
  Workers = {w1, w2}
  Requests = {c1}
  Refs = {r1, r2}
  BatchSize = 1
  EngineMax = 2
  MaxCrashes = 1
  Prompt = TRUE
  ResultsExpire = FALSE
  StartMayThrow = FALSE
PROPERTY EveryRunSettles
CHECK_DEADLOCK FALSE
