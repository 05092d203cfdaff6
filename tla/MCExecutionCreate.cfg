SPECIFICATION FairSpec
CONSTANTS
  f1 = f1
  f2 = f2
  s1 = s1
  None = None
  Requests = {q1, q2, q3}
  Workflows = {f1, f2}
  Workspaces = {s1}
  WorkspaceOf <- OneSpace
  Keys = {k1}
  MaxPerWorkflow = 1
  DefaultCeiling = 2
  Quotas = {1, None}
INVARIANTS
  TypeOK
  CeilingsKept
  ReplayNeverRefused
PROPERTIES
  ImplementsRunQueue
  EveryRequestAnswered
CHECK_DEADLOCK FALSE
