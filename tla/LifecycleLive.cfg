SPECIFICATION FairSpec
CONSTANTS
  Execs = {1, 2, 3}
  Callers = {c1}
  None = None
ACTION_CONSTRAINTS
  InOrder
  FewCalls
CHECK_DEADLOCK FALSE
PROPERTIES
  StartReturns
  ShutdownCompletes
  NewExecutionTakesOver
  TriggerServed
