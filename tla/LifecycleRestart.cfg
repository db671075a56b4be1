SPECIFICATION Spec
CONSTANTS
  Execs = {e1, e2}
  Callers = {c1}
  None = None
INVARIANT
  RestartForgets
