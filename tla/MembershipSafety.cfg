SPECIFICATION Spec
CONSTANTS
  Ids = {s1, s2, s3, s4, s5}
  Addrs = {a1, a2}
  Callers = {p1, p2}
  None = None
  MaxCalls = 2
SYMMETRY Symmetries
INVARIANTS
  TypeOK
  QuorumSurvives
  RetryAccepted
  
  AdditionExact
CHECK_DEADLOCK FALSE
