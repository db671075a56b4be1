SPECIFICATION Spec
CONSTANTS
  Execs = {e1, e2, e3}
  Callers = {c1, c2}
  None = None
SYMMETRY Symmetry
INVARIANTS
  TypeOK
  OneLeader
  UpdateSeesOneState
  DoneMeansQuiet
  LeaderStateForgotten
  WaitingEnds
PROPERTY
  ImplementsTenure
