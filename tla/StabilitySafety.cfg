SPECIFICATION LedSpec
CONSTANTS
  Leader = 1
  Servers = {1, 2}
  None = None
  StabTime = 1
  MaxTime = 4
  MaxChanges = 2
CONSTRAINT LeaderWell
INVARIANTS
  TypeOK
  
  VotersStable
PROPERTY
  PromotionJustified
