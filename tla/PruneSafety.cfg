SPECIFICATION MCSpec
CONSTANTS
  Servers = {1, 2, 3}
  Quorums = {0, 2}
  Filters <- AnyFilter
  MaxChanges = 3
INVARIANTS
  TypeOK
  
  OnlyLapsedRemoved
  
  NoNilEligibility
