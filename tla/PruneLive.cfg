SPECIFICATION LiveSpec
CONSTANTS
  Servers = {1, 2, 3}
  Quorums = {2}
  Filters <- StableFilter
  MaxChanges = 1
PROPERTY
  StaleNonVoterPruned
