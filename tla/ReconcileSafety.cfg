SPECIFICATION Spec
CONSTANTS
  Servers = {s1, s2, s3}
  None = None
  Proposals <- ConsistentProposal
  MaxChanges = 1
SYMMETRY Symmetry
INVARIANTS
  TypeOK
  TransferAlone
  PromotionsAlmostAlone
  MarginKept
