SPECIFICATION Spec
CONSTANTS
  Servers = {s1, s2, s3}
  Self = s1
  Bystander = s3
  None = None
  TrailingLimits = {0, 2}
  Width = 3
  MaxIndex = 2
  MaxTerm = 2
CONSTRAINT BystanderSilent
INVARIANTS
  TypeOK
  HealthyIsCurrent
  SilentNeverHealthy
PROPERTY
  NoFalseAlarm
