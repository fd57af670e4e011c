SPECIFICATION MCSpec
CONSTANTS
  Entries = {E1, E2, E3}
  Workers = 2
  BootWall = 30
  PhaseWall = 15
  Slack = 12
  MaxLevels = 3
  TraceLength = 5
  Addresses = {1, 2, 3}
CHECK_DEADLOCK FALSE
INVARIANTS
  TypeOK
  SlotsExclusive
  CreditIsEarned
  ArmsAsDefined
  HitsTellApart
