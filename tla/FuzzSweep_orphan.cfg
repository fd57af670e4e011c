SPECIFICATION Spec
CONSTANTS
  Entries = {E1, E2}
  Workers = 1
  BootWall = 30
  PhaseWall = 15
  Slack = 12
CHECK_DEADLOCK FALSE
INVARIANTS OneEmulatorPerSlot
