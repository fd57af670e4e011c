SPECIFICATION Spec
CONSTANTS
  NumSwitches = 1
  NumEncoders = 1
  BootPins <- MCBootPins
  PhaseEvery = 4
  Detents = {0, 2}
  MaxTurns = 2
  MayReverse = TRUE
INVARIANT RotationKept
