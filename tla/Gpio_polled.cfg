SPECIFICATION FairSpec
CONSTANTS
  NumSwitches = 2
  NumEncoders = 1
  BootPins <- MCBootPins
  PhaseEvery = 5
  Detents = {0, 2}
  MaxTurns = 2
  MayReverse = FALSE
INVARIANTS
  TypeOK
  InputsHonest
  RotationKept
PROPERTIES
  NoTransitionMissed
  RotationHeard
