SPECIFICATION Spec
CONSTANTS
  Rotations = {cw, ccw, up}
  Volume = {cw, ccw}
  Nothing = nothing
  Bytes <- MCBytes
  MaxLosses = 1
CHECK_DEADLOCK FALSE
INVARIANTS ControlClaimsNothing IsolationEarned GenuineGetsParity RotationsEarned
