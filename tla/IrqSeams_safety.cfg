SPECIFICATION Spec
CONSTANTS
  Modulus = 4
  ActivityPerTick = 2
  InhibitBudget = 2
  StepEvery = 2
  SofPeriod = 1
  IdleDrip = 1
  UsbWired = TRUE
  WindowPumps = 1
  MaxNest = 2
  MaxSuspended = 1
  MaxXfers = 1
  Deadlines = {1}
INVARIANTS
  TypeOK
  NmiArrivesAlone
  WindowSealed
  OneExceptionAtATime
  Tim2NeverNested
  CompareNotLost
PROPERTIES
  ClockNeverGoesBack
