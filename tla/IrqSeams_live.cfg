SPECIFICATION FairSpec
CONSTANTS
  Modulus = 4
  ActivityPerTick = 1
  InhibitBudget = 2
  StepEvery = 1
  SofPeriod = 1
  IdleDrip = 1
  UsbWired = FALSE
  WindowPumps = 1
  MaxNest = 1
  MaxSuspended = 1
  MaxXfers = 1
  Deadlines = {1}
INVARIANT NoUnwiredUsb
PROPERTIES
  InhibitExpires
  SleepEnds
