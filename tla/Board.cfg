SPECIFICATION FairSpec
CONSTANTS
  NumPages = 2
  PageSize = 2
  MaxErases = 2
  Oscillators = {"HSI", "PLL"}
PROPERTIES
  IsFlashStore
  WaitsEnd
CHECK_DEADLOCK FALSE
