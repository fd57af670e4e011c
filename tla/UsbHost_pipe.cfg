SPECIFICATION FairSpec
CONSTANTS
  InEps = {1}
  Requests <- MCRequests
  Want <- MCWant
  HasOut <- MCHasOut
  Size <- MCSize
  Supported <- MCSupported
  SetCfg = "setcfg"
  Script <- MCScript
  MaxPacket = 2
  StallPatience = 3
  StepPatience = 4
  MaxSubmitted = 3
  MaxReports = 2
  ResetLatency = 2
  CtrLatency = 2
INVARIANTS
  TypeOK
  NeverBothCtr
  ProtocolInStep
  GivenIntoBuffer
  ReportsInOrder
  OkMeansPerformed
PROPERTY IsControlPipe
