SPECIFICATION FairSpec
CONSTANTS
  c1 = c1
  c2 = c2
  Clients <- MCClients
  BacklogMax = 1
  Capacity = 2
  MaxLines = 2
  MaxCommands <- MCMaxCommands
INVARIANTS
  NoLineTwice
PROPERTIES
  EveryLineHeard
  ClosedForgotten
CHECK_DEADLOCK FALSE
