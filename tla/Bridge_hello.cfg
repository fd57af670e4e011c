SPECIFICATION Spec
CONSTANTS
  c1 = c1
  c2 = c2
  Clients <- MCClients
  BacklogMax = 2
  Capacity = 2
  MaxLines = 3
  MaxCommands <- MCMaxCommands
INVARIANT HelloFirst
CHECK_DEADLOCK FALSE
