SPECIFICATION FairSpec
CONSTANTS
  Runs = {r1, r2}
  Decoy = decoy
  NoOne = none
  PortProbes = 1
CHECK_DEADLOCK FALSE
INVARIANTS TypeOK GradedByOwnGuest NothingLeftBehind
PROPERTIES ReadyAgain
