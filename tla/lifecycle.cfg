SPECIFICATION Spec
CONSTANTS
  MaxFds = 1
  Machines <- MCMachines
CHECK_DEADLOCK FALSE
INVARIANTS
  UsersCovered
  NothingLeft
  StraysKnown
  VfsUnderPf
