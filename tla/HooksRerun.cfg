SPECIFICATION SetupSpec
CONSTANTS
  git = git
  None = None
  Procs = {1, 2, 3}
  Names = {git}
  Real = {git}
  Ops <- SetupOps
INVARIANT ScriptsReachTheirBinary
CHECK_DEADLOCK FALSE
