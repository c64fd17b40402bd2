SPECIFICATION FairSpec
CONSTANTS
  git = git
  None = None
  Procs = {1, 2, 3}
  Names = {git}
  Real = {git}
  Ops <- MCOps
INVARIANTS PartsHaveACulprit SelfWrapHasACause ObserveIsAskedFor
PROPERTIES ForeignIsSpared InvocationsEnd
CHECK_DEADLOCK FALSE
