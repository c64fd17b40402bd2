SPECIFICATION Spec
CONSTANTS
  None = None
  c1 = c1
  c2 = c2
  l1 = l1
  l2 = l2
  Clients <- MCClients
  Reqs <- MCReqs
  Inner <- MCInner
  Scenarios <- MCScenarios
  Rate = 2
  Ticks = 1
  Timeout = 1
  MaxTime = 1
  Profiling = TRUE
INVARIANTS LimiterBound CountersMatchAnswers SnapshotIsFair CutOnlyAtDeadline ActedOnADecision ReadBackIsOwn
PROPERTY ShutdownEnds
CHECK_DEADLOCK FALSE
