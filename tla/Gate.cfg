SPECIFICATION FairSpec
CONSTANTS
  c1 = c1
  c2 = c2
  Calls <- MCCalls
  None = None
  Profiles <- MCProfiles
  LongCalls = {c2}
  Queries <- MCQueries
INVARIANTS EnforcedNeedsReceipt ActedIsOnFile EventsTellTruth RecordedRedactionHolds
PROPERTIES RepliesGrowOrFail CallsAreSettled
CHECK_DEADLOCK FALSE
