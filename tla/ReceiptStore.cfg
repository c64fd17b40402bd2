SPECIFICATION FairSpec
CONSTANTS
  Receipts = {r1, r2, r3}
  NoReceipt = NoReceipt
  LongReceipts = {}
  MaxEntries = 1
  MaxClock = 2
  TornWrites = FALSE
  RotationsApart = TRUE
INVARIANTS AckedKept MemoryAgreesWithFile RotationBound
PROPERTIES ImplementsLedger SaveReturns
