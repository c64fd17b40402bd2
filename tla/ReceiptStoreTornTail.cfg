SPECIFICATION Spec
CONSTANTS
  Receipts = {r1, r2, r3}
  NoReceipt = NoReceipt
  LongReceipts = {}
  MaxEntries = 0
  MaxClock = 0
  TornWrites = TRUE
  RotationsApart = TRUE
INVARIANT AckedKept
