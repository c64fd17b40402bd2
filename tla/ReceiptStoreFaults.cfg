SPECIFICATION Spec
CONSTANTS
  Receipts = {r1, r2, r3, r4, r5}
  NoReceipt = NoReceipt
  LongReceipts = {r1}
  MaxEntries = 2
  MaxClock = 1
  TornWrites = TRUE
  RotationsApart = FALSE
INVARIANT RefusalHasACause
PROPERTY LostOnlyByReusedName
SYMMETRY Symmetry
