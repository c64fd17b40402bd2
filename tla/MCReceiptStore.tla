--------------------------- MODULE MCReceiptStore ---------------------------
(* ReceiptStore for TLC: receipts that no constant tells apart are           *)
(* interchangeable.                                                          *)
EXTENDS ReceiptStore, TLC

Symmetry == Permutations(Receipts \ LongReceipts)
=============================================================================
