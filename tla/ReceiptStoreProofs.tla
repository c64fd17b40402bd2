------------------------- MODULE ReceiptStoreProofs -------------------------
(***************************************************************************)
(* Proofs about ReceiptStore for every set of receipts, every rotation     *)
(* threshold and every length of run: the type invariant, and that no      *)
(* acknowledged receipt is lost when lines are written whole and two       *)
(* rotations never share a second.                                         *)
(***************************************************************************)
EXTENDS ReceiptStore, FiniteSetTheorems, TLAPS

\* What appending to the file yields: a sequence of lines that is not empty,
\* and exactly the old lines and the new one when the tail was not torn.
LEMMA AppendedLines ==
  ASSUME NEW f \in Seq(Lines), NEW t \in BOOLEAN, NEW new \in Lines, t => f # <<>>,
         NEW g \in Appended(f, t, new)
  PROVE  /\ g \in Seq(Lines)
         /\ g # <<>>
         /\ Len(g) = IF t THEN Len(f) ELSE Len(f) + 1
<1>1. CASE t
  <2>1. Len(f) \in 1..Len(f)
    BY <1>1
  <2>2. f[Len(f)] \in Lines
    BY <2>1
  <2>3. \A l \in {TRUE, f[Len(f)].long \/ new.long} : [id |-> NoReceipt, long |-> l] \in Lines
    BY <2>2 DEF Lines
  <2>4. PICK line \in Lines : g = [f EXCEPT ![Len(f)] = line]
    BY <1>1, <2>3 DEF Appended
  <2> QED
    BY <1>1, <2>1, <2>4
<1>2. CASE ~t
  BY <1>2 DEF Appended
<1> QED
  BY <1>1, <1>2

\* What a crash leaves is a sequence of lines that keeps the durable ones.
LEMMA CrashImageLines ==
  ASSUME DiskOK, NEW f, NEW t, CrashImage(f, t)
  PROVE  /\ f \in Seq(Lines) /\ t \in BOOLEAN
         /\ durable \in 0..Len(f)
         /\ t => f # <<>>
         /\ \A i \in 1..durable : f[i] = file[i]
<1> USE DEF DiskOK
<1>1. PICK n \in durable..Len(file) :
        \/ f = SubSeq(file, 1, n) /\ t = (torn /\ n = Len(file))
        \/ /\ TornWrites /\ n < Len(file) /\ t = TRUE
           /\ \E part \in Pieces(file[n + 1]) : f = Append(SubSeq(file, 1, n), part)
  BY DEF CrashImage
<1>2. n \in 0..Len(file) /\ durable <= n
  OBVIOUS
<1>3. /\ SubSeq(file, 1, n) \in Seq(Lines) /\ Len(SubSeq(file, 1, n)) = n
      /\ \A i \in 1..n : SubSeq(file, 1, n)[i] = file[i]
  BY <1>2
<1>4. CASE f = SubSeq(file, 1, n) /\ t = (torn /\ n = Len(file))
  <2>1. /\ f \in Seq(Lines) /\ durable \in 0..Len(f)
        /\ \A i \in 1..durable : f[i] = file[i]
    BY <1>2, <1>3, <1>4
  <2>2. t \in BOOLEAN
    BY <1>4
  <2>3. t => f # <<>>
    <3>1. ASSUME t PROVE Len(f) = Len(file) /\ file # <<>>
      BY <3>1, <1>3, <1>4
    <3> QED
      BY <3>1
  <2> QED
    BY <2>1, <2>2, <2>3
<1>5. CASE /\ n < Len(file) /\ t = TRUE
           /\ \E part \in Pieces(file[n + 1]) : f = Append(SubSeq(file, 1, n), part)
  <2>1. file[n + 1] \in Lines
    BY <1>2, <1>5
  <2>2. Pieces(file[n + 1]) \subseteq Lines
    BY <2>1 DEF Pieces
  <2>3. PICK part \in Lines : f = Append(SubSeq(file, 1, n), part)
    BY <1>5, <2>1, <2>2
  <2>4. /\ f \in Seq(Lines) /\ Len(f) = n + 1
        /\ \A i \in 1..n : f[i] = SubSeq(file, 1, n)[i]
    BY <1>2, <1>3, <2>3
  <2>5. f # <<>>
    BY <1>2, <2>4
  <2> QED
    BY <1>2, <1>3, <1>5, <2>4, <2>5
<1> QED
  BY <1>1, <1>4, <1>5

\* Save's control: every way it returns leaves it idle with the caller told.
LEMMA ReturnSaveOK ==
  ASSUME SaveOK, NEW result \in {"acked", "failed"}, stage # "idle", Return(result)
  PROVE  SaveOK' /\ UNCHANGED <<status, clock>>
BY DEF SaveOK, Return, Stages, Outcomes

LEMMA InitTypeOK == Init => TypeOK
BY ReceiptsAssumption, NumbersAssumption
DEF Init, TypeOK, MemoryOK, DiskOK, SaveOK, Statuses, Stages, Outcomes, Lines

\* The variables keep their types and at most one Save is in progress, with a
\* disk that tears writes or not.
THEOREM TypeCorrect == Spec => []TypeOK
<1> USE ReceiptsAssumption, NumbersAssumption, EnvironmentAssumption
<1>1. Init => TypeOK
  BY InitTypeOK
<1>2. TypeOK /\ [Next]_vars => TypeOK'
  <2> SUFFICES ASSUME MemoryOK, DiskOK, SaveOK, [Next]_vars PROVE MemoryOK' /\ DiskOK' /\ SaveOK'
    BY DEF TypeOK
  <2>a. (UNCHANGED diskVars) => DiskOK'
    BY DEF DiskOK, diskVars
  <2>b. (UNCHANGED <<status, clock, memVars>>) => MemoryOK'
    BY DEF MemoryOK, memVars
  <2>c. (UNCHANGED <<stage, cur, outcome>>) => SaveOK'
    BY DEF SaveOK
  <2>d. DurableBefore \in 0..Len(file) /\ (torn => DurableBefore <= Len(file))
    BY DEF DurableBefore, DiskOK
  <2>1. ASSUME NEW r \in Receipts, BeginSave(r) PROVE MemoryOK' /\ DiskOK' /\ SaveOK'
    <3>1. SaveOK'
      BY <2>1 DEF BeginSave, SaveOK, Stages, Outcomes
    <3> QED
      BY <2>1, <2>a, <2>b, <3>1 DEF BeginSave
  <2>2. CASE Rotate
    <3>0. archives' \in [0..MaxClock -> Seq(Lines)]
      BY <2>2 DEF Rotate, DiskOK
    <3>b. file' \in Seq(Lines) /\ Len(file') = 0 /\ durable' = 0 /\ torn' = FALSE
      BY <2>2 DEF Rotate
    <3>1. DiskOK'
      <4>1. torn' \in BOOLEAN /\ ~torn'
        BY <3>b
      <4>2. durable' \in 0..Len(file')
        BY <3>b
      <4> QED
        BY <3>0, <3>b, <4>1, <4>2 DEF DiskOK
    <3>2. MemoryOK'
      BY <2>2 DEF Rotate, MemoryOK
    <3>3. SaveOK'
      BY <2>2 DEF Rotate, SaveOK, Stages
    <3> QED
      BY <3>1, <3>2, <3>3
  <2>3. CASE RotateFails
    BY <2>3, <2>a, <2>b, ReturnSaveOK DEF RotateFails
  <2>4. CASE WriteLine
    <3>1. FullLine(cur) \in Lines
      BY <2>4 DEF WriteLine, SaveOK, FullLine, IsLong, Lines
    <3>2. /\ file' \in Seq(Lines) /\ file' # <<>>
          /\ Len(file') \in {Len(file), Len(file) + 1}
      BY <2>4, <3>1, AppendedLines DEF WriteLine, DiskOK
    <3>a. durable' \in 0..Len(file')
      BY <2>4, <2>d, <3>2 DEF WriteLine, DiskOK
    <3>3. DiskOK'
      BY <2>4, <3>2, <3>a DEF WriteLine, DiskOK
    <3>4. SaveOK'
      BY <2>4 DEF WriteLine, SaveOK, Stages
    <3> QED
      BY <2>4, <2>b, <3>3, <3>4 DEF WriteLine
  <2>5. CASE WriteFails
    BY <2>5, <2>a, <2>b, ReturnSaveOK DEF WriteFails
  <2>6. CASE WriteShort
    <3>1. PICK part \in Pieces(FullLine(cur)) : file' \in Appended(file, torn, part)
      BY <2>6 DEF WriteShort
    <3>2. part \in Lines
      <4>1. FullLine(cur) \in Lines
        BY <2>6 DEF WriteShort, SaveOK, FullLine, IsLong, Lines
      <4> QED
        BY <3>1, <4>1 DEF Pieces
    <3>3. /\ file' \in Seq(Lines) /\ file' # <<>>
          /\ Len(file') \in {Len(file), Len(file) + 1}
      BY <3>1, <3>2, AppendedLines DEF DiskOK
    <3>4. DiskOK'
      BY <2>6, <2>d, <3>3 DEF WriteShort, DiskOK
    <3> QED
      BY <2>6, <2>b, <3>4, ReturnSaveOK DEF WriteShort
  <2>7. CASE SyncFile
    <3>1. DiskOK'
      BY <2>7 DEF SyncFile, DiskOK
    <3>2. SaveOK'
      BY <2>7 DEF SyncFile, SaveOK, Stages
    <3> QED
      BY <2>7, <2>b, <3>1, <3>2 DEF SyncFile
  <2>8. CASE SyncFails
    BY <2>8, <2>a, <2>b, ReturnSaveOK DEF SyncFails
  <2>9. CASE Publish
    <3>1. SaveOK' /\ UNCHANGED <<status, clock>>
      BY <2>9, ReturnSaveOK DEF Publish
    <3>2. MemoryOK'
      BY <2>9, <3>1 DEF Publish, MemoryOK, SaveOK
    <3> QED
      BY <2>9, <2>a, <3>1, <3>2 DEF Publish
  <2>10. CASE Crash
    <3>1. /\ file' \in Seq(Lines) /\ torn' \in BOOLEAN
          /\ durable \in 0..Len(file') /\ (torn' => file' # <<>>)
      BY <2>10, CrashImageLines DEF Crash
    <3>2. DiskOK'
      BY <2>10, <3>1 DEF Crash, DiskOK
    <3>3. MemoryOK'
      BY <2>10 DEF Crash, MemoryOK, Statuses
    <3>4. SaveOK'
      BY <2>10 DEF Crash, SaveOK, Stages, Outcomes
    <3> QED
      BY <3>2, <3>3, <3>4
  <2>11. CASE Restart
    <3>1. ReceiptsIn(file) \subseteq Receipts
      <4>1. \A i \in 1..Len(file) : file[i] \in Lines
        BY DEF DiskOK
      <4>2. \A line \in Lines : line.id \in Receipts \cup {NoReceipt}
        BY DEF Lines
      <4> QED
        BY <4>1, <4>2 DEF ReceiptsIn
    <3>2. Cardinality(DecodedLines(file)) \in Nat
      <4>1. DecodedLines(file) \subseteq 1..Len(file)
        BY DEF DecodedLines
      <4>2. IsFiniteSet(1..Len(file))
        BY FS_Interval DEF DiskOK
      <4> QED
        BY <4>1, <4>2, FS_Subset, FS_CardinalityType
    <3>3. MemoryOK'
      BY <2>11, <3>1, <3>2 DEF Restart, MemoryOK, Statuses, memVars
    <3> QED
      BY <2>11, <2>a, <2>c, <3>3 DEF Restart
  <2>12. CASE Tick
    <3>1. MemoryOK'
      BY <2>12 DEF Tick, MemoryOK, memVars
    <3> QED
      BY <2>12, <2>a, <2>c, <3>1 DEF Tick
  <2>13. CASE UNCHANGED vars
    BY <2>13, <2>a, <2>b, <2>c DEF vars, memVars, diskVars
  <2> QED
    BY <2>1, <2>2, <2>3, <2>4, <2>5, <2>6, <2>7, <2>8, <2>9, <2>10, <2>11, <2>12, <2>13
    DEF Next, SaveStep
<1> QED
  BY <1>1, <1>2, PTL DEF Spec

-----------------------------------------------------------------------------
\* A step that leaves the durable lines alone and syncs no fewer keeps every
\* receipt they hold.
LEMMA DurableGrow ==
  ASSUME durable \in Nat, durable' \in Nat, durable <= durable',
         \A i \in 1..durable : file'[i] = file[i]
  PROVE  DurableReceipts \subseteq DurableReceipts'
BY DEF DurableReceipts

\* Receipts are acknowledged only by a Save that returns without an error.
LEMMA NewAck ==
  ASSUME SaveOK, NEW result \in {"acked", "failed"}, stage # "idle", Return(result)
  PROVE  /\ result = "acked" => Acked' \subseteq Acked \cup {cur}
         /\ result = "failed" => Acked' \subseteq Acked
BY DEF SaveOK, Return, Acked, Outcomes

\* Every step keeps AuditInv when the disk does not tear lines and rotations,
\* if there are any, are a second apart.
LEMMA AuditStep ==
  ASSUME TornWrites = FALSE, MaxEntries > 0 => RotationsApart,
         AuditInv, TypeOK', [Next]_vars
  PROVE  AuditInv'
<1> USE ReceiptsAssumption, NumbersAssumption, EnvironmentAssumption
<1>1. MemoryOK /\ DiskOK /\ SaveOK /\ DiskOK' /\ SaveOK' /\ ~torn /\ SaveProgress /\ AckedKept
  BY DEF AuditInv, TypeOK
<1> SUFFICES ~torn' /\ SaveProgress' /\ AckedKept'
  BY DEF AuditInv
<1>a. ASSUME DurableReceipts \subseteq DurableReceipts', UNCHANGED archives, Acked' \subseteq Acked
      PROVE  AckedKept'
  BY <1>1, <1>a DEF AckedKept, ArchivedReceipts
<1>b. ASSUME UNCHANGED diskVars PROVE DurableReceipts' = DurableReceipts /\ UNCHANGED archives /\ ~torn'
  BY <1>1, <1>b DEF diskVars, DurableReceipts
<1>c. ASSUME UNCHANGED outcome PROVE Acked' = Acked
  BY <1>c DEF Acked
<1>2. ASSUME NEW r \in Receipts, BeginSave(r) PROVE ~torn' /\ SaveProgress' /\ AckedKept'
  <2>1. Acked' \subseteq Acked
    BY <1>1, <1>2 DEF BeginSave, Acked, SaveOK
  <2>2. SaveProgress'
    BY <1>2 DEF BeginSave, SaveProgress, MustRotate
  <2> QED
    BY <1>2, <1>a, <1>b, <2>1, <2>2 DEF BeginSave
<1>3. CASE Rotate
  <2>1. archives[clock] = <<>> /\ clock \in 0..MaxClock
    BY <1>1, <1>3 DEF Rotate, SaveProgress, MemoryOK
  <2>2. ReceiptsIn(archives'[clock]) = ReceiptsIn(file)
    BY <1>1, <1>3, <2>1 DEF Rotate, ReceiptsIn, DiskOK
  <2>3. DurableReceipts \subseteq ReceiptsIn(file)
    BY <1>1 DEF DurableReceipts, ReceiptsIn, DiskOK
  <2>4. \A s \in 0..MaxClock : ReceiptsIn(archives[s]) \subseteq ReceiptsIn(archives'[s])
    <3>1. \A s \in 0..MaxClock : s # clock => archives'[s] = archives[s]
      BY <1>1, <1>3 DEF Rotate, DiskOK
    <3>2. ReceiptsIn(archives[clock]) = {}
      BY <2>1 DEF ReceiptsIn
    <3> QED
      BY <3>1, <3>2
  <2>5. DurableReceipts \cup ArchivedReceipts \subseteq ArchivedReceipts'
    BY <2>1, <2>2, <2>3, <2>4 DEF ArchivedReceipts
  <2>6. AckedKept'
    BY <1>1, <1>3, <1>c, <2>5 DEF AckedKept, Rotate
  <2> QED
    BY <1>3, <2>6 DEF Rotate, SaveProgress
<1>4. CASE RotateFails
  BY <1>1, <1>4, <1>a, <1>b, NewAck DEF RotateFails, Return, SaveProgress
<1>5. CASE WriteLine
  <2>1. file' = Append(file, FullLine(cur)) /\ durable' = durable
    BY <1>1, <1>5 DEF WriteLine, Appended, DurableBefore
  <2>2. /\ Len(file') = Len(file) + 1 /\ file'[Len(file')] = FullLine(cur)
        /\ \A i \in 1..Len(file) : file'[i] = file[i]
    BY <1>1, <2>1 DEF DiskOK
  <2>3. DurableReceipts \subseteq DurableReceipts'
    BY <1>1, <2>1, <2>2, DurableGrow DEF DiskOK
  <2>4. SaveProgress'
    <3>1. FullLine(cur).id = cur
      BY DEF FullLine
    <3> QED
      BY <1>1, <1>5, <2>2, <3>1 DEF WriteLine, SaveProgress, DiskOK
  <2> QED
    BY <1>5, <1>a, <1>c, <2>3, <2>4 DEF WriteLine
<1>6. CASE WriteFails
  BY <1>1, <1>6, <1>a, <1>b, NewAck DEF WriteFails, Return, SaveProgress
<1>7. CASE WriteShort
  BY <1>7 DEF WriteShort
<1>8. CASE SyncFile
  <2>1. DurableReceipts \subseteq DurableReceipts'
    BY <1>1, <1>8, DurableGrow DEF SyncFile, DiskOK
  <2>2. SaveProgress'
    BY <1>1, <1>8 DEF SyncFile, SaveProgress
  <2> QED
    BY <1>1, <1>8, <1>a, <1>c, <2>1, <2>2 DEF SyncFile
<1>9. CASE SyncFails
  BY <1>1, <1>9, <1>a, <1>b, NewAck DEF SyncFails, Return, SaveProgress
<1>10. CASE Publish
  <2>1. cur \in DurableReceipts
    BY <1>1, <1>10 DEF Publish, SaveProgress, DurableReceipts, SaveOK, DiskOK
  <2>2. Acked' \subseteq Acked \cup {cur}
    BY <1>1, <1>10, NewAck DEF Publish
  <2>3. AckedKept'
    BY <1>1, <1>10, <1>b, <2>1, <2>2 DEF Publish, AckedKept, ArchivedReceipts
  <2> QED
    BY <1>10, <1>b, <2>3 DEF Publish, Return, SaveProgress
<1>11. CASE Crash
  <2>1. /\ durable \in 0..Len(file') /\ durable' = durable
        /\ \A i \in 1..durable : file'[i] = file[i]
    BY <1>1, <1>11, CrashImageLines DEF Crash
  <2>2. ~torn'
    BY <1>1, <1>11 DEF Crash, CrashImage
  <2>3. DurableReceipts \subseteq DurableReceipts'
    BY <1>1, <2>1, DurableGrow DEF DiskOK
  <2>4. Acked' \subseteq Acked
    BY <1>1, <1>11 DEF Crash, Acked, SaveOK
  <2> QED
    BY <1>11, <1>a, <2>2, <2>3, <2>4 DEF Crash, SaveProgress
<1>12. CASE Restart \/ Tick \/ UNCHANGED vars
  <2>1. UNCHANGED <<diskVars, stage, cur, outcome>>
    BY <1>12 DEF Restart, Tick, vars, diskVars, memVars
  <2>2. SaveProgress'
    BY <1>1, <2>1 DEF SaveProgress, diskVars
  <2> QED
    BY <1>a, <1>b, <1>c, <2>1, <2>2
<1> QED
  BY <1>2, <1>3, <1>4, <1>5, <1>6, <1>7, <1>8, <1>9, <1>10, <1>11, <1>12 DEF Next, SaveStep

LEMMA AuditHolds ==
  ASSUME TornWrites = FALSE, MaxEntries > 0 => RotationsApart
  PROVE  Spec => []AuditInv
<1>1. Init => AuditInv
  <2>1. Init => Acked = {} /\ ~torn /\ SaveProgress
    BY DEF Init, Acked, SaveProgress
  <2>2. Init => TypeOK
    BY InitTypeOK
  <2> QED
    BY <2>1, <2>2 DEF AuditInv, AckedKept
<1>2. AuditInv /\ TypeOK' /\ [Next]_vars => AuditInv'
  BY AuditStep
<1> QED
  BY <1>1, <1>2, TypeCorrect, PTL DEF Spec

\* No audit record is lost: with lines written whole, and rotation either off
\* (as main.go leaves it) or a second apart, what Save acknowledged is fsynced
\* in the file or kept in an archive, for ever and across any crash.
THEOREM AckedNeverLost ==
  ASSUME TornWrites = FALSE, MaxEntries > 0 => RotationsApart
  PROVE  Spec => []AckedKept
<1>1. AuditInv => AckedKept
  BY DEF AuditInv
<1> QED
  BY <1>1, AuditHolds, PTL

-----------------------------------------------------------------------------
(* Memory and file agree.  When lines are written whole each line of the   *)
(* file is of a receipt of its own, of which some Save was told the end or *)
(* is still in progress.                                                   *)

LinesApart ==
  /\ \A i \in 1..Len(file) : file[i].id \in Receipts
  /\ \A i, j \in 1..Len(file) : file[i].id = file[j].id => i = j

CurIsFresh ==
  /\ \A r \in ReceiptsIn(file) : outcome[r] # "new"
  /\ stage \in {"rotate", "write"} => cur \notin ReceiptsIn(file)
  /\ stage # "idle" => status = "up" /\ cur \notin receipts

\* A rotation comes before the acknowledged receipts of a file are too many.
AckedFew ==
  MaxEntries > 0 =>
    /\ Cardinality(Acked \cap ReceiptsIn(file)) <= MaxEntries
    /\ stage \in {"write", "sync", "publish"} => Cardinality(Acked \cap ReceiptsIn(file)) < MaxEntries

FileInv == TypeOK /\ ~torn /\ SaveProgress /\ LinesApart /\ CurIsFresh

MemoryInv == FileInv /\ MemoryAgreesWithFile /\ AckedFew

LEMMA SetsOfReceipts ==
  ASSUME NEW S \in SUBSET Receipts
  PROVE  IsFiniteSet(S) /\ Cardinality(S) \in Nat
BY ReceiptsAssumption, FS_Subset, FS_CardinalityType

\* As many receipts as lines.
LEMMA LinesCounted ==
  ASSUME DiskOK, LinesApart
  PROVE  /\ Cardinality(ReceiptsIn(file)) = Len(file)
         /\ Cardinality(DecodedLines(file)) = Len(file)
         /\ ReceiptsIn(file) \subseteq Receipts
<1> DEFINE f == [i \in 1..Len(file) |-> file[i].id]
<1>1. Len(file) \in Nat
  BY DEF DiskOK
<1>2. ReceiptsIn(file) = {file[i].id : i \in 1..Len(file)}
  BY ReceiptsAssumption DEF ReceiptsIn, LinesApart
<1>3. f \in [1..Len(file) -> ReceiptsIn(file)]
  BY <1>2
<1>4. \A x, y \in 1..Len(file) : f[x] = f[y] => x = y
  BY DEF LinesApart
<1>5. \A r \in ReceiptsIn(file) : \E x \in 1..Len(file) : f[x] = r
  BY <1>2
<1> HIDE DEF f
<1>6. f \in Bijection(1..Len(file), ReceiptsIn(file))
  BY <1>3, <1>4, <1>5 DEF Bijection, Injection, Surjection, IsInjective
<1>7. ExistsBijection(1..Len(file), ReceiptsIn(file))
  BY <1>6 DEF ExistsBijection
<1>8. Cardinality(ReceiptsIn(file)) = Len(file)
  BY <1>1, <1>7, FS_CountingElements
<1>9. DecodedLines(file) = 1..Len(file)
  BY ReceiptsAssumption DEF DecodedLines, LinesApart
<1>10. Cardinality(1..Len(file)) = Len(file)
  <2>1. 1 \in Int /\ Len(file) \in Int
    BY <1>1
  <2>2. Cardinality(1..Len(file)) = IF 1 > Len(file) THEN 0 ELSE Len(file) - 1 + 1
    BY <2>1, FS_Interval, Zenon
  <2> QED
    BY <1>1, <2>2
<1>11. ReceiptsIn(file) \subseteq Receipts
  BY <1>2 DEF LinesApart
<1> QED
  BY <1>8, <1>9, <1>10, <1>11

\* What appending a line adds.
LEMMA WriteLineAdds ==
  ASSUME FileInv, WriteLine
  PROVE  /\ LinesApart' /\ ReceiptsIn(file') = ReceiptsIn(file) \cup {cur}
         /\ cur \in Receipts /\ cur \notin ReceiptsIn(file) /\ ~torn' /\ SaveProgress'
<1>1. cur \in Receipts /\ cur \notin ReceiptsIn(file) /\ file \in Seq(Lines) /\ ~torn
  BY DEF WriteLine, FileInv, TypeOK, SaveOK, DiskOK, CurIsFresh
<1>2. file' = Append(file, FullLine(cur)) /\ FullLine(cur).id = cur
  BY <1>1 DEF WriteLine, Appended, FullLine
<1>3. /\ Len(file') = Len(file) + 1 /\ file'[Len(file) + 1].id = cur /\ Len(file) \in Nat
      /\ \A i \in 1..Len(file) : file'[i] = file[i]
  BY <1>1, <1>2
<1>4. \A i \in 1..Len(file') : i \in 1..Len(file) \/ i = Len(file) + 1
  BY <1>3
<1>5. \A i \in 1..Len(file) : file[i].id # cur
  BY <1>1, ReceiptsAssumption DEF ReceiptsIn
<1>6. LinesApart'
  <2>1. \A i \in 1..Len(file') : file'[i].id \in Receipts
    BY <1>1, <1>3, <1>4 DEF FileInv, LinesApart
  <2>2. ASSUME NEW i \in 1..Len(file'), NEW j \in 1..Len(file'), file'[i].id = file'[j].id PROVE i = j
    BY <1>3, <1>4, <1>5, <2>2 DEF FileInv, LinesApart
  <2> QED
    BY <2>1, <2>2 DEF LinesApart
<1>7. {file'[i].id : i \in 1..Len(file')} = {file[i].id : i \in 1..Len(file)} \cup {cur}
  BY <1>3, <1>4
<1>8. ReceiptsIn(file') = ReceiptsIn(file) \cup {cur}
  BY <1>1, <1>7, ReceiptsAssumption DEF ReceiptsIn
<1>9. SaveProgress'
  <2>1. file' # <<>> /\ file'[Len(file')].id = cur
    BY <1>2, <1>3, <1>1
  <2> QED
    BY <2>1 DEF WriteLine, SaveProgress
<1>10. ~torn'
  BY DEF WriteLine
<1> QED
  BY <1>1, <1>6, <1>8, <1>9, <1>10

\* What a crash takes away.
LEMMA CrashTakes ==
  ASSUME TornWrites = FALSE, FileInv, Crash
  PROVE  /\ LinesApart' /\ ReceiptsIn(file') \subseteq ReceiptsIn(file) /\ ~torn'
<1>1. PICK n \in durable..Len(file) : file' = SubSeq(file, 1, n) /\ torn' = (torn /\ n = Len(file))
  BY DEF Crash, CrashImage
<1>2. n \in 0..Len(file) /\ file \in Seq(Lines) /\ ~torn
  BY DEF FileInv, TypeOK, DiskOK
<1>3. Len(file') = n /\ \A i \in 1..n : file'[i] = file[i] /\ i \in 1..Len(file)
  BY <1>1, <1>2
<1>4. LinesApart'
  BY <1>3 DEF FileInv, LinesApart
<1>5. ReceiptsIn(file') \subseteq ReceiptsIn(file)
  BY <1>3 DEF ReceiptsIn
<1> QED
  BY <1>1, <1>2, <1>4, <1>5

LEMMA FileStep ==
  ASSUME TornWrites = FALSE, FileInv, MemoryAgreesWithFile, TypeOK', [Next]_vars
  PROVE  FileInv'
<1>1. DiskOK /\ SaveOK /\ MemoryOK /\ ~torn /\ SaveProgress /\ LinesApart /\ CurIsFresh /\ SaveOK'
  BY DEF FileInv, TypeOK
<1> SUFFICES ~torn' /\ SaveProgress' /\ LinesApart' /\ CurIsFresh'
  BY DEF FileInv
<1>a. ASSUME file' = file, torn' = torn PROVE LinesApart' /\ ~torn' /\ ReceiptsIn(file') = ReceiptsIn(file)
  BY <1>1, <1>a DEF LinesApart
<1>b. ASSUME stage # "idle", NEW result \in {"acked", "failed"}, Return(result), UNCHANGED diskVars
      PROVE  ~torn' /\ SaveProgress' /\ LinesApart' /\ CurIsFresh'
  <2>1. \A r \in Receipts : outcome[r] # "new" => outcome'[r] # "new"
    BY <1>1, <1>b DEF Return, SaveOK
  <2>2. ReceiptsIn(file) \subseteq Receipts
    BY <1>1, LinesCounted
  <2> QED
    BY <1>1, <1>a, <1>b, <2>1, <2>2 DEF Return, SaveProgress, CurIsFresh, diskVars
<1>2. ASSUME NEW r \in Receipts, BeginSave(r) PROVE ~torn' /\ SaveProgress' /\ LinesApart' /\ CurIsFresh'
  <2>1. ReceiptsIn(file) \subseteq Receipts
    BY <1>1, LinesCounted
  <2>2. r \notin ReceiptsIn(file) /\ status = "up" /\ r \notin receipts
    BY <1>1, <1>2 DEF BeginSave, CurIsFresh, MemoryAgreesWithFile
  <2>3. \A q \in Receipts : outcome[q] # "new" => outcome'[q] # "new"
    BY <1>1, <1>2 DEF BeginSave, SaveOK
  <2>4. SaveProgress'
    BY <1>2 DEF BeginSave, SaveProgress, MustRotate
  <2>5. file' = file /\ torn' = torn /\ receipts' = receipts /\ status' = status /\ cur' = r
    BY <1>2 DEF BeginSave, diskVars, memVars
  <2>6. CurIsFresh'
    BY <1>1, <2>1, <2>2, <2>3, <2>5 DEF CurIsFresh
  <2> QED
    BY <1>a, <2>4, <2>5, <2>6
<1>3. CASE Rotate
  <2>1. file' = <<>> /\ ~torn' /\ ReceiptsIn(file') = {}
    BY <1>3 DEF Rotate, ReceiptsIn
  <2>2. LinesApart' /\ SaveProgress'
    BY <1>3, <2>1 DEF Rotate, LinesApart, SaveProgress
  <2>3. CurIsFresh'
    BY <1>1, <1>3, <2>1 DEF Rotate, CurIsFresh
  <2> QED
    BY <2>1, <2>2, <2>3
<1>4. CASE RotateFails \/ WriteFails \/ SyncFails \/ Publish
  BY <1>4, <1>b DEF RotateFails, WriteFails, SyncFails, Publish
<1>5. CASE WriteLine
  <2>1. /\ LinesApart' /\ ReceiptsIn(file') = ReceiptsIn(file) \cup {cur} /\ ~torn' /\ SaveProgress'
        /\ cur \in Receipts
    BY <1>5, WriteLineAdds
  <2>2. outcome[cur] = "saving" /\ outcome' = outcome /\ cur' = cur /\ status' = status /\ receipts' = receipts
        /\ stage = "write" /\ stage' = "sync"
    BY <1>1, <1>5, <2>1 DEF WriteLine, SaveOK, memVars
  <2>3. CurIsFresh'
    BY <1>1, <2>1, <2>2 DEF CurIsFresh
  <2> QED
    BY <2>1, <2>3
<1>6. CASE WriteShort
  BY <1>6 DEF WriteShort
<1>7. CASE SyncFile
  <2>1. file' = file /\ torn' = torn /\ UNCHANGED <<receipts, status, cur, outcome>> /\ stage = "sync"
        /\ stage' = "publish" /\ durable' = Len(file)
    BY <1>7 DEF SyncFile, memVars
  <2>2. SaveProgress'
    BY <1>1, <2>1 DEF SaveProgress
  <2>3. CurIsFresh'
    BY <1>1, <2>1 DEF CurIsFresh
  <2> QED
    BY <1>a, <2>1, <2>2, <2>3
<1>8. CASE Crash
  <2>1. LinesApart' /\ ReceiptsIn(file') \subseteq ReceiptsIn(file) /\ ~torn'
    BY <1>8, CrashTakes DEF FileInv
  <2>2. \A r \in Receipts : outcome[r] # "new" => outcome'[r] # "new"
    BY <1>8 DEF Crash
  <2>3. ReceiptsIn(file) \subseteq Receipts
    BY <1>1, LinesCounted
  <2>4. stage' = "idle"
    BY <1>8 DEF Crash
  <2> QED
    BY <1>1, <2>1, <2>2, <2>3, <2>4 DEF CurIsFresh, SaveProgress
<1>9. CASE Restart \/ Tick \/ UNCHANGED vars
  <2>1. UNCHANGED <<file, torn, durable, stage, cur, outcome>>
    BY <1>9 DEF Restart, Tick, vars, diskVars, memVars
  <2>2. stage # "idle" => UNCHANGED <<status, receipts>>
    BY <1>1, <1>9 DEF Restart, Tick, vars, memVars, CurIsFresh
  <2> QED
    BY <1>1, <1>a, <2>1, <2>2 DEF SaveProgress, CurIsFresh
<1> QED
  BY <1>2, <1>3, <1>4, <1>5, <1>6, <1>7, <1>8, <1>9 DEF Next, SaveStep

\* What Publish adds to memory.
LEMMA PublishAdds ==
  ASSUME FileInv, MemoryAgreesWithFile, Publish
  PROVE  /\ receipts' = receipts \cup {cur} /\ cur \in ReceiptsIn(file) /\ cur \notin receipts /\ cur \in Receipts
         /\ entryCount' = Cardinality(receipts') /\ Acked' = Acked \cup {cur} /\ cur \notin Acked
         /\ status = "up" /\ status' = status /\ file' = file
<1>1. /\ stage = "publish" /\ receipts' = receipts \cup {cur} /\ entryCount' = entryCount + 1
      /\ Return("acked") /\ file' = file
  BY DEF Publish, diskVars
<1>2. /\ cur \in Receipts /\ cur \notin receipts /\ status = "up" /\ receipts \subseteq Receipts
      /\ outcome[cur] = "saving" /\ outcome \in [Receipts -> Outcomes]
  BY <1>1 DEF FileInv, TypeOK, SaveOK, MemoryOK, CurIsFresh
<1>3. cur \in ReceiptsIn(file)
  BY <1>1, <1>2, ReceiptsAssumption DEF FileInv, SaveProgress, ReceiptsIn, TypeOK, DiskOK
<1>4. Cardinality(receipts \cup {cur}) = Cardinality(receipts) + 1
  BY <1>2, SetsOfReceipts, FS_AddElement
<1>5. entryCount = Cardinality(receipts)
  BY <1>2 DEF MemoryAgreesWithFile
<1>6. Acked' = Acked \cup {cur} /\ cur \notin Acked
  BY <1>1, <1>2 DEF Return, Acked
<1> QED
  BY <1>1, <1>2, <1>3, <1>4, <1>5, <1>6 DEF Return

\* A Save that fails acknowledges nothing, nor does one that begins.
LEMMA AckedSame ==
  ASSUME SaveOK, NEW r \in Receipts,
         \/ stage # "idle" /\ Return("failed")
         \/ BeginSave(r)
         \/ UNCHANGED outcome
         \/ Crash
  PROVE  Acked' = Acked
<1>1. CASE stage # "idle" /\ Return("failed")
  BY <1>1 DEF Return, SaveOK, Acked
<1>2. CASE BeginSave(r)
  BY <1>2 DEF BeginSave, SaveOK, Acked
<1>3. CASE UNCHANGED outcome
  BY <1>3 DEF Acked
<1>4. CASE Crash
  BY <1>4 DEF Crash, SaveOK, Acked
<1> QED
  BY <1>1, <1>2, <1>3, <1>4

\* Memory follows the file through every step.
LEMMA AgreeStep ==
  ASSUME TornWrites = FALSE, FileInv, MemoryAgreesWithFile, [Next]_vars
  PROVE  MemoryAgreesWithFile'
<1>1. DiskOK /\ SaveOK /\ LinesApart /\ CurIsFresh
  BY DEF FileInv, TypeOK
<1>a. ASSUME UNCHANGED <<status, receipts, entryCount, file>>, Acked' = Acked PROVE MemoryAgreesWithFile'
  BY <1>a DEF MemoryAgreesWithFile
<1>2. ASSUME NEW r \in Receipts, BeginSave(r) PROVE MemoryAgreesWithFile'
  BY <1>1, <1>2, <1>a, AckedSame DEF BeginSave, memVars, diskVars
<1>3. CASE Rotate
  <2>1. ReceiptsIn(file') = {} /\ receipts' = {} /\ entryCount' = 0 /\ Cardinality({}) = 0
    BY <1>3, FS_EmptySet DEF Rotate, ReceiptsIn
  <2> QED
    BY <2>1 DEF MemoryAgreesWithFile
<1>4. CASE RotateFails \/ WriteFails \/ SyncFails
  <2>1. Return("failed") /\ stage # "idle" /\ UNCHANGED <<memVars, diskVars>>
    BY <1>4 DEF RotateFails, WriteFails, SyncFails
  <2>2. cur \in Receipts
    BY <1>1, <2>1 DEF SaveOK
  <2> QED
    BY <1>1, <1>a, <2>1, <2>2, AckedSame DEF Return, memVars, diskVars
<1>5. CASE WriteLine
  <2>1. ReceiptsIn(file') = ReceiptsIn(file) \cup {cur} /\ cur \in Receipts
    BY <1>5, WriteLineAdds
  <2>2. UNCHANGED <<status, receipts, entryCount, outcome>> /\ stage # "idle"
    BY <1>5 DEF WriteLine, memVars
  <2>3. Acked' = Acked /\ cur \notin Acked
    BY <1>1, <2>1, <2>2 DEF Acked, SaveOK
  <2> QED
    BY <2>1, <2>2, <2>3 DEF MemoryAgreesWithFile
<1>6. CASE WriteShort
  BY <1>6 DEF WriteShort
<1>7. CASE SyncFile \/ Tick \/ UNCHANGED vars
  <2>1. UNCHANGED <<status, receipts, entryCount, file, outcome>>
    BY <1>7 DEF SyncFile, Tick, vars, memVars, diskVars
  <2> QED
    BY <1>a, <2>1 DEF Acked
<1>8. CASE Publish
  BY <1>8, PublishAdds DEF MemoryAgreesWithFile
<1>9. CASE Crash
  BY <1>9 DEF Crash, MemoryAgreesWithFile
<1>10. CASE Restart
  <2>1. CASE Loads(file)
    <3>1. receipts' = ReceiptsIn(file) /\ entryCount' = Cardinality(DecodedLines(file)) /\ file' = file
      BY <1>10, <2>1 DEF Restart, diskVars
    <3> QED
      BY <1>1, <3>1, LinesCounted DEF MemoryAgreesWithFile
  <2>2. CASE ~Loads(file)
    BY <1>10, <2>2 DEF Restart, MemoryAgreesWithFile
  <2> QED
    BY <2>1, <2>2
<1> QED
  BY <1>2, <1>3, <1>4, <1>5, <1>6, <1>7, <1>8, <1>9, <1>10 DEF Next, SaveStep

\* Fewer receipts in the file, and no more of them acknowledged.
LEMMA FewerAcked ==
  ASSUME NEW S \in SUBSET Receipts, NEW T \in SUBSET S
  PROVE  Cardinality(T) <= Cardinality(S) /\ Cardinality(T) \in Nat /\ Cardinality(S) \in Nat
BY SetsOfReceipts, FS_Subset

LEMMA FewStep ==
  ASSUME TornWrites = FALSE, MemoryInv, [Next]_vars
  PROVE  AckedFew'
<1> USE NumbersAssumption
<1>1. DiskOK /\ SaveOK /\ FileInv /\ MemoryAgreesWithFile /\ AckedFew /\ SaveProgress /\ MemoryOK
  BY DEF MemoryInv, FileInv, TypeOK
<1> DEFINE A == Acked \cap ReceiptsIn(file)
<1>b. A \in SUBSET Receipts /\ Acked \in SUBSET Receipts
  BY DEF Acked
<1>a. ASSUME Acked' \cap ReceiptsIn(file') \subseteq A,
             stage' \in {"write", "sync", "publish"} => stage \in {"write", "sync", "publish"}
      PROVE  AckedFew'
  <2> DEFINE B == Acked' \cap ReceiptsIn(file')
  <2>1. Cardinality(B) <= Cardinality(A) /\ Cardinality(A) \in Nat /\ Cardinality(B) \in Nat
    BY <1>a, <1>b, FewerAcked
  <2>2. MaxEntries > 0 =>
          /\ Cardinality(A) <= MaxEntries
          /\ stage \in {"write", "sync", "publish"} => Cardinality(A) < MaxEntries
    BY <1>1 DEF AckedFew
  <2> HIDE DEF A, B
  <2>3. MaxEntries > 0 =>
          /\ Cardinality(B) <= MaxEntries
          /\ stage' \in {"write", "sync", "publish"} => Cardinality(B) < MaxEntries
    BY <1>a, <2>1, <2>2
  <2> QED
    BY <2>3 DEF AckedFew, B
<1>2. ASSUME NEW r \in Receipts, BeginSave(r) PROVE AckedFew'
  <2>1. Acked' = Acked /\ file' = file
    BY <1>1, <1>2, AckedSame DEF BeginSave, diskVars
  <2>2. CASE MustRotate
    BY <1>2, <1>a, <2>1, <2>2 DEF BeginSave
  <2>3. CASE ~MustRotate /\ MaxEntries > 0
    <3>1. entryCount < MaxEntries /\ entryCount = Cardinality(receipts) /\ A \subseteq receipts /\ receipts \in SUBSET Receipts
      BY <1>1, <1>2, <2>3 DEF MustRotate, BeginSave, MemoryAgreesWithFile, MemoryOK
    <3>2. Cardinality(A) <= Cardinality(receipts) /\ Cardinality(A) \in Nat /\ Cardinality(receipts) \in Nat
      BY <3>1, FewerAcked
    <3>3. Cardinality(A) < MaxEntries
      BY <3>1, <3>2
    <3> QED
      BY <2>1, <3>2, <3>3 DEF AckedFew
  <2>4. CASE ~(MaxEntries > 0)
    BY <2>4 DEF AckedFew
  <2> QED
    BY <2>2, <2>3, <2>4
<1>3. CASE Rotate
  <2>1. Acked' \cap ReceiptsIn(file') = {} /\ Cardinality({}) = 0
    BY <1>3, FS_EmptySet DEF Rotate, ReceiptsIn
  <2> QED
    BY <2>1 DEF AckedFew
<1>4. CASE RotateFails \/ WriteFails \/ SyncFails
  <2>1. Return("failed") /\ stage # "idle" /\ file' = file /\ stage' = "idle"
    BY <1>4 DEF RotateFails, WriteFails, SyncFails, diskVars, Return
  <2>2. cur \in Receipts
    BY <1>1, <2>1 DEF SaveOK
  <2>3. Acked' = Acked
    BY <1>1, <2>1, <2>2, AckedSame
  <2> QED
    BY <1>a, <2>1, <2>3
<1>5. CASE WriteLine
  <2>1. ReceiptsIn(file') = ReceiptsIn(file) \cup {cur} /\ cur \in Receipts
    BY <1>1, <1>5, WriteLineAdds
  <2>2. Acked' = Acked /\ cur \notin Acked /\ stage = "write"
    BY <1>1, <1>5, <2>1 DEF WriteLine, SaveOK, Acked
  <2> QED
    BY <1>a, <2>1, <2>2
<1>6. CASE WriteShort
  BY <1>6 DEF WriteShort
<1>7. CASE SyncFile \/ Restart \/ Tick \/ UNCHANGED vars
  <2>1. UNCHANGED <<file, outcome>> /\ (stage' = stage \/ stage = "sync")
    BY <1>7 DEF SyncFile, Restart, Tick, vars, diskVars
  <2> QED
    BY <1>a, <2>1 DEF Acked
<1>8. CASE Publish
  <2>1. Acked' \cap ReceiptsIn(file') = A \cup {cur} /\ cur \notin A /\ cur \in Receipts
    BY <1>1, <1>8, PublishAdds
  <2>2. Cardinality(A \cup {cur}) = Cardinality(A) + 1 /\ Cardinality(A) \in Nat
    BY <1>b, <2>1, SetsOfReceipts, FS_AddElement
  <2>3. MaxEntries > 0 => Cardinality(A) < MaxEntries
    BY <1>1, <1>8 DEF AckedFew, Publish
  <2>4. stage' = "idle"
    BY <1>8 DEF Publish, Return
  <2> HIDE DEF A
  <2> QED
    BY <2>1, <2>2, <2>3, <2>4 DEF AckedFew
<1>9. CASE Crash
  <2>1. ReceiptsIn(file') \subseteq ReceiptsIn(file) /\ stage' = "idle"
    BY <1>1, <1>9, CrashTakes DEF Crash
  <2>2. Acked' = Acked
    BY <1>1, <1>9 DEF Crash, SaveOK, Acked
  <2> QED
    BY <1>a, <2>1, <2>2
<1> QED
  BY <1>2, <1>3, <1>4, <1>5, <1>6, <1>7, <1>8, <1>9 DEF Next, SaveStep

LEMMA MemoryHolds ==
  ASSUME TornWrites = FALSE
  PROVE  Spec => []MemoryInv
<1>1. Init => MemoryInv
  <2> SUFFICES ASSUME Init PROVE MemoryInv
    OBVIOUS
  <2>1. TypeOK
    BY InitTypeOK
  <2>2. ~torn /\ SaveProgress /\ LinesApart /\ CurIsFresh /\ MemoryAgreesWithFile
    BY DEF Init, SaveProgress, LinesApart, CurIsFresh, ReceiptsIn, MemoryAgreesWithFile
  <2>3. ReceiptsIn(file) = {} /\ Cardinality({}) = 0
    BY FS_EmptySet DEF Init, ReceiptsIn
  <2>4. AckedFew
    <3>1. Acked \cap ReceiptsIn(file) = {}
      BY <2>3
    <3> QED
      BY <2>3, <3>1, NumbersAssumption DEF AckedFew
  <2> QED
    BY <2>1, <2>2, <2>4 DEF MemoryInv, FileInv
<1>2. MemoryInv /\ TypeOK' /\ [Next]_vars => MemoryInv'
  BY FileStep, AgreeStep, FewStep DEF MemoryInv
<1> QED
  BY <1>1, <1>2, TypeCorrect, PTL DEF Spec

\* While the store serves, its map, its counter and its file agree: what Get
\* finds is on disk, and every acknowledged receipt of this file can be found.
THEOREM MemoryIsRight ==
  ASSUME TornWrites = FALSE
  PROVE  Spec => []MemoryAgreesWithFile
<1>1. MemoryInv => MemoryAgreesWithFile
  BY DEF MemoryInv
<1> QED
  BY <1>1, MemoryHolds, PTL

\* A file outgrows MaxEntries only by the lines of Saves that were not acknowledged.
THEOREM RotationBoundHolds ==
  ASSUME TornWrites = FALSE
  PROVE  Spec => []RotationBound
<1>1. MemoryInv => RotationBound
  <2> SUFFICES ASSUME MemoryInv, MaxEntries > 0
               PROVE  Len(file) <= MaxEntries
                        + Cardinality({r \in Receipts : outcome[r] \in {"saving", "failed", "lost"}})
    BY DEF RotationBound
  <2> DEFINE A == Acked \cap ReceiptsIn(file)
             U == {r \in Receipts : outcome[r] \in {"saving", "failed", "lost"}}
             R == ReceiptsIn(file)
  <2>1. Cardinality(R) = Len(file) /\ R \in SUBSET Receipts
    BY LinesCounted DEF MemoryInv, FileInv, TypeOK
  <2>2. Cardinality(A) <= MaxEntries
    BY DEF MemoryInv, AckedFew
  <2>3. R \subseteq A \cup U
    BY <2>1 DEF MemoryInv, FileInv, TypeOK, SaveOK, Outcomes, CurIsFresh, Acked
  <2>4. A \in SUBSET Receipts /\ U \in SUBSET Receipts
    BY <2>1
  <2> HIDE DEF A, U, R
  <2>5. IsFiniteSet(A) /\ IsFiniteSet(U) /\ Cardinality(A) \in Nat /\ Cardinality(U) \in Nat
        /\ Cardinality(A \cap U) \in Nat
    BY <2>4, SetsOfReceipts
  <2>6. Cardinality(A \cup U) = Cardinality(A) + Cardinality(U) - Cardinality(A \cap U)
    BY <2>5, FS_Union
  <2>7. Cardinality(R) <= Cardinality(A \cup U) /\ Cardinality(R) \in Nat
    BY <2>3, <2>4, FewerAcked
  <2>8. Cardinality(R) <= MaxEntries + Cardinality(U)
    BY <2>2, <2>5, <2>6, <2>7, NumbersAssumption
  <2> QED
    BY <2>1, <2>8 DEF R, U
<1> QED
  BY <1>1, MemoryHolds, PTL

-----------------------------------------------------------------------------
(* The store implements the ledger: each step of a Save, of a crash and of *)
(* a restart is a step of AuditLedger or leaves it alone.                  *)

Told == [r \in Receipts |-> CASE outcome[r] = "acked"  -> "saved"
                              [] outcome[r] = "failed" -> "failed"
                              [] OTHER -> "nothing"]

\* What a step does to the answers the ledger sees.
LEMMA ToldFacts ==
  ASSUME SaveOK
  PROVE  /\ \A r \in Receipts : Told[r] = "saved" <=> outcome[r] = "acked"
         /\ \A r \in Receipts : Told[r] = "nothing" <=> outcome[r] \notin {"acked", "failed"}
         /\ (UNCHANGED outcome) => Told' = Told
         /\ \A r \in Receipts : BeginSave(r) => Told' = Told
         /\ Crash => Told' = Told
         /\ \A result \in {"acked", "failed"} : stage # "idle" /\ Return(result) =>
              /\ cur \in Receipts /\ Told[cur] = "nothing"
              /\ Told' = [Told EXCEPT ![cur] = IF result = "acked" THEN "saved" ELSE "failed"]
<1>1. /\ \A r \in Receipts : Told[r] = "saved" <=> outcome[r] = "acked"
      /\ \A r \in Receipts : Told[r] = "nothing" <=> outcome[r] \notin {"acked", "failed"}
  BY DEF Told
<1>2. (UNCHANGED outcome) => Told' = Told
  BY DEF Told
<1>3. ASSUME NEW r \in Receipts, BeginSave(r) PROVE Told' = Told
  BY <1>3 DEF BeginSave, SaveOK, Told
<1>4. ASSUME Crash PROVE Told' = Told
  BY <1>4 DEF Crash, SaveOK, Told
<1>5. ASSUME NEW result \in {"acked", "failed"}, stage # "idle", Return(result)
      PROVE  /\ cur \in Receipts /\ Told[cur] = "nothing"
             /\ Told' = [Told EXCEPT ![cur] = IF result = "acked" THEN "saved" ELSE "failed"]
  <2>1. cur \in Receipts /\ outcome[cur] = "saving" /\ outcome \in [Receipts -> Outcomes]
    BY <1>5 DEF SaveOK
  <2>2. outcome' = [outcome EXCEPT ![cur] = result]
    BY <1>5 DEF Return
  <2> QED
    BY <1>1, <1>5, <2>1, <2>2 DEF Told
<1> QED
  BY <1>1, <1>2, <1>3, <1>4, <1>5

\* The receipt being saved is in no archive either.
ArchiveIsOld ==
  /\ \A r \in ArchivedReceipts : outcome[r] # "new"
  /\ stage \in {"rotate", "write"} => cur \notin ArchivedReceipts

LEMMA RotateMoves ==
  ASSUME DiskOK, MemoryOK, Rotate
  PROVE  /\ ReceiptsIn(file') = {} /\ ArchivedReceipts' \subseteq ArchivedReceipts \cup ReceiptsIn(file)
         /\ archives[clock] = <<>> => ArchivedReceipts' = ArchivedReceipts \cup ReceiptsIn(file)
<1>1. file' = <<>> /\ archives' = [archives EXCEPT ![clock] = file] /\ clock \in 0..MaxClock
  BY DEF Rotate, MemoryOK
<1>2. \A s \in 0..MaxClock : archives'[s] = IF s = clock THEN file ELSE archives[s]
  BY <1>1 DEF DiskOK
<1>3. \A s \in 0..MaxClock : ReceiptsIn(archives'[s]) = IF s = clock THEN ReceiptsIn(file) ELSE ReceiptsIn(archives[s])
  BY <1>2
<1>4. ArchivedReceipts' = UNION {ReceiptsIn(archives'[s]) : s \in 0..MaxClock}
  BY DEF ArchivedReceipts
<1>5. archives[clock] = <<>> => ReceiptsIn(archives[clock]) = {}
  BY DEF ReceiptsIn
<1>6. ArchivedReceipts' \subseteq ArchivedReceipts \cup ReceiptsIn(file)
  BY <1>3, <1>4 DEF ArchivedReceipts
<1>7. archives[clock] = <<>> => ArchivedReceipts \cup ReceiptsIn(file) \subseteq ArchivedReceipts'
  BY <1>1, <1>3, <1>4, <1>5 DEF ArchivedReceipts
<1> QED
  BY <1>1, <1>6, <1>7 DEF ReceiptsIn

LEMMA ArchiveStep ==
  ASSUME TornWrites = FALSE, FileInv, ArchiveIsOld, [Next]_vars
  PROVE  ArchiveIsOld'
<1>0. DiskOK /\ SaveOK /\ MemoryOK /\ CurIsFresh /\ ReceiptsIn(file) \subseteq Receipts
      /\ ArchivedReceipts \subseteq Receipts
  <2>1. DiskOK /\ SaveOK /\ MemoryOK /\ CurIsFresh /\ LinesApart
    BY DEF FileInv, TypeOK
  <2>2. \A s \in 0..MaxClock : ReceiptsIn(archives[s]) \subseteq Receipts
    <3> SUFFICES ASSUME NEW s \in 0..MaxClock PROVE ReceiptsIn(archives[s]) \subseteq Receipts
      OBVIOUS
    <3>1. archives[s] \in Seq(Lines)
      BY <2>1 DEF DiskOK
    <3>2. \A i \in 1..Len(archives[s]) : archives[s][i] \in Lines
      BY <3>1
    <3>3. \A i \in 1..Len(archives[s]) : archives[s][i].id \in Receipts \cup {NoReceipt}
      BY <3>2 DEF Lines
    <3> QED
      BY <3>3 DEF ReceiptsIn
  <2> QED
    BY <2>1, <2>2, LinesCounted DEF ArchivedReceipts
<1>a. ASSUME UNCHANGED archives, \A r \in Receipts : outcome[r] # "new" => outcome'[r] # "new",
             stage' \in {"rotate", "write"} => (stage \in {"rotate", "write"} /\ cur' = cur)
      PROVE  ArchiveIsOld'
  <2>1. ArchivedReceipts' = ArchivedReceipts
    BY <1>a DEF ArchivedReceipts
  <2> QED
    BY <1>0, <1>a, <2>1 DEF ArchiveIsOld
<1>1. ASSUME NEW r \in Receipts, BeginSave(r) PROVE ArchiveIsOld'
  <2>1. archives' = archives /\ outcome[r] = "new" /\ cur' = r
    BY <1>1 DEF BeginSave, diskVars
  <2>2. ArchivedReceipts' = ArchivedReceipts
    BY <2>1 DEF ArchivedReceipts
  <2>3. \A q \in Receipts : outcome[q] # "new" => outcome'[q] # "new"
    BY <1>0, <1>1 DEF BeginSave, SaveOK
  <2> QED
    BY <1>0, <2>1, <2>2, <2>3 DEF ArchiveIsOld
<1>2. CASE Rotate
  <2>1. outcome' = outcome /\ cur' = cur /\ stage = "rotate"
    BY <1>2 DEF Rotate
  <2> QED
    BY <1>0, <1>2, <2>1, RotateMoves DEF ArchiveIsOld, CurIsFresh
<1>3. CASE RotateFails \/ WriteFails \/ SyncFails \/ Publish
  <2>1. archives' = archives /\ stage' = "idle" /\ stage # "idle"
        /\ \E result \in {"acked", "failed"} : outcome' = [outcome EXCEPT ![cur] = result]
    BY <1>3 DEF RotateFails, WriteFails, SyncFails, Publish, Return, diskVars
  <2>2. \A q \in Receipts : outcome[q] # "new" => outcome'[q] # "new"
    BY <1>0, <2>1 DEF SaveOK
  <2> QED
    BY <1>a, <2>1, <2>2
<1>4. CASE WriteLine \/ SyncFile \/ Restart \/ Tick \/ UNCHANGED vars
  BY <1>4, <1>a DEF WriteLine, SyncFile, Restart, Tick, vars, diskVars
<1>5. CASE WriteShort
  BY <1>5 DEF WriteShort
<1>6. CASE Crash
  BY <1>6, <1>a DEF Crash
<1> QED
  BY <1>1, <1>2, <1>3, <1>4, <1>5, <1>6 DEF Next, SaveStep

LEMMA LedgerStep ==
  ASSUME TornWrites = FALSE, MaxEntries > 0 => RotationsApart,
         AuditInv, AuditInv', FileInv, FileInv', ArchiveIsOld, [Next]_vars
  PROVE  Ledger!Next \/ UNCHANGED <<Recoverable, receipts, Told>>
<1>0. DiskOK /\ SaveOK /\ MemoryOK /\ MemoryOK' /\ ~torn /\ SaveProgress /\ AckedKept' /\ CurIsFresh
      /\ ReceiptsIn(file) \subseteq Receipts
  BY LinesCounted DEF AuditInv, TypeOK, FileInv
<1>a. ASSUME UNCHANGED <<file, archives>> PROVE Recoverable' = Recoverable
  BY <1>a DEF Recoverable, ArchivedReceipts
<1>1. ASSUME NEW r \in Receipts, BeginSave(r) PROVE UNCHANGED <<Recoverable, receipts, Told>>
  BY <1>0, <1>1, <1>a, ToldFacts DEF BeginSave, diskVars, memVars
<1>2. CASE Rotate
  <2>1. archives[clock] = <<>>
    BY <1>0, <1>2 DEF Rotate, SaveProgress
  <2>2. Recoverable' = Recoverable
    BY <1>0, <1>2, <2>1, RotateMoves DEF Recoverable
  <2>3. receipts' = {} /\ Told' = Told
    BY <1>0, <1>2, ToldFacts DEF Rotate
  <2>4. Ledger!Archive
    BY <2>2, <2>3 DEF Ledger!Archive, Told
  <2> QED
    BY <2>4 DEF Ledger!Next
<1>3. CASE RotateFails \/ WriteFails \/ SyncFails
  <2>1. UNCHANGED <<receipts, file, archives>> /\ stage # "idle" /\ Return("failed")
    BY <1>3 DEF RotateFails, WriteFails, SyncFails, diskVars, memVars
  <2>2. cur \in Receipts /\ Told[cur] = "nothing" /\ Told' = [Told EXCEPT ![cur] = "failed"]
    BY <1>0, <2>1, ToldFacts
  <2>3. PICK r \in Receipts : r = cur
    BY <2>2
  <2>4. Ledger!Refuse(r)
    BY <1>a, <2>1, <2>2, <2>3 DEF Ledger!Refuse, Told
  <2> QED
    BY <2>4 DEF Ledger!Next
<1>4. CASE WriteLine
  <2>1. ReceiptsIn(file') = ReceiptsIn(file) \cup {cur} /\ cur \in Receipts /\ cur \notin ReceiptsIn(file)
    BY <1>4, WriteLineAdds
  <2>2. UNCHANGED <<receipts, archives, outcome>> /\ stage = "write"
    BY <1>4 DEF WriteLine, memVars
  <2>3. ArchivedReceipts' = ArchivedReceipts /\ cur \notin ArchivedReceipts
    BY <2>2 DEF ArchivedReceipts, ArchiveIsOld
  <2>4. Recoverable' = Recoverable \cup {cur} /\ cur \notin Recoverable
    BY <2>1, <2>3 DEF Recoverable
  <2>5. Told' = Told /\ Told[cur] = "nothing"
    BY <1>0, <2>1, <2>2, ToldFacts DEF SaveOK
  <2>6. PICK r \in Receipts : r = cur
    BY <2>1
  <2>7. Ledger!Record(r)
    BY <2>2, <2>4, <2>5, <2>6 DEF Ledger!Record, Told
  <2> QED
    BY <2>7 DEF Ledger!Next
<1>5. CASE WriteShort
  BY <1>5 DEF WriteShort
<1>6. CASE SyncFile \/ Tick \/ UNCHANGED vars
  BY <1>0, <1>6, <1>a, ToldFacts DEF SyncFile, Tick, vars, memVars, diskVars
<1>7. CASE Publish
  <2>1. receipts' = receipts \cup {cur} /\ UNCHANGED <<file, archives>> /\ stage # "idle" /\ Return("acked")
    BY <1>7 DEF Publish, diskVars
  <2>2. cur \in Receipts /\ Told[cur] = "nothing" /\ Told' = [Told EXCEPT ![cur] = "saved"]
    BY <1>0, <2>1, ToldFacts
  <2>3. cur \in Recoverable
    BY <1>0, <1>7, <2>2, ReceiptsAssumption DEF Publish, SaveProgress, ReceiptsIn, DiskOK, Recoverable
  <2>4. PICK r \in Receipts : r = cur
    BY <2>2
  <2>5. Ledger!Confirm(r)
    BY <1>a, <2>1, <2>2, <2>3, <2>4 DEF Ledger!Confirm, Told
  <2> QED
    BY <2>5 DEF Ledger!Next
<1>8. CASE Crash
  <2>1. receipts' = {} /\ Told' = Told /\ archives' = archives
    BY <1>0, <1>8, ToldFacts DEF Crash
  <2>2. ReceiptsIn(file') \subseteq ReceiptsIn(file)
    BY <1>8, CrashTakes
  <2>3. Recoverable' \subseteq Recoverable
    BY <2>1, <2>2 DEF Recoverable, ArchivedReceipts
  <2>4. Acked' = Acked /\ Acked = {r \in Receipts : Told[r] = "saved"}
    BY <1>0, <1>8, ToldFacts, AckedSame DEF Acked, Crash, SaveOK
  <2>5. DurableReceipts' \subseteq ReceiptsIn(file')
    <3>1. DiskOK'
      BY DEF AuditInv, TypeOK
    <3> QED
      BY <3>1 DEF DurableReceipts, ReceiptsIn, DiskOK
  <2>6. Acked \subseteq Recoverable'
    BY <1>0, <2>4, <2>5 DEF AckedKept, Recoverable
  <2>7. Ledger!Stop
    BY <2>1, <2>3, <2>4, <2>6 DEF Ledger!Stop, Ledger!Saved, Told
  <2> QED
    BY <2>7 DEF Ledger!Next
<1>9. CASE Restart
  <2>1. UNCHANGED <<file, archives, outcome>> /\ (receipts' = receipts \/ receipts' = ReceiptsIn(file))
    BY <1>9 DEF Restart, memVars, diskVars
  <2>2. Told' = Told /\ Recoverable' = Recoverable
    BY <1>0, <1>a, <2>1, ToldFacts
  <2>3. CASE receipts' = ReceiptsIn(file)
    <3>1. Ledger!Start
      BY <2>2, <2>3 DEF Ledger!Start, Recoverable, Told
    <3> QED
      BY <3>1 DEF Ledger!Next
  <2> QED
    BY <2>1, <2>2, <2>3
<1> QED
  BY <1>1, <1>2, <1>3, <1>4, <1>5, <1>6, <1>7, <1>8, <1>9 DEF Next, SaveStep

\* The store keeps the promises of AuditLedger: what is saved stays recorded,
\* what a reader finds is recorded, and only the unconfirmed is forgotten.
THEOREM StoreImplementsLedger ==
  ASSUME TornWrites = FALSE, MaxEntries > 0 => RotationsApart
  PROVE  Spec => ImplementsLedger
<1>1. Init => Ledger!Init
  <2> SUFFICES ASSUME Init PROVE Ledger!Init
    OBVIOUS
  <2>1. Recoverable = {} /\ receipts = {}
    BY DEF Init, Recoverable, ArchivedReceipts, ReceiptsIn
  <2>2. Told = [r \in Receipts |-> "nothing"]
    BY DEF Init, Told
  <2> QED
    BY <2>1, <2>2 DEF Ledger!Init, Told
<1>2. Spec => []ArchiveIsOld
  <2>1. Init => ArchiveIsOld
    BY DEF Init, ArchiveIsOld, ArchivedReceipts, ReceiptsIn
  <2>2. MemoryInv /\ ArchiveIsOld /\ [Next]_vars => ArchiveIsOld'
    BY ArchiveStep DEF MemoryInv
  <2> QED
    BY <2>1, <2>2, MemoryHolds, PTL DEF Spec
<1>3. AuditInv /\ AuditInv' /\ MemoryInv /\ MemoryInv' /\ ArchiveIsOld /\ [Next]_vars
      => [Ledger!Next]_(Ledger!ledger)
  <2>1. AuditInv /\ AuditInv' /\ MemoryInv /\ MemoryInv' /\ ArchiveIsOld /\ [Next]_vars
        => Ledger!Next \/ UNCHANGED <<Recoverable, receipts, Told>>
    BY LedgerStep DEF MemoryInv
  <2>2. UNCHANGED <<Recoverable, receipts, Told>> => UNCHANGED Ledger!ledger
    BY DEF Ledger!ledger, Told
  <2> QED
    BY <2>1, <2>2
<1> QED
  BY <1>1, <1>2, <1>3, AuditHolds, MemoryHolds, PTL DEF Spec, ImplementsLedger, Ledger!Spec
-----------------------------------------------------------------------------
(* What is acknowledged can be lost by a reused archive name only, torn    *)
(* writes included: a torn tail is never fsynced, and an acknowledged      *)
(* receipt always is.                                                      *)

AckedAreSynced ==
  /\ torn => durable < Len(file)
  /\ stage \in {"sync", "publish"} => ~torn
  /\ stage = "publish" => durable = Len(file)
  /\ \A i \in 1..Len(file) : file[i].id \in Acked => i <= durable

\* Which lines Appended keeps, and what the others become.
LEMMA AppendedKeeps ==
  ASSUME NEW f \in Seq(Lines), NEW t \in BOOLEAN, NEW new \in Lines, t => f # <<>>,
         NEW g \in Appended(f, t, new)
  PROVE  /\ Len(g) \in Nat /\ Len(f) \in Nat
         /\ \A i \in 1..Len(f) : ~t \/ i < Len(f) => g[i] = f[i]
         /\ t => Len(g) = Len(f) /\ g[Len(f)].id = NoReceipt
         /\ ~t => Len(g) = Len(f) + 1 /\ g[Len(f) + 1] = new
<1>1. CASE t
  <2>1. Len(f) \in 1..Len(f)
    BY <1>1
  <2>2. PICK l : g = [f EXCEPT ![Len(f)] = [id |-> NoReceipt, long |-> l]]
    BY <1>1 DEF Appended
  <2> QED
    BY <1>1, <2>1, <2>2
<1>2. CASE ~t
  BY <1>2 DEF Appended
<1> QED
  BY <1>1, <1>2

\* A write, whole or short, after which the receipt is not acknowledged yet.
LEMMA WriteKeepsSynced ==
  ASSUME TypeOK, AckedAreSynced, NEW part \in Lines, part.id \notin Acked,
         file' \in Appended(file, torn, part), durable' = DurableBefore, Acked' = Acked
  PROVE  /\ durable' = durable /\ durable < Len(file')
         /\ \A i \in 1..durable : file'[i] = file[i]
         /\ \A i \in 1..Len(file') : file'[i].id \in Acked => i <= durable
<1>1. file \in Seq(Lines) /\ torn \in BOOLEAN /\ (torn => file # <<>>) /\ durable \in 0..Len(file)
  BY DEF TypeOK, DiskOK
<1>2. durable' = durable
  BY <1>1 DEF DurableBefore, AckedAreSynced
<1>3. CASE torn
  <2>a. /\ torn => Len(file') = Len(file) /\ file'[Len(file)].id = NoReceipt
        /\ \A i \in 1..Len(file) : ~torn \/ i < Len(file) => file'[i] = file[i]
    BY <1>1, AppendedKeeps
  <2>1. /\ Len(file') = Len(file) /\ file'[Len(file)].id = NoReceipt /\ durable < Len(file)
        /\ \A i \in 1..Len(file) : i < Len(file) => file'[i] = file[i]
    BY <1>3, <2>a DEF AckedAreSynced
  <2>2. NoReceipt \notin Acked
    BY ReceiptsAssumption DEF Acked
  <2>3. \A i \in 1..Len(file') : i = Len(file) \/ i < Len(file)
    BY <1>1, <2>1
  <2> QED
    BY <1>1, <1>2, <2>1, <2>2, <2>3 DEF AckedAreSynced
<1>4. CASE ~torn
  <2>1. /\ Len(file') = Len(file) + 1 /\ file'[Len(file) + 1] = part
        /\ \A i \in 1..Len(file) : file'[i] = file[i]
    BY <1>1, <1>4, AppendedKeeps
  <2>3. \A i \in 1..Len(file') : i = Len(file) + 1 \/ i \in 1..Len(file)
    BY <1>1, <2>1
  <2> QED
    BY <1>1, <1>2, <2>1, <2>3 DEF AckedAreSynced
<1> QED
  BY <1>3, <1>4

LEMMA CrashKeepsSynced ==
  ASSUME TypeOK, AckedAreSynced, Crash
  PROVE  /\ durable' = durable /\ durable <= Len(file') /\ (torn' => durable < Len(file'))
         /\ \A i \in 1..durable : file'[i] = file[i]
         /\ \A i \in 1..Len(file') : file'[i].id \in Acked => i <= durable
<1>1. file \in Seq(Lines) /\ torn \in BOOLEAN /\ durable \in 0..Len(file) /\ durable' = durable
  BY DEF TypeOK, DiskOK, Crash
<1>2. PICK n \in durable..Len(file) :
        \/ file' = SubSeq(file, 1, n) /\ torn' = (torn /\ n = Len(file))
        \/ /\ TornWrites /\ n < Len(file) /\ torn' = TRUE
           /\ \E part \in Pieces(file[n + 1]) : file' = Append(SubSeq(file, 1, n), part)
  BY DEF Crash, CrashImage
<1>3. n \in 0..Len(file) /\ durable <= n
  BY <1>1
<1>4. /\ SubSeq(file, 1, n) \in Seq(Lines) /\ Len(SubSeq(file, 1, n)) = n
      /\ \A i \in 1..n : SubSeq(file, 1, n)[i] = file[i]
  BY <1>1, <1>3
<1>5. CASE file' = SubSeq(file, 1, n) /\ torn' = (torn /\ n = Len(file))
  <2>1. Len(file') = n /\ \A i \in 1..n : file'[i] = file[i]
    BY <1>4, <1>5
  <2>2. torn' => durable < n
    BY <1>1, <1>3, <1>5 DEF AckedAreSynced
  <2>3. \A i \in 1..n : file[i].id \in Acked => i <= durable
    BY <1>1, <1>3 DEF AckedAreSynced
  <2> QED
    BY <1>1, <1>3, <2>1, <2>2, <2>3
<1>6. CASE n < Len(file) /\ \E part \in Pieces(file[n + 1]) : file' = Append(SubSeq(file, 1, n), part)
  <2>1. PICK part \in Pieces(file[n + 1]) : file' = Append(SubSeq(file, 1, n), part)
    BY <1>6
  <2>2. n + 1 \in 1..Len(file) /\ file[n + 1] \in Lines
    BY <1>1, <1>3, <1>6
  <2>3. part \in Lines /\ part.id \in {NoReceipt, file[n + 1].id}
    BY <2>1, <2>2 DEF Pieces
  <2>4. file[n + 1].id \notin Acked /\ NoReceipt \notin Acked
    BY <1>1, <1>3, <2>2, ReceiptsAssumption DEF AckedAreSynced, Acked
  <2>5. /\ Len(file') = n + 1 /\ file'[n + 1] = part
        /\ \A i \in 1..n : file'[i] = file[i]
    BY <1>3, <1>4, <2>1, <2>3
  <2>6. \A i \in 1..Len(file') : i = n + 1 \/ i \in 1..n
    BY <1>3, <2>5
  <2>7. \A i \in 1..n : file[i].id \in Acked => i <= durable
    BY <1>1, <1>3 DEF AckedAreSynced
  <2> QED
    BY <1>1, <1>3, <2>3, <2>4, <2>5, <2>6, <2>7
<1> QED
  BY <1>2, <1>5, <1>6

\* The line a Save writes is of a receipt that is not acknowledged.
LEMMA PartsAreNew ==
  ASSUME TypeOK, stage # "idle", NEW part \in Pieces(FullLine(cur))
  PROVE  part \in Lines /\ part.id \notin Acked /\ FullLine(cur) \in Lines /\ FullLine(cur).id \notin Acked
<1>1. cur \in Receipts /\ outcome[cur] = "saving"
  BY DEF TypeOK, SaveOK
<1>2. FullLine(cur) \in Lines /\ FullLine(cur).id = cur
  BY <1>1 DEF FullLine, IsLong, Lines
<1>3. part \in Lines /\ part.id \in {NoReceipt, cur}
  BY <1>2 DEF Pieces
<1> QED
  BY <1>1, <1>2, <1>3, ReceiptsAssumption DEF Acked

\* Lines that stay as they are up to the fsynced part keep what is acknowledged.
LEMMA SyncedStay ==
  ASSUME TypeOK, TypeOK', AckedAreSynced, UNCHANGED archives, durable <= Len(file'),
         \A i \in 1..durable : file'[i] = file[i]
  PROVE  Acked \cap Recoverable \subseteq Recoverable'
<1>1. durable \in Nat /\ Len(file') \in Nat /\ Len(file) \in Nat
  BY DEF TypeOK, DiskOK
<1>2. Acked \cap ReceiptsIn(file) \subseteq ReceiptsIn(file')
  BY <1>1 DEF ReceiptsIn, AckedAreSynced
<1>3. ArchivedReceipts' = ArchivedReceipts
  BY DEF ArchivedReceipts
<1> QED
  BY <1>2, <1>3 DEF Recoverable

LEMMA SyncedStep ==
  ASSUME TypeOK, TypeOK', AckedAreSynced, [Next]_vars
  PROVE  /\ AckedAreSynced'
         /\ \/ stage = "rotate" /\ archives[clock] # <<>>
            \/ Acked \cap Recoverable \subseteq Recoverable'
<1> DEFINE Kept == \/ stage = "rotate" /\ archives[clock] # <<>>
                   \/ Acked \cap Recoverable \subseteq Recoverable'
<1> HIDE DEF Kept
<1>0. DiskOK /\ SaveOK /\ MemoryOK /\ durable \in Nat /\ Len(file) \in Nat /\ durable <= Len(file)
  BY DEF TypeOK, DiskOK
<1>a. ASSUME UNCHANGED <<file, torn, archives>>, durable' = durable, Acked' = Acked,
             stage' # "idle" => stage' = stage \/ (stage' \in {"rotate", "write"})
      PROVE  AckedAreSynced' /\ Kept
  <2>1. AckedAreSynced'
    BY <1>a DEF AckedAreSynced
  <2> QED
    BY <1>0, <1>a, <2>1, SyncedStay DEF Kept
<1>1. ASSUME NEW r \in Receipts, BeginSave(r) PROVE AckedAreSynced' /\ Kept
  BY <1>0, <1>1, <1>a, AckedSame DEF BeginSave, diskVars
<1>2. CASE Rotate
  <2>1. Acked' = Acked /\ file' = <<>> /\ torn' = FALSE /\ stage' = "write" /\ stage = "rotate"
    BY <1>2 DEF Rotate, Acked
  <2>2. AckedAreSynced'
    BY <2>1 DEF AckedAreSynced
  <2>3. archives[clock] = <<>> => Recoverable \subseteq Recoverable'
    BY <1>0, <1>2, RotateMoves DEF Recoverable
  <2> QED
    BY <2>1, <2>2, <2>3 DEF Kept
<1>3. CASE RotateFails \/ WriteFails \/ SyncFails
  <2>1. Return("failed") /\ stage # "idle" /\ UNCHANGED diskVars /\ stage' = "idle"
    BY <1>3 DEF RotateFails, WriteFails, SyncFails, Return
  <2>2. Acked' = Acked
    BY <1>0, <2>1, AckedSame DEF SaveOK
  <2> QED
    BY <1>a, <2>1, <2>2 DEF diskVars, Kept
<1>4. CASE WriteLine
  <2>1. stage = "write" /\ stage' = "sync" /\ torn' = FALSE /\ archives' = archives
        /\ file' \in Appended(file, torn, FullLine(cur)) /\ durable' = DurableBefore
    BY <1>4 DEF WriteLine
  <2>2. Acked' = Acked
    BY <1>4 DEF WriteLine, Acked
  <2>3. FullLine(cur) \in Lines /\ FullLine(cur).id \notin Acked
    BY <2>1, PartsAreNew DEF Pieces
  <2>4. /\ durable' = durable /\ durable < Len(file')
        /\ \A i \in 1..durable : file'[i] = file[i]
        /\ \A i \in 1..Len(file') : file'[i].id \in Acked => i <= durable
    BY <2>1, <2>2, <2>3, WriteKeepsSynced
  <2>5. AckedAreSynced'
    BY <2>1, <2>2, <2>4 DEF AckedAreSynced
  <2>6. Len(file') \in Nat
    BY DEF TypeOK, DiskOK
  <2> QED
    BY <1>0, <2>1, <2>4, <2>5, <2>6, SyncedStay DEF Kept
<1>5. CASE WriteShort
  <2>1. PICK part \in Pieces(FullLine(cur)) : file' \in Appended(file, torn, part)
    BY <1>5 DEF WriteShort
  <2>2. stage = "write" /\ stage' = "idle" /\ archives' = archives /\ durable' = DurableBefore /\ Return("failed")
    BY <1>5 DEF WriteShort, Return
  <2>3. Acked' = Acked
    BY <1>0, <2>2, AckedSame DEF SaveOK
  <2>4. part \in Lines /\ part.id \notin Acked
    BY <2>2, PartsAreNew
  <2>5. /\ durable' = durable /\ durable < Len(file')
        /\ \A i \in 1..durable : file'[i] = file[i]
        /\ \A i \in 1..Len(file') : file'[i].id \in Acked => i <= durable
    BY <2>1, <2>2, <2>3, <2>4, WriteKeepsSynced
  <2>6. AckedAreSynced'
    BY <2>2, <2>3, <2>5 DEF AckedAreSynced
  <2>7. Len(file') \in Nat
    BY DEF TypeOK, DiskOK
  <2> QED
    BY <1>0, <2>2, <2>5, <2>6, <2>7, SyncedStay DEF Kept
<1>6. CASE SyncFile
  <2>1. UNCHANGED <<file, torn, archives, outcome>> /\ durable' = Len(file) /\ stage = "sync" /\ stage' = "publish"
    BY <1>6 DEF SyncFile
  <2>2. AckedAreSynced'
    BY <1>0, <2>1 DEF AckedAreSynced, Acked
  <2> QED
    BY <1>0, <2>1, <2>2, SyncedStay DEF Kept
<1>7. CASE Publish
  <2>1. UNCHANGED diskVars /\ stage = "publish" /\ stage' = "idle"
    BY <1>7 DEF Publish, Return
  <2>2. AckedAreSynced'
    BY <1>0, <2>1 DEF AckedAreSynced, diskVars
  <2> QED
    BY <1>0, <2>1, <2>2, SyncedStay DEF Kept, diskVars
<1>8. CASE Crash
  <2>1. Acked' = Acked /\ stage' = "idle" /\ archives' = archives
    BY <1>0, <1>8 DEF Crash, Acked, SaveOK
  <2>2. /\ durable' = durable /\ durable <= Len(file') /\ (torn' => durable < Len(file'))
        /\ \A i \in 1..durable : file'[i] = file[i]
        /\ \A i \in 1..Len(file') : file'[i].id \in Acked => i <= durable
    BY <1>8, CrashKeepsSynced
  <2>3. AckedAreSynced'
    BY <2>1, <2>2 DEF AckedAreSynced
  <2> QED
    BY <1>0, <2>1, <2>2, <2>3, SyncedStay DEF Kept
<1>9. CASE Restart \/ Tick \/ UNCHANGED vars
  BY <1>9, <1>a DEF Restart, Tick, vars, diskVars, Acked, Kept
<1> QED
  BY <1>1, <1>2, <1>3, <1>4, <1>5, <1>6, <1>7, <1>8, <1>9 DEF Next, SaveStep, Kept

\* Whatever tears, fails or stops, what was acknowledged can be recovered until
\* a rotation takes the name of an archive that exists.
THEOREM LostByReusedNameOnly == Spec => LostOnlyByReusedName
<1>1. Init => AckedAreSynced
  BY DEF Init, AckedAreSynced
<1>2. TypeOK /\ TypeOK' /\ AckedAreSynced /\ [Next]_vars => AckedAreSynced'
  BY SyncedStep
<1>3. TypeOK /\ TypeOK' /\ AckedAreSynced /\ [Next]_vars =>
        [(stage = "rotate" /\ archives[clock] # <<>>)
          \/ Acked \cap Recoverable \subseteq Recoverable']_vars
  BY SyncedStep
<1> QED
  BY <1>1, <1>2, <1>3, TypeCorrect, PTL DEF Spec, LostOnlyByReusedName

-----------------------------------------------------------------------------
(* What keeps the service from starting.  A torn, undecodable or joined    *)
(* line comes from a Save that failed or was cut off.                      *)

CauseKnown ==
  /\ torn => SaveFailed
  /\ \A i \in 1..Len(file) : file[i].id = NoReceipt => SaveFailed
  /\ \A i \in 1..Len(file) : file[i].id # NoReceipt => outcome[file[i].id] # "new"
  /\ \A i \in 1..Len(file) : file[i].long => SaveFailed \/ LongBegun
  /\ RefusalHasACause

\* What was told stays told.
LEMMA OutcomesStay ==
  ASSUME SaveOK, [Next]_vars
  PROVE  /\ \A r \in Receipts : outcome[r] # "new" => outcome'[r] # "new"
         /\ \A r \in Receipts : outcome[r] \in {"failed", "lost"} => outcome'[r] \in {"failed", "lost"}
         /\ SaveFailed => SaveFailed'
         /\ LongBegun => LongBegun'
<1>1. \/ UNCHANGED outcome
      \/ \E r \in Receipts : outcome[r] = "new" /\ outcome' = [outcome EXCEPT ![r] = "saving"]
      \/ stage # "idle" /\ \E result \in {"acked", "failed"} : outcome' = [outcome EXCEPT ![cur] = result]
      \/ outcome' = [r \in Receipts |-> IF outcome[r] = "saving" THEN "lost" ELSE outcome[r]]
  BY DEF Next, SaveStep, BeginSave, Rotate, RotateFails, WriteLine, WriteFails, WriteShort, SyncFile,
         SyncFails, Publish, Return, Crash, Restart, Tick, vars
<1>2. /\ \A r \in Receipts : outcome[r] # "new" => outcome'[r] # "new"
      /\ \A r \in Receipts : outcome[r] \in {"failed", "lost"} => outcome'[r] \in {"failed", "lost"}
  BY <1>1 DEF SaveOK, Outcomes
<1>3. SaveFailed => SaveFailed'
  BY <1>2 DEF SaveFailed
<1>4. LongBegun => LongBegun'
  BY <1>2, ReceiptsAssumption DEF LongBegun
<1> QED
  BY <1>2, <1>3, <1>4

\* A Save that fails is a cause.
LEMMA FailureIsACause ==
  ASSUME SaveOK, stage # "idle", Return("failed")
  PROVE  SaveFailed'
<1>1. cur \in Receipts /\ outcome' = [outcome EXCEPT ![cur] = "failed"]
  BY DEF SaveOK, Return
<1> QED
  BY <1>1 DEF SaveOK, SaveFailed

\* What a write of the receipt being saved leaves in the file.
LEMMA WriteHasACause ==
  ASSUME TypeOK, CauseKnown, stage = "write", NEW part \in Pieces(FullLine(cur)),
         file' \in Appended(file, torn, part)
  PROVE  /\ \A i \in 1..Len(file') : file'[i].id = NoReceipt => SaveFailed \/ part.id = NoReceipt
         /\ \A i \in 1..Len(file') : file'[i].id # NoReceipt => outcome[file'[i].id] # "new"
         /\ \A i \in 1..Len(file') : file'[i].long => SaveFailed \/ LongBegun
<1>1. /\ file \in Seq(Lines) /\ torn \in BOOLEAN /\ (torn => file # <<>>)
      /\ cur \in Receipts /\ outcome[cur] = "saving"
  BY DEF TypeOK, DiskOK, SaveOK
<1>a. FullLine(cur) \in Lines /\ FullLine(cur).id = cur /\ FullLine(cur).long = (cur \in LongReceipts)
  BY <1>1 DEF FullLine, IsLong, Lines
<1>2. part \in Lines /\ part.id \in {NoReceipt, cur} /\ (part.long => cur \in LongReceipts)
  BY <1>a DEF Pieces
<1>3. part.long => LongBegun
  BY <1>1, <1>2 DEF LongBegun
<1>4. CASE torn
  <2>1. SaveFailed
    BY <1>4 DEF CauseKnown
  <2>a. /\ torn => Len(file') = Len(file) /\ file'[Len(file)].id = NoReceipt
        /\ \A i \in 1..Len(file) : ~torn \/ i < Len(file) => file'[i] = file[i]
    BY <1>1, <1>2, AppendedKeeps
  <2>2. /\ Len(file') = Len(file) /\ Len(file) \in Nat /\ file'[Len(file)].id = NoReceipt
        /\ \A i \in 1..Len(file) : i < Len(file) => file'[i] = file[i]
    BY <1>1, <1>4, <2>a
  <2>3. \A i \in 1..Len(file') : i = Len(file) \/ (i \in 1..Len(file) /\ i < Len(file))
    BY <2>2
  <2>4. \A i \in 1..Len(file') : file'[i].id # NoReceipt => outcome[file'[i].id] # "new"
    BY <2>2, <2>3 DEF CauseKnown
  <2> QED
    BY <2>1, <2>4
<1>5. CASE ~torn
  <2>1. /\ Len(file') = Len(file) + 1 /\ Len(file) \in Nat /\ file'[Len(file) + 1] = part
        /\ \A i \in 1..Len(file) : file'[i] = file[i]
    BY <1>1, <1>2, <1>5, AppendedKeeps
  <2>2. \A i \in 1..Len(file') : i = Len(file) + 1 \/ i \in 1..Len(file)
    BY <2>1
  <2> QED
    BY <1>1, <1>2, <1>3, <2>1, <2>2 DEF CauseKnown
<1> QED
  BY <1>4, <1>5

\* What a crash leaves in the file: lines that were there, or a piece of one
\* that no acknowledged Save has written.
LEMMA CrashHasACause ==
  ASSUME TypeOK, AckedAreSynced, CauseKnown, Crash
  PROVE  CauseKnown'
<1>1. file \in Seq(Lines) /\ torn \in BOOLEAN /\ durable \in 0..Len(file) /\ SaveOK
  BY DEF TypeOK, DiskOK
<1>2. /\ outcome' = [r \in Receipts |-> IF outcome[r] = "saving" THEN "lost" ELSE outcome[r]]
      /\ status' = "down"
  BY DEF Crash
<1>3. /\ SaveFailed => SaveFailed'
      /\ LongBegun => LongBegun'
      /\ \A r \in Receipts : outcome[r] # "new" => outcome'[r] # "new"
  BY <1>1, OutcomesStay DEF Next
<1>4. PICK n \in durable..Len(file) :
        \/ file' = SubSeq(file, 1, n) /\ torn' = (torn /\ n = Len(file))
        \/ /\ TornWrites /\ n < Len(file) /\ torn' = TRUE
           /\ \E part \in Pieces(file[n + 1]) : file' = Append(SubSeq(file, 1, n), part)
  BY DEF Crash, CrashImage
<1>5. n \in 0..Len(file) /\ durable <= n
  BY <1>1
<1>6. /\ SubSeq(file, 1, n) \in Seq(Lines) /\ Len(SubSeq(file, 1, n)) = n
      /\ \A i \in 1..n : SubSeq(file, 1, n)[i] = file[i] /\ i \in 1..Len(file)
  BY <1>1, <1>5
<1>a. \A i \in 1..Len(file) : file[i].id \in Receipts \cup {NoReceipt}
  <2>1. \A i \in 1..Len(file) : file[i] \in Lines
    BY <1>1
  <2>2. \A line \in Lines : line.id \in Receipts \cup {NoReceipt}
    BY DEF Lines
  <2> QED
    BY <2>1, <2>2
<1>b. \A i \in 1..n : /\ file[i].id = NoReceipt => SaveFailed'
                      /\ file[i].id # NoReceipt => outcome'[file[i].id] # "new"
                      /\ file[i].long => SaveFailed' \/ LongBegun'
  BY <1>3, <1>6, <1>a DEF CauseKnown
<1>7. RefusalHasACause'
  BY <1>2 DEF RefusalHasACause
<1>8. CASE file' = SubSeq(file, 1, n) /\ torn' = (torn /\ n = Len(file))
  <2>1. Len(file') = n /\ \A i \in 1..n : file'[i] = file[i]
    BY <1>6, <1>8
  <2>2. torn' => SaveFailed'
    BY <1>3, <1>8 DEF CauseKnown
  <2> QED
    BY <1>b, <1>7, <2>1, <2>2 DEF CauseKnown
<1>9. CASE /\ n < Len(file) /\ torn' = TRUE
           /\ \E part \in Pieces(file[n + 1]) : file' = Append(SubSeq(file, 1, n), part)
  <2>1. PICK part \in Pieces(file[n + 1]) : file' = Append(SubSeq(file, 1, n), part)
    BY <1>9
  <2>2. n + 1 \in 1..Len(file) /\ file[n + 1] \in Lines /\ n + 1 > durable
    BY <1>1, <1>5, <1>9
  <2>3. part \in Lines /\ part.id \in {NoReceipt, file[n + 1].id} /\ (part.long => file[n + 1].long)
    BY <2>1, <2>2 DEF Pieces
  <2>4. SaveFailed'
    <3>1. CASE file[n + 1].id = NoReceipt
      BY <1>3, <2>2, <3>1 DEF CauseKnown
    <3>2. CASE file[n + 1].id # NoReceipt
      <4>1. file[n + 1].id \in Receipts
        BY <1>a, <2>2, <3>2
      <4>2. file[n + 1].id \notin Acked
        BY <1>1, <2>2 DEF AckedAreSynced
      <4>3. outcome[file[n + 1].id] \in {"saving", "failed", "lost"}
        BY <1>1, <2>2, <3>2, <4>1, <4>2 DEF CauseKnown, Acked, SaveOK, Outcomes
      <4>4. outcome'[file[n + 1].id] \in {"failed", "lost"}
        BY <1>2, <4>1, <4>3
      <4> QED
        BY <4>1, <4>4 DEF SaveFailed
    <3> QED
      BY <3>1, <3>2
  <2>5. /\ Len(file') = n + 1 /\ file'[n + 1] = part
        /\ \A i \in 1..n : file'[i] = file[i]
    BY <1>6, <2>1, <2>3
  <2>6. \A i \in 1..Len(file') : i = n + 1 \/ i \in 1..n
    BY <1>5, <2>5
  <2>7. part.id # NoReceipt => outcome'[part.id] # "new"
    BY <1>3, <1>a, <2>2, <2>3 DEF CauseKnown
  <2> QED
    BY <1>b, <1>7, <2>4, <2>5, <2>6, <2>7 DEF CauseKnown
<1> QED
  BY <1>4, <1>8, <1>9

\* Every step keeps the cause of a refusal known.
LEMMA CauseStep ==
  ASSUME TypeOK, AckedAreSynced, CauseKnown, [Next]_vars
  PROVE  CauseKnown'
<1>0. /\ SaveOK /\ DiskOK
      /\ \A i \in 1..Len(file) : file[i].id \in Receipts \cup {NoReceipt}
  <2>1. SaveOK /\ DiskOK /\ \A i \in 1..Len(file) : file[i] \in Lines
    BY DEF TypeOK, DiskOK
  <2>2. \A line \in Lines : line.id \in Receipts \cup {NoReceipt}
    BY DEF Lines
  <2> QED
    BY <2>1, <2>2
<1>1. /\ \A r \in Receipts : outcome[r] # "new" => outcome'[r] # "new"
      /\ SaveFailed => SaveFailed'
      /\ LongBegun => LongBegun'
  BY <1>0, OutcomesStay
<1>a. ASSUME UNCHANGED <<file, torn>>, status' = "refused" => (status = "refused" \/ SaveFailed' \/ LongBegun')
      PROVE  CauseKnown'
  BY <1>0, <1>1, <1>a DEF CauseKnown, RefusalHasACause
<1>2. ASSUME NEW r \in Receipts, BeginSave(r) PROVE CauseKnown'
  BY <1>2, <1>a DEF BeginSave, diskVars
<1>3. CASE Rotate
  <2>1. file' = <<>> /\ torn' = FALSE /\ UNCHANGED status
    BY <1>3 DEF Rotate
  <2> QED
    BY <1>1, <2>1 DEF CauseKnown, RefusalHasACause
<1>4. CASE RotateFails \/ WriteFails \/ SyncFails \/ SyncFile \/ Publish \/ Tick \/ UNCHANGED vars
  BY <1>4, <1>a DEF RotateFails, WriteFails, SyncFails, SyncFile, Publish, Tick, Return, diskVars, vars
<1>5. CASE WriteLine
  <2>1. FullLine(cur) \in Pieces(FullLine(cur)) /\ FullLine(cur).id = cur /\ stage = "write" /\ torn' = FALSE
        /\ UNCHANGED <<status, outcome>> /\ file' \in Appended(file, torn, FullLine(cur))
    BY <1>5 DEF WriteLine, Pieces, FullLine
  <2>2. cur # NoReceipt
    BY <1>0, <2>1, ReceiptsAssumption DEF SaveOK
  <2>3. /\ \A i \in 1..Len(file') : file'[i].id = NoReceipt => SaveFailed
        /\ \A i \in 1..Len(file') : file'[i].id # NoReceipt => outcome[file'[i].id] # "new"
        /\ \A i \in 1..Len(file') : file'[i].long => SaveFailed \/ LongBegun
    BY <2>1, <2>2, WriteHasACause
  <2> QED
    BY <1>1, <2>1, <2>3 DEF CauseKnown, RefusalHasACause
<1>6. CASE WriteShort
  <2>1. stage = "write" /\ Return("failed") /\ status' = status
    BY <1>6 DEF WriteShort, Return
  <2>2. PICK part \in Pieces(FullLine(cur)) : file' \in Appended(file, torn, part)
    BY <1>6 DEF WriteShort
  <2>3. SaveFailed'
    BY <1>0, <2>1, FailureIsACause
  <2>4. \A i \in 1..Len(file') : file'[i].id # NoReceipt => outcome[file'[i].id] # "new"
    BY <2>1, <2>2, WriteHasACause
  <2>5. \A i \in 1..Len(file') : file'[i].id # NoReceipt => outcome'[file'[i].id] # "new"
    <3>1. outcome' = [outcome EXCEPT ![cur] = "failed"]
      BY <2>1 DEF Return
    <3> QED
      BY <1>0, <2>4, <3>1 DEF SaveOK
  <2> QED
    BY <2>1, <2>3, <2>5 DEF CauseKnown, RefusalHasACause
<1>7. CASE Crash
  BY <1>7, CrashHasACause
<1>8. CASE Restart
  <2>1. UNCHANGED <<file, torn, outcome>>
    BY <1>8 DEF Restart, diskVars
  <2>2. status' = "refused" => SaveFailed \/ LongBegun
    <3>1. SUFFICES ASSUME status' = "refused" PROVE SaveFailed \/ LongBegun
      OBVIOUS
    <3>2. ~Loads(file)
      BY <1>8, <3>1 DEF Restart
    <3>3. \E i \in 1..Len(file) : file[i].long \/ file[i].id = NoReceipt
      BY <3>2 DEF Loads
    <3> QED
      BY <3>3 DEF CauseKnown
  <2> QED
    BY <1>1, <1>a, <2>1, <2>2
<1> QED
  BY <1>2, <1>3, <1>4, <1>5, <1>6, <1>7, <1>8 DEF Next, SaveStep

\* With torn writes and over-long lines, a start is refused only after a Save
\* failed or was cut off, or a receipt over the limit was saved.
THEOREM RefusalsHaveCauses == Spec => []RefusalHasACause
<1>1. Init => CauseKnown /\ AckedAreSynced
  BY DEF Init, CauseKnown, AckedAreSynced, RefusalHasACause
<1>2. TypeOK /\ TypeOK' /\ AckedAreSynced /\ [Next]_vars => AckedAreSynced'
  BY SyncedStep
<1>3. TypeOK /\ AckedAreSynced /\ CauseKnown /\ [Next]_vars => CauseKnown'
  BY CauseStep
<1>4. CauseKnown => RefusalHasACause
  BY DEF CauseKnown
<1> QED
  BY <1>1, <1>2, <1>3, <1>4, TypeCorrect, PTL DEF Spec
=============================================================================
