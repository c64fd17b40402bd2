---------------------------- MODULE ReceiptStore ----------------------------
(***************************************************************************)
(* The receipt store of internal/receipts/store.go: an in-memory map of    *)
(* decision receipts backed by an append-only JSON-lines file.             *)
(*                                                                         *)
(* Save holds the store's mutex from its first statement to its return, so *)
(* at most one Save is in progress; its steps (rotate, write, fsync,       *)
(* publish in the map) are separate actions because the process or the     *)
(* machine may stop between any two of them and each of them may fail.     *)
(*                                                                         *)
(* The file is a sequence of lines.  A line is a record: id is the receipt *)
(* a JSON decoder finds in it, or NoReceipt when it does not decode; long  *)
(* says that it exceeds maxReceiptLineBytes.  torn says that the last line *)
(* has no newline yet, so that the next write continues it.  The first     *)
(* durable lines have been covered by an fsync.                            *)
(***************************************************************************)
EXTENDS Naturals, FiniteSets, Sequences

CONSTANTS
  Receipts,       \* the receipts handlers may save, each with a fresh newID()
  NoReceipt,      \* "no receipt": an undecodable line, an idle saver
  LongReceipts,   \* receipts whose line is longer than maxReceiptLineBytes
  MaxEntries,     \* the MaxEntries option, 0 when rotation is off
  MaxClock,       \* bound: the last second of the wall clock
  TornWrites,     \* may the disk keep a proper prefix of a line?
  RotationsApart  \* are two rotations at least one second apart?

ASSUME ReceiptsAssumption == IsFiniteSet(Receipts) /\ NoReceipt \notin Receipts /\ LongReceipts \subseteq Receipts
ASSUME NumbersAssumption == MaxEntries \in Nat /\ MaxClock \in Nat
ASSUME EnvironmentAssumption == TornWrites \in BOOLEAN /\ RotationsApart \in BOOLEAN

VARIABLES
  status,      \* "up", "down", or "refused": NewReceiptStore returned an error
  receipts,    \* s.receipts: the receipts Get finds
  entryCount,  \* s.entryCount
  file, torn, durable,
  archives,    \* second -> content of the archive named after it, <<>> if none
  clock,       \* the wall clock in seconds
  stage,       \* where the Save that holds s.mu is, "idle" when s.mu is free
  cur,         \* the receipt being saved
  outcome      \* receipt -> what its caller knows of it

vars == <<status, receipts, entryCount, file, torn, durable, archives, clock,
          stage, cur, outcome>>

diskVars == <<file, torn, durable, archives>>
memVars  == <<receipts, entryCount>>

-----------------------------------------------------------------------------
Lines    == [id : Receipts \cup {NoReceipt}, long : BOOLEAN]
Statuses == {"up", "down", "refused"}
Stages   == {"idle", "rotate", "write", "sync", "publish"}
Outcomes == {"new", "saving", "acked", "failed", "lost"}

IsLong(r) == r \in LongReceipts

FullLine(r) == [id |-> r, long |-> IsLong(r)]

\* What may reach the file of a line without its newline: all of it, or a
\* prefix, which does not decode and may fall short of the limit.
Pieces(line) == {line} \cup {l \in Lines : l.id = NoReceipt /\ (l.long => line.long)}

\* Mutant: the file is opened without O_APPEND and truncated.
AppendedTruncating(f, t, new) == {<<new>>}

\* The files new may leave when written at the end of f: a torn tail and the
\* bytes that follow it make one line, which does not decode and may exceed
\* the limit though neither part does.
Appended(f, t, new) ==
  IF t THEN {[f EXCEPT ![Len(f)] = [id |-> NoReceipt, long |-> l]] : l \in {TRUE, f[Len(f)].long \/ new.long}}
       ELSE {Append(f, new)}

\* The receipts that decode from a sequence of lines.
ReceiptsIn(f) == {f[i].id : i \in 1..Len(f)} \ {NoReceipt}
DurableReceipts == {file[i].id : i \in 1..durable} \ {NoReceipt}
ArchivedReceipts == UNION {ReceiptsIn(archives[s]) : s \in 0..MaxClock}

Acked == {r \in Receipts : outcome[r] = "acked"}

-----------------------------------------------------------------------------
Init ==
  /\ status = "down"
  /\ receipts = {} /\ entryCount = 0
  /\ file = <<>> /\ torn = FALSE /\ durable = 0
  /\ archives = [s \in 0..MaxClock |-> <<>>]
  /\ clock = 0
  /\ stage = "idle" /\ cur = NoReceipt
  /\ outcome = [r \in Receipts |-> "new"]

\* Mutant: the rotation test is off by one.
MustRotateLate == MaxEntries > 0 /\ entryCount > MaxEntries + 1

MustRotate == MaxEntries > 0 /\ entryCount >= MaxEntries

\* A handler calls Save with a fresh receipt and takes s.mu.
BeginSave(r) ==
  /\ status = "up" /\ stage = "idle" /\ outcome[r] = "new"
  /\ stage' = IF MustRotate THEN "rotate" ELSE "write"
  /\ cur' = r
  /\ outcome' = [outcome EXCEPT ![r] = "saving"]
  /\ UNCHANGED <<status, memVars, diskVars, clock>>

\* Save returns to its caller and releases s.mu.
Return(result) ==
  /\ stage' = "idle" /\ cur' = NoReceipt
  /\ outcome' = [outcome EXCEPT ![cur] = result]
  /\ UNCHANGED <<status, clock>>

\* Mutant of rotateLocked: the map survives the rotation.
RotateKeepsMap ==
  /\ stage = "rotate"
  /\ archives' = [archives EXCEPT ![clock] = file]
  /\ file' = <<>> /\ torn' = FALSE /\ durable' = 0
  /\ entryCount' = 0
  /\ stage' = "write"
  /\ UNCHANGED <<status, receipts, clock, cur, outcome>>

\* rotateLocked renames the file after the current second, replacing an
\* archive that already has this name, and starts over with an empty map.
Rotate ==
  /\ stage = "rotate"
  /\ RotationsApart => archives[clock] = <<>>
  /\ archives' = [archives EXCEPT ![clock] = file]
  /\ file' = <<>> /\ torn' = FALSE /\ durable' = 0
  /\ receipts' = {} /\ entryCount' = 0
  /\ stage' = "write"
  /\ UNCHANGED <<status, clock, cur, outcome>>

RotateFails ==
  /\ stage = "rotate"
  /\ Return("failed")
  /\ UNCHANGED <<memVars, diskVars>>

\* Continuing a torn tail changes the last line in place.
DurableBefore == IF torn /\ durable = Len(file) THEN durable - 1 ELSE durable

WriteLine ==
  /\ stage = "write"
  /\ file' \in Appended(file, torn, FullLine(cur))
  /\ torn' = FALSE /\ durable' = DurableBefore
  /\ stage' = "sync"
  /\ UNCHANGED <<status, memVars, archives, clock, cur, outcome>>

\* Marshal, open or write fails before a byte reaches the file.
WriteFails ==
  /\ stage = "write"
  /\ Return("failed")
  /\ UNCHANGED <<memVars, diskVars>>

\* Write reports an error after part of the line, or all of it but the
\* newline, reached the file.
WriteShort ==
  /\ TornWrites
  /\ stage = "write"
  /\ \E part \in Pieces(FullLine(cur)) : file' \in Appended(file, torn, part)
  /\ torn' = TRUE /\ durable' = DurableBefore
  /\ Return("failed")
  /\ UNCHANGED <<memVars, archives>>

\* Mutant: the line is never fsynced.
SyncSkipped ==
  /\ stage = "sync"
  /\ stage' = "publish"
  /\ UNCHANGED <<status, memVars, diskVars, clock, cur, outcome>>

SyncFile ==
  /\ stage = "sync"
  /\ durable' = Len(file)
  /\ stage' = "publish"
  /\ UNCHANGED <<status, memVars, file, torn, archives, clock, cur, outcome>>

\* Mutant: the error of Sync is dropped.
SyncErrorDropped ==
  /\ stage = "sync"
  /\ stage' = "publish"
  /\ UNCHANGED <<status, memVars, diskVars, clock, cur, outcome>>

SyncFails ==
  /\ stage = "sync"
  /\ Return("failed")
  /\ UNCHANGED <<memVars, diskVars>>

\* Mutant: Save takes s.mu a second time, as by calling Count.
PublishRelocking ==
  /\ stage = "publish" /\ stage = "idle"
  /\ UNCHANGED vars

Publish ==
  /\ stage = "publish"
  /\ receipts' = receipts \cup {cur} /\ entryCount' = entryCount + 1
  /\ Return("acked")
  /\ UNCHANGED diskVars

-----------------------------------------------------------------------------
(* Crashes and restarts.                                                   *)

\* What a crash may leave of the file: any prefix that keeps the durable
\* lines and, when the disk tears writes, a piece of the next line.
CrashImage(f, t) ==
  \E n \in durable..Len(file) :
    \/ f = SubSeq(file, 1, n) /\ t = (torn /\ n = Len(file))
    \/ /\ TornWrites /\ n < Len(file) /\ t = TRUE
       /\ \E part \in Pieces(file[n + 1]) : f = Append(SubSeq(file, 1, n), part)

\* The process or the machine stops; callers in Save never hear of it.
Crash ==
  /\ status = "up"
  /\ status' = "down"
  /\ receipts' = {} /\ entryCount' = 0
  /\ CrashImage(file', torn')
  /\ stage' = "idle" /\ cur' = NoReceipt
  /\ outcome' = [r \in Receipts |-> IF outcome[r] = "saving" THEN "lost" ELSE outcome[r]]
  /\ UNCHANGED <<durable, archives, clock>>

\* Mutant: a file without a decodable receipt is refused, an empty one too.
LoadsNonEmpty(f) ==
  /\ \A i \in 1..Len(f) : ~f[i].long
  /\ ReceiptsIn(f) # {}

\* loadExistingReceipts: a line over the scanner's limit is an error; lines
\* that do not decode are skipped, unless no line decodes.
Loads(f) ==
  /\ \A i \in 1..Len(f) : ~f[i].long
  /\ (\E i \in 1..Len(f) : f[i].id = NoReceipt) => ReceiptsIn(f) # {}

DecodedLines(f) == {i \in 1..Len(f) : f[i].id # NoReceipt}

\* NewReceiptStore, called by main at startup.
Restart ==
  /\ status \in {"down", "refused"}
  /\ IF Loads(file)
       THEN /\ status' = "up"
            /\ receipts' = ReceiptsIn(file)
            /\ entryCount' = Cardinality(DecodedLines(file))
       ELSE status' = "refused" /\ UNCHANGED memVars
  /\ UNCHANGED <<diskVars, clock, stage, cur, outcome>>

Tick ==
  /\ clock < MaxClock
  /\ clock' = clock + 1
  /\ UNCHANGED <<status, memVars, diskVars, stage, cur, outcome>>

SaveStep == Rotate \/ RotateFails \/ WriteLine \/ WriteFails \/ WriteShort
            \/ SyncFile \/ SyncFails \/ Publish

Next ==
  \/ \E r \in Receipts : BeginSave(r)
  \/ SaveStep
  \/ Crash
  \/ Restart
  \/ Tick

Spec == Init /\ [][Next]_vars

\* Save runs to its end once called.
FairSpec == Spec /\ WF_vars(SaveStep)

-----------------------------------------------------------------------------
(* Properties.                                                             *)

MemoryOK ==
  /\ status \in Statuses /\ clock \in 0..MaxClock
  /\ receipts \subseteq Receipts /\ entryCount \in Nat

DiskOK ==
  /\ file \in Seq(Lines) /\ torn \in BOOLEAN /\ durable \in 0..Len(file)
  /\ torn => file # <<>>
  /\ archives \in [0..MaxClock -> Seq(Lines)]

SaveOK ==
  /\ stage \in Stages /\ cur \in Receipts \cup {NoReceipt}
  /\ outcome \in [Receipts -> Outcomes]
  /\ \A r \in Receipts : outcome[r] = "saving" <=> stage # "idle" /\ r = cur
  /\ stage # "idle" => cur \in Receipts

\* The variables hold what the code's types allow, and a receipt is being
\* saved exactly while the Save that holds s.mu has not returned.
TypeOK == MemoryOK /\ DiskOK /\ SaveOK

\* A receipt whose Save returned without an error is in the fsynced part of
\* the file or in an archive, whatever failed or stopped since: no failed
\* write, failed sync, crash or rotation loses an audit record.
AckedKept == Acked \subseteq DurableReceipts \cup ArchivedReceipts

\* What makes AckedKept inductive when lines are written whole: the line of
\* the Save in progress is the last one, and fsynced before it is published.
SaveProgress ==
  /\ stage = "rotate" => MaxEntries > 0
  /\ stage \in {"sync", "publish"} => file # <<>> /\ file[Len(file)].id = cur
  /\ stage = "publish" => durable = Len(file)

\* The inductive invariant behind the durability theorem.
AuditInv == TypeOK /\ ~torn /\ SaveProgress /\ AckedKept

Recoverable == ReceiptsIn(file) \cup ArchivedReceipts

\* Once an acknowledged receipt can be recovered from the disk it stays so,
\* torn writes included; the one step that loses it is a rotation in a
\* second that already names an archive (store.go:133-134).
LostOnlyByReusedName ==
  [][(stage = "rotate" /\ archives[clock] # <<>>)
     \/ Acked \cap Recoverable \subseteq Recoverable']_vars

\* While the store serves, Get finds only receipts the file holds and every
\* acknowledged receipt the file holds, and entryCount, which decides when to
\* rotate, is their number: memory and file change generation together on
\* rotation, and a restart reads back what was promised.
MemoryAgreesWithFile ==
  status = "up" => /\ receipts \subseteq ReceiptsIn(file)
                   /\ Acked \cap ReceiptsIn(file) \subseteq receipts
                   /\ entryCount = Cardinality(receipts)

\* The file outgrows MaxEntries only by lines whose Save was not acknowledged:
\* each of those is written without being counted.
RotationBound ==
  MaxEntries > 0 =>
    Len(file) <= MaxEntries + Cardinality({r \in Receipts : outcome[r] \in {"saving", "failed", "lost"}})

\* Every Save returns or dies with the process: no path keeps the mutex.
SaveReturns == \A r \in Receipts : outcome[r] = "saving" ~> outcome[r] # "saving"

SaveFailed == \E r \in Receipts : outcome[r] \in {"failed", "lost"}
LongBegun  == \E r \in LongReceipts : outcome[r] # "new"

\* NewReceiptStore refuses the file only after a Save failed or was cut off by
\* a crash, or when a receipt over maxReceiptLineBytes was saved: no history of
\* successful saves, rotations, clean stops and crashes between saves, and no
\* empty file, keeps the service from starting.
RefusalHasACause == status = "refused" => SaveFailed \/ LongBegun

\* The store implements the abstract ledger: a receipt counts as recorded when
\* the file or an archive holds it, and a caller that died was told nothing.
Ledger == INSTANCE AuditLedger WITH
  recorded <- Recoverable,
  visible  <- receipts,
  told     <- [r \in Receipts |-> CASE outcome[r] = "acked"  -> "saved"
                                   [] outcome[r] = "failed" -> "failed"
                                   [] OTHER -> "nothing"]

ImplementsLedger == Ledger!Spec
=============================================================================
