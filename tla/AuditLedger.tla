----------------------------- MODULE AuditLedger -----------------------------
(***************************************************************************)
(* What a receipt store promises, without files, lines or rotation.        *)
(*                                                                         *)
(* A receipt is recorded before its caller is told that it was saved, a    *)
(* saved receipt stays recorded for ever, and what a reader can see is     *)
(* always recorded.  A store that stops may forget what it never           *)
(* confirmed, and nothing else.                                            *)
(***************************************************************************)
CONSTANT Receipts

VARIABLES
  recorded,  \* receipts an auditor can recover from the medium
  visible,   \* receipts a reader of the running store finds
  told       \* receipt -> "nothing", "saved" or "failed": the caller's answer

ledger == <<recorded, visible, told>>

Saved == {r \in Receipts : told[r] = "saved"}

TypeOK ==
  /\ recorded \subseteq Receipts
  /\ visible \subseteq Receipts
  /\ told \in [Receipts -> {"nothing", "saved", "failed"}]

Init ==
  /\ recorded = {} /\ visible = {}
  /\ told = [r \in Receipts |-> "nothing"]

Record(r) ==
  /\ told[r] = "nothing" /\ r \notin recorded
  /\ recorded' = recorded \cup {r}
  /\ UNCHANGED <<visible, told>>

Confirm(r) ==
  /\ told[r] = "nothing" /\ r \in recorded
  /\ told' = [told EXCEPT ![r] = "saved"]
  /\ visible' = visible \cup {r}
  /\ UNCHANGED recorded

Refuse(r) ==
  /\ told[r] = "nothing"
  /\ told' = [told EXCEPT ![r] = "failed"]
  /\ UNCHANGED <<recorded, visible>>

\* Readers move on to an empty generation; nothing recorded is lost.
Archive ==
  /\ visible' = {}
  /\ UNCHANGED <<recorded, told>>

Stop ==
  /\ visible' = {}
  /\ recorded' \in {keep \in SUBSET recorded : Saved \subseteq keep}
  /\ UNCHANGED told

\* A store that starts reads some of what is recorded (its last generation).
Start ==
  /\ visible' \in SUBSET recorded
  /\ UNCHANGED <<recorded, told>>

Next ==
  \/ \E r \in Receipts : Record(r) \/ Confirm(r) \/ Refuse(r)
  \/ Archive \/ Stop \/ Start

Spec == Init /\ [][Next]_ledger
=============================================================================
