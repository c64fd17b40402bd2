------------------------ MODULE IdempotencyContract ------------------------
(***************************************************************************)
(* What an idempotency key promises a client, for any endpoint: within one *)
(* life of the process the first call that succeeds under a key decides,   *)
(* calls that repeat its payload get its answer and nothing else happens,  *)
(* and calls with another payload are told of the conflict.                *)
(***************************************************************************)
CONSTANTS Calls, NoCall, NoAnswer,
          Slots,          \* endpoint and key
          NoSlot,         \* of a call without a key
          Payloads        \* what two calls under one key must agree on

VARIABLES
  asked,     \* call -> its slot and payload, fixed from the start
  bound,     \* slot -> the call whose answer the slot stands for
  answer,    \* call -> the answer decided for it
  delivered  \* calls whose client has been answered, or cut off

contract == <<asked, bound, answer, delivered>>

Init ==
  /\ asked \in [Calls -> [slot : Slots \cup {NoSlot}, payload : Payloads]]
  /\ bound = [s \in Slots |-> NoCall]
  /\ answer = [c \in Calls |-> NoAnswer]
  /\ delivered = {}

Undecided(c) == answer[c] = NoAnswer /\ c \notin delivered

Decide(c, status, by) ==
  /\ Undecided(c)
  /\ answer' = [answer EXCEPT ![c] = [status |-> status, by |-> by]]
  /\ UNCHANGED <<asked, delivered>>

Execute(c) ==
  /\ Decide(c, 200, c)
  /\ IF asked[c].slot = NoSlot
       THEN UNCHANGED bound
       ELSE /\ bound[asked[c].slot] = NoCall
            /\ bound' = [bound EXCEPT ![asked[c].slot] = c]

Replay(c) ==
  /\ asked[c].slot # NoSlot /\ bound[asked[c].slot] # NoCall
  /\ asked[bound[asked[c].slot]].payload = asked[c].payload
  /\ Decide(c, 200, bound[asked[c].slot])
  /\ UNCHANGED bound

Conflict(c) ==
  /\ asked[c].slot # NoSlot /\ bound[asked[c].slot] # NoCall
  /\ asked[bound[asked[c].slot]].payload # asked[c].payload
  /\ Decide(c, 409, c)
  /\ UNCHANGED bound

\* An invalid call, or one that failed, leaves the key free.
Fail(c) ==
  /\ \E status \in {400, 500} : Decide(c, status, c)
  /\ UNCHANGED bound

Deliver(c) ==
  /\ answer[c] # NoAnswer
  /\ delivered' = delivered \cup {c}
  /\ UNCHANGED <<asked, bound, answer>>

\* A restart forgets the keys and cuts off the calls not yet answered.
Forget ==
  /\ bound' = [s \in Slots |-> NoCall]
  /\ \E cut \in SUBSET (Calls \ delivered) :
       /\ answer' = [c \in Calls |-> IF c \in cut THEN NoAnswer ELSE answer[c]]
       /\ delivered' = delivered \cup cut
  /\ UNCHANGED asked

Next ==
  \/ \E c \in Calls : Execute(c) \/ Replay(c) \/ Conflict(c) \/ Fail(c) \/ Deliver(c)
  \/ Forget

Spec == Init /\ [][Next]_contract
=============================================================================
