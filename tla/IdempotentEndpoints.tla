------------------------ MODULE IdempotentEndpoints ------------------------
(***************************************************************************)
(* The four POST handlers of internal/server/server.go with their          *)
(* idempotency caches: handleScan, handleDecide, handleTransform and       *)
(* handleAnonymize.                                                        *)
(*                                                                         *)
(* Handlers run concurrently.  Each looks its key up under s.mu, releases  *)
(* the mutex, works, and takes s.mu again to write the cache, so other     *)
(* handlers run between the lookup and the write.  A decide call saves a   *)
(* receipt in between (ReceiptStore models how); the receipt is named here *)
(* after the call that saved it.  A Save that fails, or that a crash cuts  *)
(* off, may have written its line all the same.                            *)
(*                                                                         *)
(* The body of a success is determined by the call that computed it: it    *)
(* carries that call's request_id and, for decide, its receipt_id.  The    *)
(* payload stands for what the hash functions keep of a request.           *)
(***************************************************************************)
EXTENDS Naturals, FiniteSets

CONSTANTS
  Calls,
  Endpoints,     \* a subset of {"scan", "decide", "transform", "anonymize"}
  Keys, NoKey,   \* idempotency keys, and the empty one
  Payloads,      \* hashes of valid requests
  Invalid,       \* a request that fails validation
  NoCall, NoAnswer,
  MaxRestarts,   \* bound: how often the process is started again
  OverlapKeys    \* may a client send a key again before it was answered?

ASSUME CallsAssumption == NoCall \notin Calls
ASSUME KeysAssumption ==
  NoKey \notin Keys \cup (Endpoints \X Keys) /\ Invalid \notin Payloads
ASSUME BoundsAssumption == MaxRestarts \in Nat /\ OverlapKeys \in BOOLEAN
ASSUME AnswerAssumption ==
  NoAnswer \notin [status : {200, 400, 409, 500}, by : Calls]

VARIABLES
  req,      \* call -> what its client asks for, fixed from the start
  up,       \* is the process serving?
  pc,       \* call -> where its handler is
  answer,   \* call -> its answer, once decided
  cache,    \* s.scans, s.decisions, s.transforms, s.anonymizes: the call whose
            \* response and hash the entry holds
  stored,   \* receipts Save has acknowledged
  leftover, \* receipts in the file whose Save was not acknowledged
  life,     \* call -> the process life it arrived in
  lives,    \* lives started so far
  met       \* history only: call -> the calls of its slot that worked when it missed

vars == <<req, up, pc, answer, cache, stored, leftover, life, lives, met>>

Requests == [endpoint : Endpoints, key : Keys \cup {NoKey}, payload : Payloads \cup {Invalid}]
Answers  == [status : {200, 400, 409, 500}, by : Calls]

Hash(c)  == req[c].payload
Keyed(c) == req[c].key # NoKey
Valid(c) == req[c].payload # Invalid
SameSlot(c, d) == Keyed(c) /\ req[c].endpoint = req[d].endpoint /\ req[c].key = req[d].key

Entry(c) == cache[req[c].endpoint][req[c].key]

InFlight(c) == pc[c] \notin {"new", "done"}

Init ==
  /\ req \in [Calls -> Requests]
  /\ up = TRUE
  /\ pc = [c \in Calls |-> "new"]
  /\ answer = [c \in Calls |-> NoAnswer]
  /\ cache = [e \in Endpoints |-> [k \in Keys |-> NoCall]]
  /\ stored = {} /\ leftover = {}
  /\ life = [c \in Calls |-> 0] /\ lives = 0
  /\ met = [c \in Calls |-> {}]

-----------------------------------------------------------------------------
(* The handlers.                                                           *)

Arrives(c) ==
  /\ up /\ pc[c] = "new"
  /\ OverlapKeys \/ \A d \in Calls : SameSlot(c, d) => ~InFlight(d)
  /\ life' = [life EXCEPT ![c] = lives]

\* The handler has its answer and goes on to write it.
Settle(c, status, by) ==
  /\ pc' = [pc EXCEPT ![c] = "respond"]
  /\ answer' = [answer EXCEPT ![c] = [status |-> status, by |-> by]]

Reject(c) ==
  /\ Arrives(c) /\ ~Valid(c)
  /\ Settle(c, 400, c)
  /\ UNCHANGED <<req, up, cache, stored, leftover, lives, met>>

\* No key, or a key that is not in the cache: the handler does the work.
Miss(c) ==
  /\ Arrives(c) /\ Valid(c)
  /\ Keyed(c) => Entry(c) = NoCall
  /\ pc' = [pc EXCEPT ![c] = "work"]
  /\ met' = [met EXCEPT ![c] = {d \in Calls : SameSlot(c, d) /\ pc[d] \in {"work", "saved"}}]
  /\ UNCHANGED <<req, up, answer, cache, stored, leftover, lives>>

\* Mutants of the lookup: the hash is not compared; the conflict is dropped.
HitAnyPayload(c) ==
  /\ Arrives(c) /\ Valid(c) /\ Keyed(c)
  /\ Entry(c) # NoCall
  /\ Settle(c, 200, Entry(c))
  /\ UNCHANGED <<req, up, cache, stored, leftover, lives, met>>

ConflictOnAnyHit(c) ==
  /\ Arrives(c) /\ Valid(c) /\ Keyed(c)
  /\ Entry(c) # NoCall
  /\ Settle(c, 409, c)
  /\ UNCHANGED <<req, up, cache, stored, leftover, lives, met>>

\* The key is known and the hashes agree: the stored response is replayed.
Replay(c) ==
  /\ Arrives(c) /\ Valid(c) /\ Keyed(c)
  /\ Entry(c) # NoCall /\ Hash(Entry(c)) = Hash(c)
  /\ Settle(c, 200, Entry(c))
  /\ UNCHANGED <<req, up, cache, stored, leftover, lives, met>>

Conflict(c) ==
  /\ Arrives(c) /\ Valid(c) /\ Keyed(c)
  /\ Entry(c) # NoCall /\ Hash(Entry(c)) # Hash(c)
  /\ Settle(c, 409, c)
  /\ UNCHANGED <<req, up, cache, stored, leftover, lives, met>>

\* handleDecide: Save succeeds, or the call is answered receipt_error.
SaveReceipt(c) ==
  /\ pc[c] = "work" /\ req[c].endpoint = "decide"
  /\ stored' = stored \cup {c}
  /\ pc' = [pc EXCEPT ![c] = "saved"]
  /\ UNCHANGED <<req, up, answer, cache, leftover, life, lives, met>>

\* Mutant: a failed save is logged and the call goes on.
SaveErrorIgnored(c) ==
  /\ pc[c] = "work" /\ req[c].endpoint = "decide"
  /\ pc' = [pc EXCEPT ![c] = "saved"]
  /\ UNCHANGED <<req, up, answer, cache, stored, leftover, life, lives, met>>

\* Mutant: the entry is written before the receipt is saved.
SaveFailsCached(c) ==
  /\ pc[c] = "work" /\ req[c].endpoint = "decide"
  /\ Settle(c, 500, c)
  /\ cache' = IF Keyed(c) THEN [cache EXCEPT ![req[c].endpoint][req[c].key] = c] ELSE cache
  /\ UNCHANGED <<req, up, stored, leftover, life, lives, met>>

\* Save fails before it has written its line, or at the sync after it.
SaveFails(c) ==
  /\ pc[c] = "work" /\ req[c].endpoint = "decide"
  /\ Settle(c, 500, c)
  /\ leftover' \in {leftover, leftover \cup {c}}
  /\ UNCHANGED <<req, up, cache, stored, life, lives, met>>

Computed(c) == pc[c] = (IF req[c].endpoint = "decide" THEN "saved" ELSE "work")

\* Mutant: the response is not cached.
FinishUncached(c) ==
  /\ Computed(c)
  /\ Settle(c, 200, c)
  /\ UNCHANGED <<req, up, cache, stored, leftover, life, lives, met>>

\* The cache write is unconditional: it replaces what another handler wrote
\* since this one missed.
Finish(c) ==
  /\ Computed(c)
  /\ Settle(c, 200, c)
  /\ cache' = IF Keyed(c) THEN [cache EXCEPT ![req[c].endpoint][req[c].key] = c] ELSE cache
  /\ UNCHANGED <<req, up, stored, leftover, life, lives, met>>

Respond(c) ==
  /\ pc[c] = "respond"
  /\ pc' = [pc EXCEPT ![c] = "done"]
  /\ UNCHANGED <<req, up, answer, cache, stored, leftover, life, lives, met>>

-----------------------------------------------------------------------------
(* The process.                                                            *)

\* Calls whose handler may be inside Save.
Saving == {c \in Calls : pc[c] = "work" /\ req[c].endpoint = "decide"}

\* Calls in flight are cut off; the caches are gone, acknowledged receipts are not.
\* Of the others, those being saved included, any may be in the file.
Crash ==
  /\ up
  /\ up' = FALSE
  /\ pc' = [c \in Calls |-> IF InFlight(c) THEN "done" ELSE pc[c]]
  /\ answer' = [c \in Calls |-> IF InFlight(c) THEN NoAnswer ELSE answer[c]]
  /\ cache' = [e \in Endpoints |-> [k \in Keys |-> NoCall]]
  /\ leftover' \in SUBSET (leftover \cup Saving)
  /\ UNCHANGED <<req, stored, life, lives, met>>

Restart ==
  /\ ~up /\ lives < MaxRestarts
  /\ up' = TRUE /\ lives' = lives + 1
  /\ UNCHANGED <<req, pc, answer, cache, stored, leftover, life, met>>

Handler(c) ==
  \/ Reject(c) \/ Miss(c) \/ Replay(c) \/ Conflict(c)
  \/ SaveReceipt(c) \/ SaveFails(c) \/ Finish(c) \/ Respond(c)

Next == (\E c \in Calls : Handler(c)) \/ Crash \/ Restart

Spec == Init /\ [][Next]_vars

-----------------------------------------------------------------------------
(* Properties.                                                             *)

\* Types, and no handler goes on working after it has settled its answer.
TypeOK ==
  /\ req \in [Calls -> Requests] /\ up \in BOOLEAN
  /\ pc \in [Calls -> {"new", "work", "saved", "respond", "done"}]
  /\ answer \in [Calls -> Answers \cup {NoAnswer}]
  /\ cache \in [Endpoints -> [Keys -> Calls \cup {NoCall}]]
  /\ stored \subseteq Calls /\ leftover \subseteq Calls /\ met \in [Calls -> SUBSET Calls]
  /\ life \in [Calls -> 0..MaxRestarts] /\ lives \in 0..MaxRestarts
  /\ \A c \in Calls : pc[c] \in {"new", "work", "saved"} => answer[c] = NoAnswer
  /\ \A c \in Calls : pc[c] = "respond" => answer[c] # NoAnswer

Succeeded(c) == answer[c] # NoAnswer /\ answer[c].status = 200
Refused(c)   == answer[c] # NoAnswer /\ answer[c].status # 200

\* Calls whose handler got as far as a success, answered or cut off.
Completed(c) == pc[c] \in {"respond", "done"} /\ ~Refused(c)

\* Every decision a client or the cache holds, replayed ones included, names a
\* receipt that was saved before (docs/ARCHITECTURE.md:33).
DecisionHasReceipt ==
  /\ \A c \in Calls : Succeeded(c) /\ req[c].endpoint = "decide" => answer[c].by \in stored
  /\ "decide" \in Endpoints => \A k \in Keys : cache["decide"][k] \in stored \cup {NoCall}

\* A success was computed for the same endpoint and payload as the call it
\* answers, and comes from another call only if both carry the same key; so
\* whatever handlers race, no client gets the answer to another question.
AnswersItsQuestion ==
  \A c \in Calls : Succeeded(c) =>
    LET by == answer[c].by IN
    /\ req[by].endpoint = req[c].endpoint /\ Hash(by) = Hash(c) /\ Valid(c)
    /\ by # c => SameSlot(c, by)

\* A call that was refused (400, 409 or 500) has no acknowledged receipt, no cache
\* entry and no answer that another call repeats.  Only a decide call answered 500
\* may have its receipt in the file, where the next start loads it.
RefusalIsContained ==
  \A c \in Calls : Refused(c) =>
    /\ c \notin stored
    /\ c \in leftover => answer[c].status = 500 /\ req[c].endpoint = "decide"
    /\ \A d \in Calls : Succeeded(d) => answer[d].by # c
    /\ \A e \in Endpoints, k \in Keys : cache[e][k] # c

\* A conflict is reported only against a call of the same endpoint and key,
\* in the same life of the process, whose payload differs and that succeeded.
ConflictJustified ==
  \A c \in Calls : answer[c] # NoAnswer /\ answer[c].status = 409 =>
    \E d \in Calls : /\ SameSlot(c, d) /\ Valid(d) /\ Hash(d) # Hash(c)
                     /\ life[d] = life[c]
                     /\ Completed(d)

\* A call whose response may stand in the cache under an endpoint and a key.
Cacheable(d, e, k) ==
  /\ req[d].endpoint = e /\ req[d].key = k /\ Valid(d)
  /\ Completed(d) /\ life[d] = lives

\* What makes the four invariants above inductive: where a call in progress,
\* a stored receipt and a cache entry can come from.
Provenance ==
  /\ \A c \in Calls : pc[c] \in {"work", "saved"} => Valid(c)
  /\ \A c \in Calls : pc[c] \in {"new", "work"} => c \notin stored
  /\ \A c \in Calls : pc[c] = "saved" => c \in stored
  /\ \A e \in Endpoints, k \in Keys : \A d \in Calls : cache[e][k] = d => Cacheable(d, e, k)
  /\ \A c, d \in Calls : Succeeded(c) /\ answer[c].by = d => Completed(d)
  /\ \A c \in Calls : InFlight(c) => up /\ life[c] = lives
  /\ ~up => \A e \in Endpoints, k \in Keys : cache[e][k] = NoCall

\* A receipt that was not acknowledged is of a decide call that was refused or cut off.
Leftovers ==
  \A c \in leftover :
    /\ c \notin stored /\ req[c].endpoint = "decide" /\ pc[c] \in {"respond", "done"}
    /\ answer[c] # NoAnswer => answer[c].status = 500

IInv == TypeOK /\ Provenance /\ Leftovers /\ DecisionHasReceipt /\ AnswersItsQuestion
        /\ RefusalIsContained /\ ConflictJustified

\* Reusing a key with another payload is not answered with a success
\* (docs/contracts/datafog-api-contract.md:384).
ReuseIsReported ==
  \A c, d \in Calls :
    Succeeded(c) /\ Succeeded(d) /\ SameSlot(c, d) /\ life[c] = life[d] => Hash(c) = Hash(d)

\* A key has a second receipt from one life of the process only if the two calls
\* overlapped, one at work when the other looked the key up, or if the Save of one
\* was not acknowledged, and then no decision that anyone was told names that one.
SecondReceiptHasACause ==
  \A c, d \in stored \cup leftover : SameSlot(c, d) /\ life[c] = life[d] /\ c # d =>
    \/ d \in met[c] \/ c \in met[d]
    \/ \E b \in {c, d} \cap leftover : \A a \in Calls : Succeeded(a) => answer[a].by # b

\* With clients that wait for an answer before they repeat a key, the
\* handlers implement the abstract contract.
Contract == INSTANCE IdempotencyContract WITH
  Slots <- Endpoints \X Keys, NoSlot <- NoKey,
  Payloads <- Payloads \cup {Invalid},
  asked <- [c \in Calls |->
              [slot |-> IF Keyed(c) THEN <<req[c].endpoint, req[c].key>> ELSE NoKey,
               payload |-> Hash(c)]],
  bound <- [s \in Endpoints \X Keys |-> cache[s[1]][s[2]]],
  delivered <- {c \in Calls : pc[c] = "done"}

KeepsContract == Contract!Spec
=============================================================================
