--------------------- MODULE IdempotentEndpointsProofs ---------------------
(***************************************************************************)
(* Proofs about IdempotentEndpoints for any number of concurrent calls,    *)
(* keys and endpoints, with clients that overlap calls under one key: the  *)
(* invariant IInv is inductive, and with it every property that survives   *)
(* the race between the handlers.                                          *)
(***************************************************************************)
EXTENDS IdempotentEndpoints, TLAPS

\* A handler's answer becomes the pair it was settled with, and no other
\* call's answer or position changes.
LEMMA SettleFacts ==
  ASSUME TypeOK, NEW c \in Calls, NEW status \in {200, 400, 409, 500}, NEW by \in Calls,
         Settle(c, status, by)
  PROVE  /\ pc' \in [Calls -> {"new", "work", "saved", "respond", "done"}]
         /\ answer' \in [Calls -> Answers \cup {NoAnswer}]
         /\ pc'[c] = "respond" /\ answer'[c] # NoAnswer
         /\ answer'[c].status = status /\ answer'[c].by = by
         /\ \A d \in Calls : d # c => pc'[d] = pc[d] /\ answer'[d] = answer[d]
<1>1. [status |-> status, by |-> by] \in Answers
  BY DEF Answers
<1>2. [status |-> status, by |-> by] # NoAnswer
  BY <1>1, AnswerAssumption DEF Answers
<1> QED
  BY <1>1, <1>2 DEF TypeOK, Settle

\* The same for a handler that moves on without an answer.
LEMMA MoveFacts ==
  ASSUME TypeOK, NEW c \in Calls, NEW to \in {"work", "saved", "done"},
         pc' = [pc EXCEPT ![c] = to]
  PROVE  /\ pc' \in [Calls -> {"new", "work", "saved", "respond", "done"}]
         /\ pc'[c] = to
         /\ \A d \in Calls : d # c => pc'[d] = pc[d]
BY DEF TypeOK

\* The entry a handler reads is a call or the absence of one.
LEMMA EntryType ==
  ASSUME TypeOK, NEW c \in Calls, Keyed(c)
  PROVE  /\ req[c].endpoint \in Endpoints /\ req[c].key \in Keys
         /\ Entry(c) \in Calls \cup {NoCall}
BY DEF TypeOK, Requests, Keyed, Entry

\* Settling an answer keeps the types, if the rest of the step does.
LEMMA SettleTypes ==
  ASSUME TypeOK, NEW c \in Calls, NEW status \in {200, 400, 409, 500}, NEW by \in Calls,
         Settle(c, status, by), UNCHANGED <<req, up, lives, met>>, stored' \subseteq Calls,
         leftover' \subseteq Calls,
         cache' \in [Endpoints -> [Keys -> Calls \cup {NoCall}]],
         life' \in [Calls -> 0..MaxRestarts]
  PROVE  TypeOK'
<1>1. pc'[c] = "respond" /\ answer'[c] # NoAnswer /\ \A d \in Calls : d # c => pc'[d] = pc[d] /\ answer'[d] = answer[d]
  BY SettleFacts
<1>2. \A d \in Calls : pc'[d] \in {"new", "work", "saved"} => answer'[d] = NoAnswer
  BY <1>1 DEF TypeOK
<1>3. \A d \in Calls : pc'[d] = "respond" => answer'[d] # NoAnswer
  BY <1>1 DEF TypeOK
<1>4. /\ pc' \in [Calls -> {"new", "work", "saved", "respond", "done"}]
      /\ answer' \in [Calls -> Answers \cup {NoAnswer}]
  BY SettleFacts
<1>5. (req \in [Calls -> Requests])' /\ (up \in BOOLEAN)'
  BY DEF TypeOK
<1>6. (met \in [Calls -> SUBSET Calls])' /\ (lives \in 0..MaxRestarts)'
  BY DEF TypeOK
<1> QED
  BY <1>2, <1>3, <1>4, <1>5, <1>6 DEF TypeOK

LEMMA TypeStep == ASSUME TypeOK, [Next]_vars PROVE TypeOK'
<1> USE CallsAssumption, BoundsAssumption
<1>1. ASSUME NEW c \in Calls, Arrives(c) PROVE life' \in [Calls -> 0..MaxRestarts] /\ pc[c] = "new"
  BY <1>1 DEF Arrives, TypeOK
<1>2. ASSUME NEW c \in Calls, Reject(c) PROVE TypeOK'
  <2>1. Settle(c, 400, c) /\ 400 \in {200, 400, 409, 500}
    BY <1>2 DEF Reject
  <2> QED
    BY <1>1, <1>2, <2>1, SettleTypes DEF Reject, TypeOK
<1>3. ASSUME NEW c \in Calls, Miss(c) PROVE TypeOK'
  <2>1. /\ pc' \in [Calls -> {"new", "work", "saved", "respond", "done"}] /\ pc'[c] = "work"
        /\ \A d \in Calls : d # c => pc'[d] = pc[d]
    BY <1>3, MoveFacts DEF Miss
  <2> QED
    BY <1>1, <1>3, <2>1 DEF Miss, TypeOK
<1>4. ASSUME NEW c \in Calls, Replay(c) PROVE TypeOK'
  <2>1. Entry(c) \in Calls
    BY <1>4, EntryType DEF Replay
  <2> QED
    BY <1>1, <1>4, <2>1, SettleFacts DEF Replay, TypeOK
<1>5. ASSUME NEW c \in Calls, Conflict(c) PROVE TypeOK'
  <2>1. Settle(c, 409, c) /\ 409 \in {200, 400, 409, 500}
    BY <1>5 DEF Conflict
  <2> QED
    BY <1>1, <1>5, <2>1, SettleTypes DEF Conflict, TypeOK
<1>6. ASSUME NEW c \in Calls, SaveReceipt(c) PROVE TypeOK'
  <2>1. /\ pc' \in [Calls -> {"new", "work", "saved", "respond", "done"}] /\ pc'[c] = "saved"
        /\ \A d \in Calls : d # c => pc'[d] = pc[d]
    BY <1>6, MoveFacts DEF SaveReceipt
  <2> QED
    BY <1>1, <1>6, <2>1 DEF SaveReceipt, TypeOK
<1>7. ASSUME NEW c \in Calls, SaveFails(c) PROVE TypeOK'
  <2>1. leftover' \subseteq Calls /\ 500 \in {200, 400, 409, 500}
    BY <1>7 DEF SaveFails, TypeOK
  <2> QED
    BY <1>7, <2>1, SettleTypes DEF SaveFails, TypeOK
<1>8. ASSUME NEW c \in Calls, Finish(c) PROVE TypeOK'
  <2>1. cache' = IF Keyed(c) THEN [cache EXCEPT ![req[c].endpoint][req[c].key] = c] ELSE cache
    BY <1>8 DEF Finish
  <2>2. cache' \in [Endpoints -> [Keys -> Calls \cup {NoCall}]]
    <3>1. CASE Keyed(c)
      BY <2>1, <3>1, EntryType DEF TypeOK
    <3>2. CASE ~Keyed(c)
      BY <2>1, <3>2 DEF TypeOK
    <3> QED
      BY <3>1, <3>2
  <2>3. /\ Settle(c, 200, c) /\ UNCHANGED <<req, up, stored, leftover, life, lives, met>>
        /\ 200 \in {200, 400, 409, 500}
    BY <1>8 DEF Finish
  <2>4. stored' \subseteq Calls /\ leftover' \subseteq Calls /\ life' \in [Calls -> 0..MaxRestarts]
    BY <2>3 DEF TypeOK
  <2> QED
    BY <2>2, <2>3, <2>4, SettleTypes
<1>9. ASSUME NEW c \in Calls, Respond(c) PROVE TypeOK'
  BY <1>9, MoveFacts DEF Respond, TypeOK
<1>10. CASE Crash
  <2>1. leftover' \subseteq Calls
    BY <1>10 DEF Crash, Saving, TypeOK
  <2> QED
    BY <1>10, <2>1 DEF Crash, TypeOK, InFlight
<1>11. CASE Restart
  BY <1>11 DEF Restart, TypeOK
<1>12. CASE UNCHANGED vars
  BY <1>12 DEF vars, TypeOK
<1> QED
  BY <1>2, <1>3, <1>4, <1>5, <1>6, <1>7, <1>8, <1>9, <1>10, <1>11, <1>12 DEF Next, Handler

-----------------------------------------------------------------------------
\* Only a refused call is refused, and it has not completed.
LEMMA StatusFacts ==
  ASSUME NEW c \in Calls
  PROVE  /\ Succeeded(c) => ~Refused(c)
         /\ Completed(c) => ~Refused(c)
BY DEF Succeeded, Refused, Completed

\* Answering a call with a refusal keeps IInv, when the call has not touched
\* the store or the cache and a conflict has its reason.
LEMMA RefuseStep ==
  ASSUME IInv, NEW c \in Calls, NEW status \in {400, 409, 500}, Settle(c, status, c),
         UNCHANGED <<req, up, cache, stored, lives>>, pc[c] \in {"new", "work"}, TypeOK',
         leftover' = leftover \/ (leftover' = leftover \cup {c} /\ status = 500 /\ req[c].endpoint = "decide"),
         up, life'[c] = lives,
         \A d \in Calls : d # c => life'[d] = life[d],
         status = 409 => \E d \in Calls : /\ SameSlot(c, d) /\ Valid(d) /\ Hash(d) # Hash(c)
                                          /\ life[d] = life'[c] /\ Completed(d)
  PROVE  IInv'
<1>0. TypeOK /\ Provenance /\ Leftovers /\ DecisionHasReceipt /\ AnswersItsQuestion
      /\ RefusalIsContained /\ ConflictJustified
  BY DEF IInv
<1>1. /\ pc'[c] = "respond" /\ answer'[c] # NoAnswer
      /\ answer'[c].status = status /\ status # 200
      /\ \A d \in Calls : d # c => pc'[d] = pc[d] /\ answer'[d] = answer[d]
  BY <1>0, SettleFacts
<1>2. c \notin stored /\ ~Completed(c) /\ ~Succeeded(c)' /\ Refused(c)'
  BY <1>0, <1>1 DEF Provenance, Completed, Succeeded, Refused
<1>3. \A d \in Calls : d # c =>
        /\ Succeeded(d)' <=> Succeeded(d)
        /\ Refused(d)' <=> Refused(d)
        /\ Completed(d)' <=> Completed(d)
  BY <1>1 DEF Succeeded, Refused, Completed
<1>4. \A d, b \in Calls : /\ (Valid(d))' <=> Valid(d)
                          /\ Hash(d)' = Hash(d)
                          /\ (SameSlot(d, b))' <=> SameSlot(d, b)
  BY DEF Valid, Hash, SameSlot, Keyed
<1>5. \A e \in Endpoints, k \in Keys : cache[e][k] # c
  BY <1>0, <1>2 DEF Provenance, Cacheable
<1>6. \A d \in Calls : Succeeded(d) => answer[d].by # c /\ answer[d].by \in Calls
  <2>1. \A d \in Calls : Succeeded(d) => answer[d] \in Answers
    BY <1>0 DEF TypeOK, Succeeded
  <2> QED
    BY <1>0, <1>2, <2>1 DEF Provenance, Answers
<1>8. Provenance'
  <2>1. \A e \in Endpoints, k \in Keys : \A d \in Calls :
          cache'[e][k] = d => Cacheable(d, e, k)'
    BY <1>0, <1>3, <1>4, <1>5 DEF Provenance, Cacheable
  <2>2. \A d, b \in Calls : Succeeded(d)' /\ answer'[d].by = b => Completed(b)'
    BY <1>0, <1>1, <1>2, <1>3, <1>6 DEF Provenance
  <2>3. \A d \in Calls : /\ pc'[d] \in {"work", "saved"} => Valid(d)
                         /\ pc'[d] \in {"new", "work"} => d \notin stored
                         /\ pc'[d] = "saved" => d \in stored
                         /\ InFlight(d)' => up /\ life'[d] = lives
    BY <1>0, <1>1 DEF Provenance, InFlight
  <2> QED
    BY <1>0, <1>4, <2>1, <2>2, <2>3 DEF Provenance
<1>9. DecisionHasReceipt'
  BY <1>0, <1>1, <1>2, <1>3 DEF DecisionHasReceipt
<1>10. AnswersItsQuestion'
  BY <1>0, <1>1, <1>2, <1>3, <1>4, <1>6 DEF AnswersItsQuestion
<1>7. Leftovers'
  <2>1. \A d \in leftover : d \in Calls /\ d # c /\ pc'[d] = pc[d] /\ answer'[d] = answer[d]
    BY <1>0, <1>1 DEF TypeOK, Leftovers
  <2>2. stored' = stored /\ req' = req
    OBVIOUS
  <2>3. \A d \in leftover : /\ d \notin stored' /\ req'[d].endpoint = "decide" /\ pc'[d] \in {"respond", "done"}
                            /\ answer'[d] # NoAnswer => answer'[d].status = 500
    BY <1>0, <2>1, <2>2 DEF Leftovers
  <2>4. status = 500 /\ req[c].endpoint = "decide" =>
          /\ c \notin stored' /\ req'[c].endpoint = "decide" /\ pc'[c] \in {"respond", "done"}
          /\ answer'[c] # NoAnswer => answer'[c].status = 500
    BY <1>1, <1>2, <2>2
  <2> SUFFICES ASSUME NEW d \in leftover'
               PROVE  /\ d \notin stored' /\ req'[d].endpoint = "decide" /\ pc'[d] \in {"respond", "done"}
                      /\ answer'[d] # NoAnswer => answer'[d].status = 500
    BY DEF Leftovers
  <2>5. d \in leftover \/ (d = c /\ status = 500 /\ req[c].endpoint = "decide")
    OBVIOUS
  <2>6. CASE d \in leftover
    BY <2>3, <2>6
  <2>7. CASE d = c /\ status = 500 /\ req[c].endpoint = "decide"
    BY <2>4, <2>7
  <2> QED
    BY <2>5, <2>6, <2>7
<1>11. RefusalIsContained'
  <2>1. \A d \in Calls : Refused(d)' => d \notin stored
    BY <1>0, <1>2, <1>3 DEF RefusalIsContained
  <2>2. \A d \in Calls : Refused(d)' /\ d \in leftover' => answer'[d].status = 500 /\ req'[d].endpoint = "decide"
    BY <1>7 DEF Leftovers, Refused
  <2>3. \A d \in Calls : Refused(d)' => \A b \in Calls : Succeeded(b)' => answer'[b].by # d
    BY <1>0, <1>1, <1>2, <1>3, <1>6 DEF RefusalIsContained
  <2>4. \A d \in Calls : Refused(d)' => \A e \in Endpoints, k \in Keys : cache[e][k] # d
    BY <1>0, <1>3, <1>5 DEF RefusalIsContained
  <2> QED
    BY <2>1, <2>2, <2>3, <2>4 DEF RefusalIsContained
<1>12. ConflictJustified'
  <2>1. ASSUME NEW d \in Calls, answer'[d] # NoAnswer, answer'[d].status = 409
        PROVE  \E b \in Calls : /\ SameSlot(d, b) /\ Valid(b) /\ Hash(b) # Hash(d)
                                /\ life[b] = life'[d] /\ Completed(b)
    BY <1>0, <1>1, <2>1 DEF ConflictJustified
  <2> QED
    BY <1>2, <1>3, <1>4, <2>1 DEF ConflictJustified
<1> QED
  BY <1>7, <1>8, <1>9, <1>10, <1>11, <1>12 DEF IInv

\* Answering a call with a success keeps IInv, when the answer is its own work
\* or a cached one for the same question, and only its own work is cached.
LEMMA SucceedStep ==
  ASSUME IInv, NEW c \in Calls, NEW by \in Calls, Settle(c, 200, by), TypeOK',
         UNCHANGED <<req, up, stored, leftover, lives>>, pc[c] \in {"new", "work", "saved"},
         up, life'[c] = lives, \A d \in Calls : d # c => life'[d] = life[d],
         Valid(c), Hash(by) = Hash(c), req[by].endpoint = req[c].endpoint,
         req[c].endpoint = "decide" => by \in stored,
         by # c => SameSlot(c, by) /\ Completed(by) /\ c \notin stored,
         \A e \in Endpoints, k \in Keys :
            \/ cache'[e][k] = cache[e][k]
            \/ cache'[e][k] = c /\ by = c /\ req[c].endpoint = e /\ req[c].key = k
  PROVE  IInv'
<1>0. TypeOK /\ Provenance /\ Leftovers /\ DecisionHasReceipt /\ AnswersItsQuestion
      /\ RefusalIsContained /\ ConflictJustified
  BY DEF IInv
<1>1. /\ pc'[c] = "respond" /\ answer'[c] # NoAnswer
      /\ answer'[c].status = 200 /\ answer'[c].by = by
      /\ \A d \in Calls : d # c => pc'[d] = pc[d] /\ answer'[d] = answer[d]
  BY <1>0, SettleFacts
<1>2. ~Completed(c) /\ Succeeded(c)' /\ ~Refused(c)' /\ Completed(c)' /\ ~Refused(c)
  BY <1>0, <1>1 DEF TypeOK, Completed, Succeeded, Refused
<1>3. \A d \in Calls : d # c =>
        /\ Succeeded(d)' <=> Succeeded(d)
        /\ Refused(d)' <=> Refused(d)
        /\ Completed(d)' <=> Completed(d)
  BY <1>1 DEF Succeeded, Refused, Completed
<1>4. \A d, b \in Calls : /\ (Valid(d))' <=> Valid(d)
                          /\ Hash(d)' = Hash(d)
                          /\ (SameSlot(d, b))' <=> SameSlot(d, b)
  BY DEF Valid, Hash, SameSlot, Keyed
<1>5. \A d \in Calls : Succeeded(d) => answer[d].by \in Calls
  <2>1. \A d \in Calls : Succeeded(d) => answer[d] \in Answers
    BY <1>0 DEF TypeOK, Succeeded
  <2> QED
    BY <2>1 DEF Answers
<1>7. \A d \in Calls : Completed(d) => Completed(d)'
  BY <1>2, <1>3
<1>8. Provenance'
  <2>1. \A e \in Endpoints, k \in Keys : \A d \in Calls :
          cache'[e][k] = d => Cacheable(d, e, k)'
    <3> SUFFICES ASSUME NEW e \in Endpoints, NEW k \in Keys, NEW d \in Calls, cache'[e][k] = d
                 PROVE  Cacheable(d, e, k)'
      OBVIOUS
    <3>1. CASE cache[e][k] = d
      <4>1. Cacheable(d, e, k)
        BY <1>0, <3>1 DEF Provenance
      <4> QED
        BY <1>2, <1>3, <1>4, <4>1 DEF Cacheable
    <3>2. CASE d = c /\ req[c].endpoint = e /\ req[c].key = k
      BY <1>2, <1>4, <3>2 DEF Cacheable
    <3> QED
      BY <3>1, <3>2
  <2>2. \A d, b \in Calls : Succeeded(d)' /\ answer'[d].by = b => Completed(b)'
    BY <1>0, <1>1, <1>2, <1>3, <1>7 DEF Provenance
  <2>3. \A d \in Calls : /\ pc'[d] \in {"work", "saved"} => Valid(d)
                         /\ pc'[d] \in {"new", "work"} => d \notin stored
                         /\ pc'[d] = "saved" => d \in stored
                         /\ InFlight(d)' => up /\ life'[d] = lives
    BY <1>0, <1>1 DEF Provenance, InFlight
  <2> QED
    BY <1>0, <1>4, <2>1, <2>2, <2>3 DEF Provenance
<1>9. DecisionHasReceipt'
  <2>1. \A d \in Calls : Succeeded(d)' /\ req[d].endpoint = "decide" => answer'[d].by \in stored
    BY <1>0, <1>1, <1>2, <1>3 DEF DecisionHasReceipt
  <2>2. "decide" \in Endpoints => \A k \in Keys : cache'["decide"][k] \in stored \cup {NoCall}
    BY <1>0 DEF DecisionHasReceipt
  <2> QED
    BY <2>1, <2>2 DEF DecisionHasReceipt
<1>10. AnswersItsQuestion'
  <2>1. \A d \in Calls : Succeeded(d)' =>
          LET b == answer'[d].by IN
          /\ req[b].endpoint = req[d].endpoint /\ Hash(b) = Hash(d) /\ Valid(d)
          /\ b # d => SameSlot(d, b)
    BY <1>0, <1>1, <1>2, <1>3 DEF AnswersItsQuestion
  <2> QED
    BY <1>4, <1>1, <1>3, <1>5, <2>1 DEF AnswersItsQuestion
<1>6. Leftovers'
  <2>1. \A d \in leftover : d \in Calls /\ d # c /\ pc'[d] = pc[d] /\ answer'[d] = answer[d]
    BY <1>0, <1>1, <1>2 DEF TypeOK, Leftovers, Provenance
  <2> QED
    BY <1>0, <2>1 DEF Leftovers
<1>11. RefusalIsContained'
  <2> SUFFICES ASSUME NEW d \in Calls, Refused(d)'
               PROVE  /\ d \notin stored
                      /\ d \in leftover' => answer'[d].status = 500 /\ req'[d].endpoint = "decide"
                      /\ \A b \in Calls : Succeeded(b)' => answer'[b].by # d
                      /\ \A e \in Endpoints, k \in Keys : cache'[e][k] # d
    BY DEF RefusalIsContained
  <2>1. d # c /\ Refused(d) /\ ~Completed(d)
    BY <1>2, <1>3 DEF Completed
  <2>2. d \in leftover' => answer'[d].status = 500 /\ req'[d].endpoint = "decide"
    BY <1>6 DEF Leftovers, Refused
  <2> QED
    BY <1>0, <1>1, <1>3, <2>1, <2>2 DEF RefusalIsContained
<1>12. ConflictJustified'
  <2>1. ASSUME NEW d \in Calls, answer'[d] # NoAnswer, answer'[d].status = 409
        PROVE  \E b \in Calls : /\ SameSlot(d, b) /\ Valid(b) /\ Hash(b) # Hash(d)
                                /\ life[b] = life[d] /\ Completed(b) /\ d # c
    BY <1>0, <1>1, <2>1 DEF ConflictJustified
  <2> QED
    BY <1>2, <1>7, <1>4, <2>1 DEF ConflictJustified
<1> QED
  BY <1>6, <1>8, <1>9, <1>10, <1>11, <1>12 DEF IInv

\* A step that changes neither questions, answers nor cache and loses no
\* receipt keeps IInv when the positions it leads to fit Provenance.
LEMMA QuietStep ==
  ASSUME IInv, TypeOK', UNCHANGED <<req, answer, cache>>,
         stored \subseteq stored', \A c \in Calls : Refused(c) => c \notin stored',
         leftover' = leftover, \A c \in leftover : c \notin stored',
         lives' = lives \/ \A e \in Endpoints, k \in Keys : cache[e][k] \notin Calls,
         \A c \in Calls : pc[c] \in {"respond", "done"} => pc'[c] \in {"respond", "done"}
                          /\ life'[c] = life[c],
         \A c \in Calls : pc'[c] \in {"work", "saved"} => Valid(c),
         \A c \in Calls : pc'[c] \in {"new", "work"} => c \notin stored',
         \A c \in Calls : pc'[c] = "saved" => c \in stored',
         \A c \in Calls : InFlight(c)' => up' /\ life'[c] = lives',
         \A c \in Calls : answer[c] # NoAnswer => pc[c] \in {"respond", "done"},
         ~up' => ~up
  PROVE  IInv'
<1>0. TypeOK /\ Provenance /\ Leftovers /\ DecisionHasReceipt /\ AnswersItsQuestion
      /\ RefusalIsContained /\ ConflictJustified
  BY DEF IInv
<1>1. \A d \in Calls : (Succeeded(d)' <=> Succeeded(d)) /\ (Refused(d)' <=> Refused(d))
  BY DEF Succeeded, Refused
<1>2. \A d \in Calls : Completed(d) => Completed(d)'
  BY <1>1 DEF Completed
<1>3. \A d, b \in Calls : /\ (Valid(d))' <=> Valid(d)
                          /\ Hash(d)' = Hash(d)
                          /\ (SameSlot(d, b))' <=> SameSlot(d, b)
  BY DEF Valid, Hash, SameSlot, Keyed
<1>4. Provenance'
  <2>1. \A e \in Endpoints, k \in Keys : \A d \in Calls : cache[e][k] = d => Cacheable(d, e, k)'
    BY <1>0, <1>2, <1>3 DEF Provenance, Cacheable, Completed
  <2> QED
    BY <1>0, <1>1, <1>2, <1>3, <2>1 DEF Provenance
<1>5. DecisionHasReceipt'
  BY <1>0, <1>1 DEF DecisionHasReceipt
<1>6. AnswersItsQuestion'
  <2>1. \A d \in Calls : Succeeded(d) => answer[d].by \in Calls
    <3>1. \A d \in Calls : Succeeded(d) => answer[d] \in Answers
      BY <1>0 DEF TypeOK, Succeeded
    <3> QED
      BY <3>1 DEF Answers
  <2> QED
    BY <1>0, <1>1, <1>3, <2>1 DEF AnswersItsQuestion
<1>9. Leftovers'
  <2>1. leftover \subseteq Calls
    BY <1>0 DEF TypeOK
  <2> QED
    BY <1>0, <2>1 DEF Leftovers
<1>7. RefusalIsContained'
  BY <1>0, <1>1 DEF RefusalIsContained
<1>8. ConflictJustified'
  <2>1. \A d \in Calls : Completed(d) => life'[d] = life[d]
    BY DEF Completed
  <2>2. \A d \in Calls : answer[d] # NoAnswer => life'[d] = life[d]
    OBVIOUS
  <2> QED
    BY <1>0, <1>2, <1>3, <2>1, <2>2 DEF ConflictJustified
<1> QED
  BY <1>0, <1>4, <1>5, <1>6, <1>7, <1>8, <1>9 DEF IInv

\* A crash keeps IInv: what it cuts off is neither answered nor cached.
LEMMA CrashStep == ASSUME IInv, TypeOK', Crash PROVE IInv'
<1>0. TypeOK /\ Provenance /\ Leftovers /\ DecisionHasReceipt /\ AnswersItsQuestion
      /\ RefusalIsContained /\ ConflictJustified
  BY DEF IInv
<1>1. /\ UNCHANGED <<req, stored, life, lives>>
      /\ \A d \in Calls : pc'[d] = (IF InFlight(d) THEN "done" ELSE pc[d])
      /\ \A d \in Calls : answer'[d] = (IF InFlight(d) THEN NoAnswer ELSE answer[d])
      /\ \A e \in Endpoints, k \in Keys : cache'[e][k] = NoCall
  BY DEF Crash
<1>2. \A d \in Calls : ~InFlight(d)' /\ pc'[d] \in {"new", "done"}
  BY <1>1 DEF InFlight
<1>3. \A d \in Calls : /\ answer'[d] # NoAnswer => answer'[d] = answer[d]
                       /\ Succeeded(d)' => Succeeded(d) /\ answer'[d] = answer[d]
                       /\ Refused(d)' => Refused(d)
                       /\ Completed(d) => Completed(d)'
  <2>1. \A d \in Calls : answer'[d] # NoAnswer => answer'[d] = answer[d]
    BY <1>1
  <2>2. \A d \in Calls : Succeeded(d)' => Succeeded(d) /\ answer'[d] = answer[d]
    BY <2>1 DEF Succeeded
  <2>3. \A d \in Calls : Refused(d)' => Refused(d)
    BY <2>1 DEF Refused
  <2>4. \A d \in Calls : Completed(d) => pc'[d] = "done" /\ ~Refused(d)'
    BY <1>1, <2>3 DEF Completed, InFlight
  <2> QED
    BY <2>1, <2>2, <2>3, <2>4 DEF Completed
<1>4. \A d, b \in Calls : /\ (Valid(d))' <=> Valid(d)
                          /\ Hash(d)' = Hash(d)
                          /\ (SameSlot(d, b))' <=> SameSlot(d, b)
  BY <1>1 DEF Valid, Hash, SameSlot, Keyed
<1>5. \A d \in Calls : Succeeded(d) => answer[d].by \in Calls
  <2>1. \A d \in Calls : Succeeded(d) => answer[d] \in Answers
    BY <1>0 DEF TypeOK, Succeeded
  <2> QED
    BY <2>1 DEF Answers
<1>6. Provenance'
  <2>1. \A d \in Calls : pc'[d] = "new" => d \notin stored
    BY <1>0, <1>1 DEF Provenance
  <2> QED
    BY <1>0, <1>1, <1>2, <1>3, <2>1, CallsAssumption DEF Provenance
<1>7. DecisionHasReceipt'
  BY <1>0, <1>1, <1>3 DEF DecisionHasReceipt
<1>8. AnswersItsQuestion'
  BY <1>0, <1>1, <1>3, <1>4, <1>5 DEF AnswersItsQuestion
<1>11. Leftovers'
  <2> SUFFICES ASSUME NEW d \in leftover'
               PROVE  /\ d \notin stored' /\ req'[d].endpoint = "decide" /\ pc'[d] \in {"respond", "done"}
                      /\ answer'[d] # NoAnswer => answer'[d].status = 500
    BY DEF Leftovers
  <2>1. d \in leftover \cup Saving /\ d \in Calls
    BY <1>0 DEF Crash, Saving, TypeOK
  <2>2. CASE d \in leftover
    BY <1>0, <1>1, <1>3, <2>1, <2>2 DEF Leftovers, InFlight
  <2>3. CASE d \in Saving
    BY <1>0, <1>1, <2>1, <2>3 DEF Saving, Provenance, InFlight
  <2> QED
    BY <2>1, <2>2, <2>3
<1>9. RefusalIsContained'
  <2>1. \A d \in Calls : Refused(d)' /\ d \in leftover' => answer'[d].status = 500 /\ req'[d].endpoint = "decide"
    BY <1>11 DEF Leftovers, Refused
  <2> QED
    BY <1>0, <1>1, <1>3, <2>1, CallsAssumption DEF RefusalIsContained
<1>10. ConflictJustified'
  <2>1. ASSUME NEW c \in Calls, answer'[c] # NoAnswer, answer'[c].status = 409
        PROVE  \E d \in Calls : /\ SameSlot(c, d) /\ Valid(d) /\ Hash(d) # Hash(c)
                                /\ life[d] = life[c] /\ Completed(d)
    BY <1>0, <1>3, <2>1 DEF ConflictJustified
  <2> QED
    BY <1>1, <1>3, <1>4, <2>1 DEF ConflictJustified
<1> QED
  BY <1>6, <1>7, <1>8, <1>9, <1>10, <1>11 DEF IInv

\* Every step of the server keeps IInv.
LEMMA EndpointsStep == ASSUME IInv, [Next]_vars PROVE IInv'
<1> USE CallsAssumption, BoundsAssumption
<1>0. TypeOK /\ Provenance /\ DecisionHasReceipt /\ AnswersItsQuestion /\ TypeOK'
  BY TypeStep DEF IInv
<1>a. \A c \in Calls : answer[c] # NoAnswer => pc[c] \in {"respond", "done"}
  BY <1>0 DEF TypeOK
<1>d. (\A c \in Calls : Refused(c) => c \notin stored) /\ (\A c \in leftover : c \notin stored)
  BY DEF IInv, RefusalIsContained, Leftovers
<1>b. ASSUME NEW c \in Calls, Arrives(c)
      PROVE /\ up /\ pc[c] = "new" /\ life'[c] = lives
            /\ \A d \in Calls : d # c => life'[d] = life[d]
  BY <1>0, <1>b DEF Arrives, TypeOK
<1>c. ASSUME NEW c \in Calls, Valid(c), Keyed(c), Entry(c) # NoCall
      PROVE  /\ Entry(c) \in Calls /\ Completed(Entry(c)) /\ SameSlot(c, Entry(c))
             /\ Valid(Entry(c)) /\ life[Entry(c)] = lives
             /\ req[c].endpoint = "decide" => Entry(c) \in stored
  <2>1. req[c].endpoint \in Endpoints /\ req[c].key \in Keys /\ Entry(c) \in Calls
    BY <1>0, <1>c, EntryType
  <2>2. Cacheable(Entry(c), req[c].endpoint, req[c].key)
    BY <1>0, <2>1 DEF Provenance, Entry
  <2>3. req[c].endpoint = "decide" => Entry(c) \in stored
    BY <1>0, <1>c, <2>1 DEF DecisionHasReceipt, Entry
  <2> QED
    BY <1>c, <2>1, <2>2, <2>3 DEF Cacheable, SameSlot
<1>1. ASSUME NEW c \in Calls, Reject(c) PROVE IInv'
  <2>1. Settle(c, 400, c) /\ 400 \in {400, 409, 500} /\ 400 # 409
    BY <1>1 DEF Reject
  <2> QED
    BY <1>0, <1>1, <1>b, <2>1, RefuseStep DEF Reject
<1>2. ASSUME NEW c \in Calls, Miss(c) PROVE IInv'
  <2>1. \A d \in Calls : pc'[d] = IF d = c THEN "work" ELSE pc[d]
    BY <1>0, <1>2 DEF Miss, TypeOK
  <2>2. \A d \in Calls : InFlight(d)' => up' /\ life'[d] = lives
    BY <1>0, <1>2, <1>b, <2>1 DEF Miss, Provenance, InFlight
  <2>3. UNCHANGED <<req, up, answer, stored, leftover, lives, cache>> /\ Valid(c)
    BY <1>2 DEF Miss
  <2>4. pc[c] = "new" /\ c \notin stored /\ \A d \in Calls : d # c => life'[d] = life[d]
    BY <1>0, <1>2, <1>b DEF Miss, Provenance
  <2> QED
    BY <1>0, <1>a, <1>d, <2>1, <2>2, <2>3, <2>4, QuietStep DEF Provenance
<1>3. ASSUME NEW c \in Calls, Replay(c) PROVE IInv'
  <2>1. /\ Valid(c) /\ Keyed(c) /\ Entry(c) # NoCall /\ Hash(Entry(c)) = Hash(c)
        /\ Settle(c, 200, Entry(c)) /\ Arrives(c)
        /\ UNCHANGED <<req, up, cache, stored, leftover, lives>>
    BY <1>3 DEF Replay
  <2>2. req[Entry(c)].endpoint = req[c].endpoint /\ c \notin stored
    BY <1>0, <1>b, <1>c, <2>1 DEF SameSlot, Provenance
  <2> QED
    BY <1>0, <1>b, <1>c, <2>1, <2>2, SucceedStep
<1>4. ASSUME NEW c \in Calls, Conflict(c) PROVE IInv'
  <2>1. /\ Valid(c) /\ Keyed(c) /\ Entry(c) # NoCall /\ Hash(Entry(c)) # Hash(c)
        /\ Settle(c, 409, c) /\ Arrives(c)
        /\ UNCHANGED <<req, up, cache, stored, leftover, lives>>
    BY <1>4 DEF Conflict
  <2>2. \E d \in Calls : /\ SameSlot(c, d) /\ Valid(d) /\ Hash(d) # Hash(c)
                         /\ life[d] = life'[c] /\ Completed(d)
    BY <1>b, <1>c, <2>1
  <2> QED
    BY <1>0, <1>b, <2>1, <2>2, RefuseStep
<1>5. ASSUME NEW c \in Calls, SaveReceipt(c) PROVE IInv'
  <2>1. \A d \in Calls : pc'[d] = IF d = c THEN "saved" ELSE pc[d]
    BY <1>0, <1>5 DEF SaveReceipt, TypeOK
  <2>2. /\ UNCHANGED <<req, up, answer, leftover, lives, life, cache>> /\ pc[c] = "work"
        /\ stored' = stored \cup {c}
    BY <1>5 DEF SaveReceipt
  <2>3. \A d \in Calls : InFlight(d)' => up' /\ life'[d] = lives
    BY <1>0, <2>1, <2>2 DEF Provenance, InFlight
  <2>4. (\A d \in Calls : Refused(d) => d # c) /\ c \notin leftover
    BY <1>a, <2>2 DEF Refused, IInv, Leftovers
  <2> QED
    BY <1>0, <1>a, <1>d, <2>1, <2>2, <2>3, <2>4, QuietStep DEF Provenance
<1>6. ASSUME NEW c \in Calls, SaveFails(c) PROVE IInv'
  <2>1. Settle(c, 500, c) /\ 500 \in {400, 409, 500} /\ 500 # 409
    BY <1>6 DEF SaveFails
  <2>2. up /\ life[c] = lives
    BY <1>0, <1>6 DEF SaveFails, Provenance, InFlight
  <2> QED
    BY <1>0, <1>6, <2>1, <2>2, RefuseStep DEF SaveFails
<1>7. ASSUME NEW c \in Calls, Finish(c) PROVE IInv'
  <2>1. Settle(c, 200, c) /\ UNCHANGED <<req, up, stored, leftover, lives, life>>
    BY <1>7 DEF Finish
  <2>2. pc[c] \in {"work", "saved"} /\ (req[c].endpoint = "decide" => c \in stored)
    BY <1>0, <1>7 DEF Finish, Computed, Provenance
  <2>3. Valid(c) /\ up /\ life[c] = lives
    BY <1>0, <2>2 DEF Provenance, InFlight
  <2>4. \A e \in Endpoints, k \in Keys :
            \/ cache'[e][k] = cache[e][k]
            \/ cache'[e][k] = c /\ req[c].endpoint = e /\ req[c].key = k
    BY <1>0, <1>7 DEF Finish, TypeOK
  <2> QED
    BY <1>0, <2>1, <2>2, <2>3, <2>4, SucceedStep
<1>8. ASSUME NEW c \in Calls, Respond(c) PROVE IInv'
  <2>1. \A d \in Calls : pc'[d] = IF d = c THEN "done" ELSE pc[d]
    BY <1>0, <1>8 DEF Respond, TypeOK
  <2>2. UNCHANGED <<req, up, answer, stored, leftover, lives, life, cache>> /\ pc[c] = "respond"
    BY <1>8 DEF Respond
  <2>3. \A d \in Calls : InFlight(d)' => up' /\ life'[d] = lives
    BY <1>0, <2>1, <2>2 DEF Provenance, InFlight
  <2> QED
    BY <1>0, <1>a, <1>d, <2>1, <2>2, <2>3, QuietStep DEF Provenance
<1>9. CASE Crash
  BY <1>0, <1>9, CrashStep
<1>10. CASE Restart
  <2>1. ~up /\ up' /\ UNCHANGED <<req, pc, answer, cache, stored, leftover, life>>
    BY <1>10 DEF Restart
  <2>2. \A e \in Endpoints, k \in Keys : cache[e][k] \notin Calls
    BY <1>0, <2>1 DEF Provenance
  <2>3. \A d \in Calls : ~InFlight(d)'
    BY <1>0, <2>1 DEF Provenance, InFlight
  <2> QED
    BY <1>0, <1>a, <1>d, <2>1, <2>2, <2>3, QuietStep DEF Provenance
<1>11. CASE UNCHANGED vars
  <2>1. UNCHANGED <<req, up, pc, answer, cache, stored, leftover, life, lives>>
    BY <1>11 DEF vars
  <2>2. \A d \in Calls : InFlight(d)' => up' /\ life'[d] = lives
    BY <1>0, <2>1 DEF Provenance, InFlight
  <2> QED
    BY <1>0, <1>a, <1>d, <2>1, <2>2, QuietStep DEF Provenance
<1> QED
  BY <1>1, <1>2, <1>3, <1>4, <1>5, <1>6, <1>7, <1>8, <1>9, <1>10, <1>11 DEF Next, Handler

LEMMA EndpointsInvariant == Spec => []IInv
<1>1. Init => IInv
  <2>1. Init => TypeOK
    BY BoundsAssumption DEF Init, TypeOK
  <2>2. Init => \A c \in Calls : ~Succeeded(c) /\ ~Refused(c) /\ ~InFlight(c)
    BY DEF Init, Succeeded, Refused, InFlight
  <2>3. Init => Provenance
    BY <2>2, CallsAssumption DEF Init, Provenance
  <2>4. Init => RefusalIsContained /\ AnswersItsQuestion /\ ConflictJustified
    BY <2>2 DEF Init, RefusalIsContained, AnswersItsQuestion, ConflictJustified
  <2>5. Init => DecisionHasReceipt
    BY <2>2 DEF Init, DecisionHasReceipt
  <2>6. Init => Leftovers
    BY DEF Init, Leftovers
  <2> QED
    BY <2>1, <2>3, <2>4, <2>5, <2>6 DEF IInv
<1>2. IInv /\ [Next]_vars => IInv'
  BY EndpointsStep
<1> QED
  BY <1>1, <1>2, PTL DEF Spec

\* Handlers never go on after their answer, and the state stays well typed.
THEOREM EndpointsTypeCorrect == Spec => []TypeOK
BY EndpointsInvariant, PTL DEF IInv

\* Whatever calls race, crash or retry, a decision that is answered or cached
\* names a receipt that was saved before.
THEOREM DecisionsAreRecorded == Spec => []DecisionHasReceipt
BY EndpointsInvariant, PTL DEF IInv

\* Whatever calls race under one key, a success answers the payload it was
\* asked with.
THEOREM AnswersMatchQuestions == Spec => []AnswersItsQuestion
BY EndpointsInvariant, PTL DEF IInv

\* Whatever calls race, fail and are cut off, a refused call has no acknowledged
\* receipt, no cache entry and no replayed answer, and a receipt in the file only
\* if it is a decide call whose Save failed.
THEOREM RefusalsAreClean == Spec => []RefusalIsContained
BY EndpointsInvariant, PTL DEF IInv

\* A 409 has a completed call with another payload behind it.
THEOREM ConflictsAreJustified == Spec => []ConflictJustified
BY EndpointsInvariant, PTL DEF IInv
-----------------------------------------------------------------------------
(* Second receipts.  A call that works under a key and one that saved a    *)
(* receipt of it in the same life have met, or the receipt is cached; so a *)
(* second one is saved only by a call that met the first.                  *)

Engaged(c) == c \in stored \/ pc[c] \in {"work", "saved"}

Overlapped(c, d) == d \in met[c] \/ c \in met[d]

Overlaps ==
  /\ \A c \in Calls : life[c] <= lives
  /\ \A c \in stored : up /\ life[c] = lives /\ Keyed(c) => pc[c] = "saved" \/ Entry(c) # NoCall
  /\ \A c, d \in Calls : /\ SameSlot(c, d) /\ c # d /\ life[c] = life[d]
                         /\ Engaged(c) /\ Engaged(d)
                         => Overlapped(c, d)

\* What holds of the questions does so for ever.
LEMMA QuestionsStay ==
  ASSUME UNCHANGED req
  PROVE  \A c, d \in Calls : ((SameSlot(c, d))' <=> SameSlot(c, d))
                               /\ ((Keyed(c))' <=> Keyed(c)) /\ Hash(c)' = Hash(c)
BY DEF SameSlot, Keyed, Hash

\* A step of one handler, as the others see it.
LEMMA HandlerFacts ==
  ASSUME TypeOK, NEW c \in Calls, Handler(c)
  PROVE  /\ UNCHANGED <<req, up, lives>> /\ pc' \in [Calls -> {"new", "work", "saved", "respond", "done"}]
         /\ \A d \in Calls : d # c => pc'[d] = pc[d] /\ life'[d] = life[d]
         /\ life'[c] = IF pc[c] = "new" THEN lives ELSE life[c]
         /\ pc[c] # "done"
         /\ pc'[c] \in {"work", "saved"} =>
              (Miss(c) /\ pc'[c] = "work") \/ (SaveReceipt(c) /\ pc'[c] = "saved")
         /\ pc[c] = "new" => Arrives(c)
         /\ pc[c] = "saved" => Finish(c)
         /\ stored' = stored \/ (SaveReceipt(c) /\ stored' = stored \cup {c})
         /\ cache' = cache \/ Finish(c)
         /\ pc[c] # "new" => met' = met
         /\ \A d \in Calls : d # c => met'[d] = met[d]
<1>0. pc \in [Calls -> {"new", "work", "saved", "respond", "done"}] /\ life \in [Calls -> 0..MaxRestarts]
      /\ met \in [Calls -> SUBSET Calls]
  BY DEF TypeOK
<1>a. ASSUME Arrives(c) PROVE pc[c] = "new" /\ life' = [life EXCEPT ![c] = lives]
  BY <1>a DEF Arrives
<1>1. CASE Reject(c) \/ Replay(c) \/ Conflict(c)
  <2>1. Arrives(c) /\ UNCHANGED <<req, up, cache, stored, lives, met>> /\ pc' = [pc EXCEPT ![c] = "respond"]
    BY <1>1 DEF Reject, Replay, Conflict, Settle
  <2> QED
    BY <1>0, <1>a, <2>1
<1>2. CASE Miss(c)
  <2>1. Arrives(c) /\ UNCHANGED <<req, up, cache, stored, lives>> /\ pc' = [pc EXCEPT ![c] = "work"]
    BY <1>2 DEF Miss
  <2>2. \A d \in Calls : d # c => met'[d] = met[d]
    BY <1>0, <1>2 DEF Miss
  <2> QED
    BY <1>0, <1>2, <1>a, <2>1, <2>2
<1>3. CASE SaveReceipt(c)
  <2>1. pc[c] = "work" /\ stored' = stored \cup {c} /\ UNCHANGED <<req, up, cache, life, lives, met>>
        /\ pc' = [pc EXCEPT ![c] = "saved"]
    BY <1>3 DEF SaveReceipt
  <2> QED
    BY <1>0, <1>3, <2>1
<1>4. CASE SaveFails(c) \/ Respond(c)
  <2>1. pc[c] \in {"work", "respond"} /\ UNCHANGED <<req, up, cache, stored, life, lives, met>>
        /\ \E to \in {"respond", "done"} : pc' = [pc EXCEPT ![c] = to]
    BY <1>4 DEF SaveFails, Respond, Settle
  <2> QED
    BY <1>0, <2>1
<1>5. CASE Finish(c)
  <2>1. pc[c] \in {"work", "saved"} /\ UNCHANGED <<req, up, stored, life, lives, met>>
        /\ pc' = [pc EXCEPT ![c] = "respond"]
    BY <1>5 DEF Finish, Settle, Computed
  <2> QED
    BY <1>0, <1>5, <2>1
<1> QED
  BY <1>1, <1>2, <1>3, <1>4, <1>5 DEF Handler

\* What a handler writes into the cache.
LEMMA FinishEntries ==
  ASSUME TypeOK, NEW c \in Calls, Finish(c)
  PROVE  /\ ~Keyed(c) => cache' = cache
         /\ \A e \in Endpoints, k \in Keys :
              cache'[e][k] = IF Keyed(c) /\ req[c].endpoint = e /\ req[c].key = k THEN c ELSE cache[e][k]
<1>1. cache' = IF Keyed(c) THEN [cache EXCEPT ![req[c].endpoint][req[c].key] = c] ELSE cache
  BY DEF Finish
<1>2. Keyed(c) => req[c].endpoint \in Endpoints /\ req[c].key \in Keys
  BY EntryType
<1>3. cache \in [Endpoints -> [Keys -> Calls \cup {NoCall}]]
  BY DEF TypeOK
<1> QED
  BY <1>1, <1>2, <1>3

\* Calls of one slot read one entry.
LEMMA SlotMates ==
  \A a, b \in Calls : SameSlot(a, b) => SameSlot(b, a) /\ Keyed(b) /\ Keyed(a) /\ Entry(a) = Entry(b)
BY DEF SameSlot, Keyed, Entry

\* What a step of a handler makes of the entries that calls read.
LEMMA EntryStep ==
  ASSUME TypeOK, NEW c \in Calls, Handler(c), NEW d \in Calls, Keyed(d)
  PROVE  Entry(d)' = IF Finish(c) /\ SameSlot(c, d) THEN c ELSE Entry(d)
<1>1. UNCHANGED req /\ (cache' = cache \/ Finish(c))
  BY HandlerFacts
<1>2. req[d].endpoint \in Endpoints /\ req[d].key \in Keys
  BY EntryType
<1>3. Entry(d)' = cache'[req[d].endpoint][req[d].key]
  BY <1>1 DEF Entry
<1>4. CASE Finish(c)
  BY <1>2, <1>3, <1>4, FinishEntries DEF Entry, SameSlot
<1>5. CASE cache' = cache /\ ~Finish(c)
  BY <1>3, <1>5 DEF Entry
<1> QED
  BY <1>1, <1>4, <1>5

\* A call that misses has met every call of its slot that is at work, and no other
\* call of this life has saved a receipt of the slot.
LEMMA MissOverlaps ==
  ASSUME IInv, Overlaps, NEW c \in Calls, Miss(c), NEW d \in Calls, SameSlot(c, d), life[d] = lives, Engaged(d)
  PROVE  d \in met'[c]
<1>0. TypeOK /\ Provenance
  BY DEF IInv
<1>1. up /\ Keyed(c) /\ Entry(c) = NoCall /\ Entry(d) = NoCall /\ Keyed(d)
  BY SlotMates DEF Miss, Arrives
<1>2. pc[d] \in {"work", "saved"}
  BY <1>1 DEF Engaged, Overlaps
<1> QED
  BY <1>0, <1>2 DEF Miss, TypeOK

LEMMA OverlapsHandler ==
  ASSUME IInv, Overlaps, NEW c \in Calls, Handler(c)
  PROVE  Overlaps'
<1> USE BoundsAssumption, CallsAssumption
<1>0. TypeOK /\ Provenance /\ stored \subseteq Calls /\ lives \in Nat
  BY DEF IInv, TypeOK
<1>1. /\ UNCHANGED <<req, up, lives>>
      /\ \A d \in Calls : d # c => pc'[d] = pc[d] /\ life'[d] = life[d] /\ met'[d] = met[d]
      /\ life'[c] = IF pc[c] = "new" THEN lives ELSE life[c]
      /\ pc'[c] \in {"work", "saved"} =>
              (Miss(c) /\ pc'[c] = "work") \/ (SaveReceipt(c) /\ pc'[c] = "saved")
      /\ pc[c] = "new" => Arrives(c)
      /\ pc[c] = "saved" => Finish(c)
      /\ stored' = stored \/ (SaveReceipt(c) /\ stored' = stored \cup {c})
      /\ pc[c] # "new" => met' = met
  BY <1>0, HandlerFacts
<1>2. \A a, b \in Calls : ((SameSlot(a, b))' <=> SameSlot(a, b)) /\ ((Keyed(a))' <=> Keyed(a))
  BY <1>1, QuestionsStay
<1>8. \A d \in Calls : Keyed(d) => Entry(d)' = IF Finish(c) /\ SameSlot(c, d) THEN c ELSE Entry(d)
  BY <1>0, EntryStep
<1>10. \A d \in Calls : life'[d] <= lives
  BY <1>0, <1>1 DEF Overlaps
<1>11. ASSUME NEW d \in stored', up, life'[d] = lives, Keyed(d) PROVE pc'[d] = "saved" \/ Entry(d)' # NoCall
  <2>1. d \in Calls
    BY <1>0, <1>1
  <2>2. CASE d = c /\ d \notin stored
    <3>1. SaveReceipt(c)
      BY <1>1, <2>2
    <3> QED
      BY <1>0, <2>2, <3>1 DEF SaveReceipt, TypeOK
  <2>3. CASE d \in stored
    <3>1. pc[d] # "new"
      BY <1>0, <2>1, <2>3 DEF Provenance
    <3>2. life[d] = lives
      BY <1>1, <1>11, <2>1, <3>1
    <3>3. pc[d] = "saved" \/ Entry(d) # NoCall
      BY <1>11, <2>3, <3>2 DEF Overlaps
    <3>4. CASE d = c /\ pc[c] = "saved"
      <4>1. Finish(c) /\ SameSlot(c, c)
        BY <1>1, <1>11, <3>4 DEF SameSlot
      <4> QED
        BY <1>8, <1>11, <2>1, <3>4, <4>1
    <3>5. CASE Entry(d) # NoCall
      BY <1>8, <1>11, <2>1, <3>5
    <3>6. CASE d # c /\ pc[d] = "saved"
      BY <1>1, <2>1, <3>6
    <3> QED
      BY <3>3, <3>4, <3>5, <3>6
  <2> QED
    BY <1>1, <2>2, <2>3
<1>12. \A d \in Calls : Engaged(d)' => (Engaged(d) /\ pc[d] # "new") \/ (d = c /\ Miss(c) /\ stored' = stored)
  <2>1. ASSUME NEW d \in Calls, d # c, Engaged(d)' PROVE Engaged(d)
    BY <1>1, <2>1 DEF Engaged
  <2>2. SaveReceipt(c) => pc[c] = "work"
    BY DEF SaveReceipt
  <2>3. Miss(c) => stored' = stored
    BY DEF Miss
  <2>4. \A d \in Calls : Engaged(d) => pc[d] # "new"
    BY <1>0 DEF Engaged, Provenance
  <2>5. Engaged(c)' => Engaged(c) \/ Miss(c)
    BY <1>1, <2>2 DEF Engaged
  <2> QED
    BY <2>1, <2>3, <2>4, <2>5
<1>13. ASSUME NEW d \in Calls, SameSlot(c, d), d # c, Miss(c), life'[d] = life'[c], Engaged(d) PROVE d \in met'[c]
  <2>1. life[d] = lives
    BY <1>1, <1>13 DEF Miss, Arrives
  <2> QED
    BY <1>13, <2>1, MissOverlaps
<1>14. ASSUME NEW a \in Calls, NEW b \in Calls, SameSlot(a, b), a # b, life'[a] = life'[b], Engaged(a)', Engaged(b)'
       PROVE  Overlapped(a, b)'
  <2>1. CASE Engaged(a) /\ Engaged(b) /\ pc[a] # "new" /\ pc[b] # "new"
    <3>1. life[a] = life[b] /\ met'[a] = met[a] /\ met'[b] = met[b]
      BY <1>1, <1>14, <2>1
    <3> QED
      BY <1>14, <2>1, <3>1 DEF Overlaps, Overlapped
  <2>2. CASE a = c /\ Miss(c) /\ Engaged(b)
    BY <1>13, <1>14, <2>2 DEF Overlapped
  <2>3. CASE b = c /\ Miss(c) /\ Engaged(a)
    BY <1>13, <1>14, <2>3, SlotMates DEF Overlapped
  <2> QED
    BY <1>12, <1>14, <2>1, <2>2, <2>3
<1>15. stored' \subseteq Calls
  BY <1>0, <1>1
<1> QED
  BY <1>1, <1>2, <1>10, <1>11, <1>14, <1>15 DEF Overlaps

LEMMA OverlapsStep == ASSUME IInv, Overlaps, [Next]_vars PROVE Overlaps'
<1>0. TypeOK /\ Provenance /\ stored \subseteq Calls /\ lives \in Nat /\ \A c \in Calls : life[c] \in Nat
  BY BoundsAssumption DEF IInv, TypeOK
<1>1. ASSUME NEW c \in Calls, Handler(c) PROVE Overlaps'
  BY <1>1, OverlapsHandler
<1>2. CASE Crash
  <2>1. UNCHANGED <<req, stored, life, lives, met>> /\ ~up'
    BY <1>2 DEF Crash
  <2>2. \A c \in Calls : Engaged(c)' => Engaged(c)
    BY <1>0, <1>2, <2>1 DEF Crash, InFlight, TypeOK, Engaged
  <2> QED
    BY <1>0, <2>1, <2>2, QuestionsStay DEF Overlaps, Overlapped
<1>3. CASE Restart
  <2>1. UNCHANGED <<req, pc, cache, stored, life, met>> /\ lives' = lives + 1
    BY <1>3 DEF Restart
  <2>2. \A c \in Calls : life'[c] <= lives' /\ life'[c] # lives' /\ (Engaged(c)' <=> Engaged(c))
    BY <1>0, <2>1 DEF Overlaps, Engaged
  <2> QED
    BY <1>0, <2>1, <2>2, QuestionsStay DEF Overlaps, Overlapped
<1>4. CASE UNCHANGED vars
  <2>1. UNCHANGED <<req, up, pc, cache, stored, life, lives, met>>
    BY <1>4 DEF vars
  <2>2. \A c \in Calls : (Engaged(c)' <=> Engaged(c)) /\ Entry(c)' = Entry(c)
    BY <2>1 DEF Engaged, Entry
  <2> QED
    BY <1>0, <2>1, <2>2, QuestionsStay DEF Overlaps, Overlapped
<1> QED
  BY <1>1, <1>2, <1>3, <1>4 DEF Next

\* In any interleaving, with any failure of Save, a second receipt of a key comes
\* from a call that overlapped the first, or one of them was not acknowledged and
\* is the decision of nobody.
THEOREM SecondReceiptsAreExplained == Spec => []SecondReceiptHasACause
<1>1. Init => Overlaps
  BY CallsAssumption DEF Init, Overlaps, Engaged
<1>2. IInv /\ Overlaps /\ [Next]_vars => Overlaps'
  BY OverlapsStep
<1>3. ASSUME IInv, Overlaps PROVE SecondReceiptHasACause
  <2> SUFFICES ASSUME NEW c \in stored \cup leftover, NEW d \in stored \cup leftover,
                      SameSlot(c, d), life[c] = life[d], c # d
               PROVE  \/ d \in met[c] \/ c \in met[d]
                      \/ \E b \in {c, d} \cap leftover : \A a \in Calls : Succeeded(a) => answer[a].by # b
    BY DEF SecondReceiptHasACause
  <2>1. c \in Calls /\ d \in Calls
    BY <1>3 DEF IInv, TypeOK
  <2>2. CASE c \in stored /\ d \in stored
    BY <1>3, <2>1, <2>2 DEF Overlaps, Overlapped, Engaged
  <2>3. ASSUME NEW b \in leftover, NEW a \in Calls, Succeeded(a) PROVE answer[a].by # b
    <3>1. b \notin stored /\ req[b].endpoint = "decide"
      BY <1>3 DEF IInv, Leftovers
    <3>2. answer[a].by = b => req[a].endpoint = "decide"
      BY <1>3, <2>3, <3>1 DEF IInv, AnswersItsQuestion
    <3> QED
      BY <1>3, <2>3, <3>1, <3>2 DEF IInv, DecisionHasReceipt
  <2> QED
    BY <2>2, <2>3
<1> QED
  BY <1>1, <1>2, <1>3, EndpointsInvariant, PTL DEF Spec
-----------------------------------------------------------------------------
(* Clients that wait for an answer before they use a key again: then at    *)
(* most one handler works under a key, and only while the key is free.     *)

OneAtATime ==
  /\ \A c, d \in Calls : SameSlot(c, d) /\ InFlight(c) /\ InFlight(d) => c = d
  /\ \A c \in Calls : pc[c] \in {"work", "saved"} /\ Keyed(c) => Entry(c) = NoCall

Waiting == IInv /\ OneAtATime

LEMMA WaitingHandler ==
  ASSUME OverlapKeys = FALSE, Waiting, NEW c \in Calls, Handler(c)
  PROVE  OneAtATime'
<1> USE CallsAssumption
<1>0. TypeOK /\ OneAtATime
  BY DEF Waiting, IInv
<1>1. /\ UNCHANGED req
      /\ \A d \in Calls : d # c => pc'[d] = pc[d]
      /\ pc[c] # "done"
      /\ pc'[c] \in {"work", "saved"} =>
              (Miss(c) /\ pc'[c] = "work") \/ (SaveReceipt(c) /\ pc'[c] = "saved")
      /\ pc[c] = "new" => Arrives(c)
  BY <1>0, HandlerFacts
<1>2. \A a, b \in Calls : ((SameSlot(a, b))' <=> SameSlot(a, b)) /\ ((Keyed(a))' <=> Keyed(a))
  BY <1>1, QuestionsStay
<1>3. pc[c] = "new" => \A d \in Calls : SameSlot(c, d) => ~InFlight(d)
  BY <1>1 DEF Arrives
<1>4. \A d \in Calls : d # c => (InFlight(d)' <=> InFlight(d))
  BY <1>1 DEF InFlight
<1>6. \A d \in Calls : SameSlot(c, d) /\ InFlight(d) /\ d # c => ~InFlight(c)'
  BY <1>0, <1>1, <1>3 DEF OneAtATime, InFlight
<1>7. \A a, b \in Calls : SameSlot(a, b) /\ InFlight(a)' /\ InFlight(b)' => a = b
  BY <1>0, <1>4, <1>6, SlotMates DEF OneAtATime
<1>8. \A d \in Calls : Keyed(d) => Entry(d)' = IF Finish(c) /\ SameSlot(c, d) THEN c ELSE Entry(d)
  BY <1>0, EntryStep
<1>9. ASSUME NEW d \in Calls, pc'[d] \in {"work", "saved"}, Keyed(d) PROVE Entry(d)' = NoCall
  <2>1. CASE d = c
    <3>1. ~Finish(c)
      BY <1>9, <2>1 DEF Finish, Settle, TypeOK, Waiting, IInv
    <3>2. Entry(c) = NoCall
      BY <1>0, <1>1, <1>9, <2>1 DEF Miss, SaveReceipt, OneAtATime
    <3> QED
      BY <1>8, <1>9, <2>1, <3>1, <3>2
  <2>2. CASE d # c
    <3>1. pc[d] \in {"work", "saved"} /\ Entry(d) = NoCall /\ InFlight(d)
      BY <1>0, <1>1, <1>9, <2>2 DEF OneAtATime, InFlight
    <3>2. Finish(c) => InFlight(c)
      BY DEF Finish, Computed, InFlight
    <3>3. ~(Finish(c) /\ SameSlot(c, d))
      BY <1>0, <2>2, <3>1, <3>2 DEF OneAtATime
    <3> QED
      BY <1>8, <1>9, <3>1, <3>3
  <2> QED
    BY <2>1, <2>2
<1> QED
  BY <1>2, <1>7, <1>9 DEF OneAtATime

LEMMA WaitingStep ==
  ASSUME OverlapKeys = FALSE, Waiting, [Next]_vars
  PROVE  Waiting'
<1>0. IInv' /\ TypeOK /\ OneAtATime
  BY EndpointsStep DEF Waiting, IInv
<1>1. ASSUME NEW c \in Calls, Handler(c) PROVE OneAtATime'
  BY <1>1, WaitingHandler
<1>2. ASSUME Crash PROVE OneAtATime'
  <2>1. \A c \in Calls : pc'[c] \in {"new", "done"} /\ ~InFlight(c)'
    BY <1>0, <1>2 DEF Crash, InFlight, TypeOK
  <2> QED
    BY <2>1 DEF OneAtATime
<1>3. ASSUME Restart \/ UNCHANGED vars PROVE OneAtATime'
  <2>1. UNCHANGED <<req, pc, cache>>
    BY <1>3 DEF Restart, vars
  <2>2. \A c \in Calls : (InFlight(c)' <=> InFlight(c)) /\ Entry(c)' = Entry(c)
    BY <2>1 DEF InFlight, Entry
  <2> QED
    BY <1>0, <2>1, <2>2, QuestionsStay DEF OneAtATime
<1> QED
  BY <1>0, <1>1, <1>2, <1>3 DEF Next, Waiting

LEMMA WaitingHolds ==
  ASSUME OverlapKeys = FALSE
  PROVE  Spec => []Waiting
<1>1. Init => OneAtATime
  BY CallsAssumption DEF Init, OneAtATime, InFlight
<1>2. Waiting /\ [Next]_vars => Waiting'
  BY WaitingStep
<1>3. Waiting <=> IInv /\ OneAtATime
  BY DEF Waiting
<1>4. Spec => []IInv
  BY EndpointsInvariant
<1> QED
  BY <1>1, <1>2, <1>3, <1>4, PTL DEF Spec
-----------------------------------------------------------------------------
(* The handlers implement the contract for such clients.                   *)

Slot(c) == IF Keyed(c) THEN <<req[c].endpoint, req[c].key>> ELSE NoKey

Asked == [c \in Calls |-> [slot |-> Slot(c), payload |-> Hash(c)]]

Bound == [s \in Endpoints \X Keys |-> cache[s[1]][s[2]]]

Delivered == {c \in Calls : pc[c] = "done"}

\* A keyed call's slot stands for the entry its handler reads.
LEMMA SlotFacts ==
  ASSUME TypeOK, NEW c \in Calls
  PROVE  /\ Asked[c].slot = Slot(c) /\ Asked[c].payload = Hash(c)
         /\ Keyed(c) <=> Slot(c) # NoKey
         /\ Keyed(c) => Slot(c) \in Endpoints \X Keys /\ Bound[Slot(c)] = Entry(c)
<1>1. Keyed(c) => req[c].endpoint \in Endpoints /\ req[c].key \in Keys
  BY EntryType
<1>2. Keyed(c) => Slot(c) \in Endpoints \X Keys /\ Slot(c) # NoKey
  BY <1>1, KeysAssumption DEF Slot
<1>3. Keyed(c) => Bound[Slot(c)] = Entry(c)
  BY <1>1 DEF Slot, Bound, Entry
<1> QED
  BY <1>2, <1>3 DEF Asked, Slot

\* A call whose handler has not settled its answer is undecided.
LEMMA UndecidedFacts ==
  ASSUME TypeOK, NEW c \in Calls, pc[c] \in {"new", "work", "saved"}
  PROVE  answer[c] = NoAnswer /\ c \notin Delivered
BY DEF TypeOK, Delivered

\* Settling an answer decides the call and delivers nothing.
LEMMA SettleDecides ==
  ASSUME TypeOK, NEW c \in Calls, NEW status \in {200, 400, 409, 500}, NEW by \in Calls,
         Settle(c, status, by), pc[c] # "done"
  PROVE  answer' = [answer EXCEPT ![c] = [status |-> status, by |-> by]] /\ Delivered' = Delivered
<1>1. pc' = [pc EXCEPT ![c] = "respond"] /\ pc \in [Calls -> {"new", "work", "saved", "respond", "done"}]
  BY DEF Settle, TypeOK
<1> QED
  BY <1>1 DEF Settle, Delivered

LEMMA AskedStays == UNCHANGED req => Asked' = Asked
BY DEF Asked, Slot, Keyed, Hash

LEMMA ContractHandler ==
  ASSUME Waiting, NEW c \in Calls, Handler(c)
  PROVE  Contract!Next \/ UNCHANGED <<Asked, Bound, answer, Delivered>>
<1>0. TypeOK /\ Provenance /\ OneAtATime /\ pc \in [Calls -> {"new", "work", "saved", "respond", "done"}]
  BY DEF Waiting, IInv, TypeOK
<1>a. Asked' = Asked
  BY <1>0, HandlerFacts, AskedStays
<1>b. cache' = cache => Bound' = Bound
  BY DEF Bound
<1>c. Arrives(c) => pc[c] = "new"
  BY DEF Arrives
<1>1. CASE Reject(c) \/ SaveFails(c)
  <2>1. \E status \in {400, 500} : Settle(c, status, c)
    BY <1>1 DEF Reject, SaveFails
  <2>2. pc[c] \in {"new", "work"} /\ cache' = cache
    BY <1>1, <1>c DEF Reject, SaveFails
  <2>3. PICK status \in {400, 500} :
          answer' = [answer EXCEPT ![c] = [status |-> status, by |-> c]] /\ Delivered' = Delivered
    BY <1>0, <2>1, <2>2, SettleDecides
  <2>4. answer[c] = NoAnswer /\ c \notin Delivered
    BY <1>0, <2>2, UndecidedFacts
  <2>5. Contract!Decide(c, status, c)
    BY <1>a, <2>3, <2>4 DEF Contract!Decide, Contract!Undecided, Asked, Slot, Delivered
  <2>6. Contract!Fail(c)
    BY <1>b, <2>2, <2>5 DEF Contract!Fail, Bound
  <2> QED
    BY <2>6 DEF Contract!Next
<1>2. CASE Miss(c) \/ SaveReceipt(c)
  <2>1. cache' = cache /\ answer' = answer
    BY <1>2 DEF Miss, SaveReceipt
  <2>2. \E to \in {"work", "saved"} : pc' = [pc EXCEPT ![c] = to]
    BY <1>2 DEF Miss, SaveReceipt
  <2>3. pc[c] # "done"
    BY <1>0, HandlerFacts
  <2>4. Delivered' = Delivered
    BY <1>0, <2>2, <2>3 DEF Delivered
  <2> QED
    BY <1>a, <1>b, <2>1, <2>4
<1>3. CASE Replay(c)
  <2>1. /\ Keyed(c) /\ Entry(c) # NoCall /\ Hash(Entry(c)) = Hash(c) /\ pc[c] = "new"
        /\ Settle(c, 200, Entry(c)) /\ cache' = cache
    BY <1>3, <1>c DEF Replay
  <2>2. Entry(c) \in Calls
    BY <1>0, <2>1, EntryType
  <2>3. answer' = [answer EXCEPT ![c] = [status |-> 200, by |-> Entry(c)]] /\ Delivered' = Delivered
    BY <1>0, <2>1, <2>2, SettleDecides
  <2>4. Asked[c].slot # NoKey /\ Bound[Asked[c].slot] = Entry(c) /\ Asked[Entry(c)].payload = Asked[c].payload
    BY <1>0, <2>1, <2>2, SlotFacts
  <2>5. Contract!Replay(c)
    BY <1>0, <1>a, <1>b, <2>1, <2>3, <2>4, UndecidedFacts
    DEF Contract!Replay, Contract!Decide, Contract!Undecided, Asked, Slot, Bound, Delivered
  <2> QED
    BY <2>5 DEF Contract!Next
<1>4. CASE Conflict(c)
  <2>1. /\ Keyed(c) /\ Entry(c) # NoCall /\ Hash(Entry(c)) # Hash(c) /\ pc[c] = "new"
        /\ Settle(c, 409, c) /\ cache' = cache
    BY <1>4, <1>c DEF Conflict
  <2>2. Entry(c) \in Calls
    BY <1>0, <2>1, EntryType
  <2>3. answer' = [answer EXCEPT ![c] = [status |-> 409, by |-> c]] /\ Delivered' = Delivered
    BY <1>0, <2>1, SettleDecides
  <2>4. Asked[c].slot # NoKey /\ Bound[Asked[c].slot] = Entry(c) /\ Asked[Entry(c)].payload # Asked[c].payload
    BY <1>0, <2>1, <2>2, SlotFacts
  <2>5. Contract!Conflict(c)
    BY <1>0, <1>a, <1>b, <2>1, <2>2, <2>3, <2>4, UndecidedFacts
    DEF Contract!Conflict, Contract!Decide, Contract!Undecided, Asked, Slot, Bound, Delivered
  <2> QED
    BY <2>5 DEF Contract!Next
<1>5. CASE Finish(c)
  <2>1. Settle(c, 200, c) /\ pc[c] \in {"work", "saved"}
    BY <1>5 DEF Finish, Computed
  <2>2. answer' = [answer EXCEPT ![c] = [status |-> 200, by |-> c]] /\ Delivered' = Delivered
    BY <1>0, <2>1, SettleDecides
  <2>3. CASE Keyed(c)
    <3>1. Slot(c) \in Endpoints \X Keys /\ Bound[Slot(c)] = NoCall /\ Slot(c) # NoKey /\ Asked[c].slot = Slot(c)
      BY <1>0, <2>1, <2>3, SlotFacts DEF OneAtATime
    <3>2. Bound' = [Bound EXCEPT ![Slot(c)] = c]
      <4>1. Slot(c) = <<req[c].endpoint, req[c].key>>
        BY <2>3 DEF Slot
      <4>2. \A s \in Endpoints \X Keys :
              cache'[s[1]][s[2]] = IF s = Slot(c) THEN c ELSE cache[s[1]][s[2]]
        BY <1>0, <1>5, <2>3, <4>1, FinishEntries
      <4> QED
        BY <3>1, <4>2 DEF Bound
    <3>3. Contract!Execute(c)
      BY <1>0, <1>a, <2>1, <2>2, <3>1, <3>2, UndecidedFacts
      DEF Contract!Execute, Contract!Decide, Contract!Undecided, Asked, Slot, Bound, Delivered
    <3> QED
      BY <3>3 DEF Contract!Next
  <2>4. CASE ~Keyed(c)
    <3>1. Asked[c].slot = NoKey /\ Bound' = Bound
      BY <1>0, <1>b, <1>5, <2>4, SlotFacts, FinishEntries
    <3>2. Contract!Execute(c)
      BY <1>0, <1>a, <2>1, <2>2, <3>1, UndecidedFacts
      DEF Contract!Execute, Contract!Decide, Contract!Undecided, Asked, Slot, Bound, Delivered
    <3> QED
      BY <3>2 DEF Contract!Next
  <2> QED
    BY <2>3, <2>4
<1>6. CASE Respond(c)
  <2>1. pc[c] = "respond" /\ pc' = [pc EXCEPT ![c] = "done"] /\ answer' = answer /\ cache' = cache
    BY <1>6 DEF Respond
  <2>2. answer[c] # NoAnswer /\ Delivered' = Delivered \cup {c}
    BY <1>0, <2>1 DEF TypeOK, Delivered
  <2>3. Contract!Deliver(c)
    BY <1>a, <1>b, <2>1, <2>2 DEF Contract!Deliver, Asked, Slot, Bound, Delivered
  <2> QED
    BY <2>3 DEF Contract!Next
<1> QED
  BY <1>1, <1>2, <1>3, <1>4, <1>5, <1>6 DEF Handler

LEMMA ContractStep ==
  ASSUME Waiting, [Next]_vars
  PROVE  Contract!Next \/ UNCHANGED <<Asked, Bound, answer, Delivered>>
<1>0. TypeOK
  BY DEF Waiting, IInv
<1>1. ASSUME NEW c \in Calls, Handler(c)
      PROVE  Contract!Next \/ UNCHANGED <<Asked, Bound, answer, Delivered>>
  BY <1>1, ContractHandler
<1>2. CASE Crash
  <2> DEFINE Cut == {c \in Calls : InFlight(c)}
  <2>1. /\ Asked' = Asked /\ Cut \in SUBSET (Calls \ Delivered)
        /\ Bound' = [s \in Endpoints \X Keys |-> NoCall]
    BY <1>2, AskedStays DEF Crash, Bound, InFlight, Delivered
  <2>2. answer' = [c \in Calls |-> IF c \in Cut THEN NoAnswer ELSE answer[c]]
    BY <1>2 DEF Crash
  <2>3. Delivered' = Delivered \cup Cut
    BY <1>0, <1>2 DEF Crash, Delivered, InFlight, TypeOK
  <2> HIDE DEF Cut
  <2>4. Contract!Forget
    BY <2>1, <2>2, <2>3 DEF Contract!Forget, Asked, Slot, Bound, Delivered
  <2> QED
    BY <2>4 DEF Contract!Next
<1>3. CASE Restart \/ UNCHANGED vars
  BY <1>3, AskedStays DEF Restart, vars, Bound, Delivered
<1> QED
  BY <1>1, <1>2, <1>3 DEF Next

\* For clients that wait, the handlers are what IdempotencyContract says: the
\* first success under a key decides, and repeats neither run again nor differ.
THEOREM EndpointsKeepContract ==
  ASSUME OverlapKeys = FALSE
  PROVE  Spec => KeepsContract
<1>1. Init => Contract!Init
  <2> SUFFICES ASSUME Init PROVE Contract!Init
    OBVIOUS
  <2>1. TypeOK
    BY BoundsAssumption DEF Init, TypeOK
  <2>2. Asked \in [Calls -> [slot : (Endpoints \X Keys) \cup {NoKey}, payload : Payloads \cup {Invalid}]]
    <3>1. \A c \in Calls : Slot(c) \in (Endpoints \X Keys) \cup {NoKey}
      BY <2>1, SlotFacts DEF Slot
    <3>2. \A c \in Calls : Hash(c) \in Payloads \cup {Invalid}
      BY <2>1 DEF TypeOK, Requests, Hash
    <3> QED
      BY <3>1, <3>2 DEF Asked
  <2>3. Bound = [s \in Endpoints \X Keys |-> NoCall] /\ Delivered = {} /\ answer = [c \in Calls |-> NoAnswer]
    BY DEF Init, Bound, Delivered
  <2> QED
    BY <2>2, <2>3 DEF Contract!Init, Asked, Slot, Bound, Delivered
<1>2. Waiting /\ [Next]_vars => [Contract!Next]_(Contract!contract)
  <2>1. UNCHANGED <<Asked, Bound, answer, Delivered>> => UNCHANGED Contract!contract
    BY DEF Contract!contract, Asked, Slot, Bound, Delivered
  <2> QED
    BY <2>1, ContractStep
<1> QED
  BY <1>1, <1>2, WaitingHolds, PTL DEF Spec, KeepsContract, Contract!Spec
=============================================================================
