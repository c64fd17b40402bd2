-------------------------- MODULE PolicyGateProofs --------------------------
(***************************************************************************)
(* What the gate promises for any number of calls, whatever their          *)
(* settings, the disk and the network.  IInv relates the three places a    *)
(* decision goes through: the receipt the API saved, the answer the call   *)
(* holds, and the event and the effect derived from it.  Balance counts    *)
(* the events a torn line may cost, and the replies of the event file are  *)
(* followed line by line.                                                  *)
(***************************************************************************)
EXTENDS PolicyGate, SequenceLemmas, TLAPS

\* The types of what the calls hold.
CallsOK ==
  /\ pc \in [Calls -> {"idle", "asking", "told", "cleared", "blocked", "done", "killed"}]
  /\ profile \in [Calls -> Profiles]
  /\ receipt \in [Calls -> Decisions \cup {None}]
  /\ answer \in [Calls -> Answers \cup {"error", None}]
  /\ effect \in [Calls -> {"none", "raw", "redacted"}]

\* The types of the event file; only a line that is there can be torn.
FileOK ==
  /\ log \in Seq(Events) /\ torn \in BOOLEAN
  /\ written \in [Calls -> {None, "whole", "part", "lost"}]
  /\ torn => log # <<>>

\* An answer that is a decision is the one the API put on record.
AnswersAreReceipts ==
  \A c \in Calls : answer[c] \in Decisions => receipt[c] = answer[c]

\* How far a call got, told by what it holds.
Progress ==
  \A c \in Calls :
    /\ pc[c] \in {"idle", "asking"} => answer[c] = None
    /\ pc[c] \in {"idle", "asking", "told"} => written[c] = None /\ ~Acted(c)
    /\ pc[c] \in {"told", "cleared", "blocked", "done"} => answer[c] # None
    /\ pc[c] = "cleared" => written[c] # None /\ Cleared(c) /\ ~Acted(c)
    /\ pc[c] = "blocked" => ~Acted(c) /\ ~Cleared(c)
    /\ Acted(c) => written[c] # None /\ Cleared(c) /\ answer[c] # None
    /\ Acted(c) => effect[c] = IF Redacts(c) THEN "redacted" ELSE "raw"

\* A line that decodes is the event of a call that is past recording it.
LinesAreEvents ==
  \A i \in DOMAIN log, d \in Calls : log[i].call = d =>
    /\ log[i] = EventOf(d)
    /\ written[d] # None
    /\ \A j \in DOMAIN log : log[j].call = d => i = j

\* The inductive invariant.
IInv == CallsOK /\ FileOK /\ AnswersAreReceipts /\ Progress /\ LinesAreEvents

-----------------------------------------------------------------------------
\* Initially no call holds an answer and the file is empty.
LEMMA InitInv == Init => IInv
<1> SUFFICES ASSUME Init PROVE IInv
  OBVIOUS
<1>1. CallsOK
  BY DEF Init, CallsOK
<1>2. FileOK
  <2>1. <<>> \in Seq(Events)
    OBVIOUS
  <2> QED
    BY <2>1 DEF Init, FileOK
<1>3. AnswersAreReceipts /\ Progress /\ LinesAreEvents
  BY CallsAssumption DEF Init, AnswersAreReceipts, Progress, LinesAreEvents, Acted, Answers
<1> QED
  BY <1>1, <1>2, <1>3 DEF IInv

\* Neither what a call holds nor the file changes: the derived notions stay.
LEMMA SameNotions ==
  ASSUME NEW c \in Calls, answer'[c] = answer[c], profile'[c] = profile[c]
  PROVE  /\ Cleared(c)' = Cleared(c) /\ Redacts(c)' = Redacts(c)
         /\ EventOf(c)' = EventOf(c)
BY DEF Cleared, Redacts, EventOf, Reported, shouldAllow, shouldBlockOnPolicyError

\* Events are well-formed lines.
LEMMA EventsAreLines ==
  ASSUME CallsOK, NEW c \in Calls, answer[c] # None
  PROVE  /\ EventOf(c) \in Events /\ EventOf(c).call = c
         /\ \A long \in BOOLEAN : Garbled(long) \in Events /\ Garbled(long).call = None
<1>1. answer[c] \in Answers \cup {"error"}
  BY DEF CallsOK
<1>2. Reported(c) \in Answers \cup {None}
  BY <1>1 DEF Reported, Answers, Decisions
<1>3. Cleared(c) \in BOOLEAN
  BY <1>1 DEF Cleared, shouldAllow, shouldBlockOnPolicyError, permitDecision
<1>4. /\ EventOf(c).call \in Calls \cup {None} /\ EventOf(c).decision \in Answers \cup {None}
      /\ EventOf(c).allowed \in BOOLEAN /\ EventOf(c).cites \in Answers \cup {None}
      /\ EventOf(c).long \in BOOLEAN /\ EventOf(c).call = c
  BY <1>1, <1>2, <1>3 DEF EventOf, Answers
<1>5. EventOf(c) \in Events
  BY <1>4 DEF EventOf, Events
<1> QED
  BY <1>4, <1>5 DEF Events, Garbled

\* What appending does to the file, whether its last line is torn or not.
LEMMA AppendedIs ==
  ASSUME FileOK, NEW event, event.long \in BOOLEAN, NEW whole \in BOOLEAN, Appended(event, whole)
  PROVE  /\ torn' = ~whole
         /\ \/ torn /\ \E long \in BOOLEAN : log' = [log EXCEPT ![Len(log)] = Garbled(long)]
            \/ ~torn /\ log' = Append(log, event)
            \/ ~torn /\ ~whole /\ \E long \in BOOLEAN : log' = Append(log, Garbled(long))
<1>1. PICK line \in Lines(event, whole) :
        \/ ~torn /\ log' = Append(log, line)
        \/ torn /\ \E long \in {TRUE, line.long \/ log[Len(log)].long} :
                     log' = [log EXCEPT ![Len(log)] = Garbled(long)]
  BY DEF Appended
<1>2. line = event \/ (~whole /\ \E long \in BOOLEAN : line = Garbled(long))
  BY DEF Lines
<1>3. torn => {TRUE, line.long \/ log[Len(log)].long} \subseteq BOOLEAN
  OBVIOUS
<1>4. torn' = ~whole
  BY DEF Appended
<1> QED
  BY <1>1, <1>2, <1>3, <1>4

\* A line that decodes names a call.
LEMMA LinesNameCalls ==
  ASSUME FileOK, NEW i \in DOMAIN log, log[i].call # None
  PROVE  log[i].call \in Calls
<1>1. log[i] \in Events
  BY DEF FileOK
<1> QED
  BY <1>1 DEF Events

\* A step that leaves the file and what the calls hold alone keeps the lines.
LEMMA SameLines ==
  ASSUME FileOK, LinesAreEvents, UNCHANGED <<log, written>>,
         \A d \in Calls : written[d] # None => EventOf(d)' = EventOf(d)
  PROVE  LinesAreEvents'
BY DEF LinesAreEvents

\* A request is on its way.
LEMMA SendKeepsInv == ASSUME IInv, NEW c \in Calls, Send(c) PROVE IInv'
<1>1. /\ pc[c] = "idle" /\ pc' = [pc EXCEPT ![c] = "asking"]
      /\ UNCHANGED <<profile, receipt, answer, log, torn, written, effect>>
  BY DEF Send, Goto, logVars
<1>2. CallsOK' /\ FileOK' /\ AnswersAreReceipts'
  BY <1>1 DEF IInv, CallsOK, FileOK, AnswersAreReceipts
<1>3. \A d \in Calls : Cleared(d)' = Cleared(d) /\ Redacts(d)' = Redacts(d) /\ EventOf(d)' = EventOf(d)
  BY <1>1, SameNotions
<1>4. Progress'
  BY <1>1, <1>3 DEF IInv, CallsOK, Progress, Acted
<1>5. LinesAreEvents'
  BY <1>1, <1>3, SameLines DEF IInv
<1> QED
  BY <1>2, <1>4, <1>5 DEF IInv

\* The API saves a receipt.
LEMMA ServeKeepsInv == ASSUME IInv, NEW c \in Calls, Serve(c) PROVE IInv'
<1>1. PICK decision \in Decisions : receipt' = [receipt EXCEPT ![c] = decision]
  BY DEF Serve
<1>2. receipt[c] = None /\ UNCHANGED <<pc, profile, answer, log, torn, written, effect>>
  BY DEF Serve, logVars
<1>3. CallsOK' /\ FileOK'
  BY <1>1, <1>2 DEF IInv, CallsOK, FileOK
<1>4. AnswersAreReceipts'
  <2>1. answer[c] \notin Decisions
    BY <1>2, CallsAssumption DEF IInv, AnswersAreReceipts, Answers
  <2> QED
    BY <1>1, <1>2, <2>1 DEF IInv, CallsOK, AnswersAreReceipts
<1>5. \A d \in Calls : Cleared(d)' = Cleared(d) /\ Redacts(d)' = Redacts(d) /\ EventOf(d)' = EventOf(d)
  BY <1>2, SameNotions
<1>6. Progress'
  BY <1>2, <1>5 DEF IInv, CallsOK, Progress, Acted
<1>7. LinesAreEvents'
  BY <1>2, <1>5, SameLines DEF IInv
<1> QED
  BY <1>3, <1>4, <1>6, <1>7 DEF IInv

\* Check returns: with an answer on record, with something else, or an error.
LEMMA CheckKeepsInv ==
  ASSUME IInv, NEW c \in Calls, Receive(c) \/ CheckFails(c)
  PROVE  IInv'
<1>1. /\ pc[c] = "asking" /\ pc' = [pc EXCEPT ![c] = "told"]
      /\ UNCHANGED <<profile, receipt, log, torn, written, effect>>
  BY DEF Receive, CheckFails, Goto, logVars
<1>2. PICK a \in {receipt[c], "other", "error"} \ {None} : answer' = [answer EXCEPT ![c] = a]
  <2>1. CASE Receive(c)
    BY <2>1 DEF Receive
  <2>2. CASE CheckFails(c)
    BY <2>2, CallsAssumption DEF CheckFails
  <2> QED
    BY <2>1, <2>2
<1>3. receipt[c] \in Decisions \cup {None}
  BY DEF IInv, CallsOK
<1>4. a \in Answers \cup {"error"} /\ a # None
  BY <1>2, <1>3 DEF Answers
<1>5. CallsOK' /\ FileOK'
  BY <1>1, <1>2, <1>4 DEF IInv, CallsOK, FileOK
<1>6. AnswersAreReceipts'
  <2>1. a \in Decisions => a = receipt[c]
    BY <1>2 DEF Decisions
  <2> QED
    BY <1>1, <1>2, <2>1 DEF IInv, CallsOK, AnswersAreReceipts
<1>7. \A d \in Calls \ {c} : Cleared(d)' = Cleared(d) /\ Redacts(d)' = Redacts(d) /\ EventOf(d)' = EventOf(d)
  BY <1>1, <1>2, SameNotions DEF IInv, CallsOK
<1>8. Progress'
  <2>1. \A d \in Calls : Acted(d)' = Acted(d)
    BY <1>1 DEF Acted
  <2>2. pc[c] = "asking" /\ pc'[c] = "told" /\ answer'[c] = a /\ written'[c] = None /\ ~Acted(c)
    BY <1>1, <1>2 DEF IInv, CallsOK, Progress
  <2>3. \A d \in Calls \ {c} : pc'[d] = pc[d] /\ answer'[d] = answer[d]
    BY <1>1, <1>2 DEF IInv, CallsOK
  <2> QED
    BY <1>1, <1>4, <1>7, <2>1, <2>2, <2>3 DEF IInv, Progress
<1>9. LinesAreEvents'
  <2>1. written[c] = None
    BY <1>1 DEF IInv, Progress
  <2> QED
    BY <1>1, <1>7, <2>1, SameLines DEF IInv
<1> QED
  BY <1>5, <1>6, <1>8, <1>9 DEF IInv

\* The runner, reader or writer works, fails, or the process dies.
LEMMA EndKeepsInv ==
  ASSUME IInv, NEW c \in Calls, Act(c) \/ ActFails(c) \/ Kill(c)
  PROVE  IInv'
<1>1. PICK p \in {"done", "killed"} :
        /\ pc' = [pc EXCEPT ![c] = p]
        /\ p = "done" => pc[c] = "cleared"
        /\ pc[c] # "idle" /\ pc[c] # "blocked"
  BY DEF Act, ActFails, Kill, Goto
<1>2. UNCHANGED <<profile, receipt, answer, log, torn, written>>
  BY DEF Act, ActFails, Kill, logVars
<1>3. \/ UNCHANGED effect
      \/ /\ pc[c] = "cleared" /\ p = "done"
         /\ effect' = [effect EXCEPT ![c] = IF Redacts(c) THEN "redacted" ELSE "raw"]
  <2>1. CASE Act(c)
    BY <1>1, <2>1 DEF Act, Goto, IInv, CallsOK
  <2>2. CASE ActFails(c) \/ Kill(c)
    BY <2>2 DEF ActFails, Kill
  <2> QED
    BY <2>1, <2>2
<1>4. CallsOK' /\ FileOK' /\ AnswersAreReceipts'
  BY <1>1, <1>2, <1>3 DEF IInv, CallsOK, FileOK, AnswersAreReceipts
<1>5. \A d \in Calls : Cleared(d)' = Cleared(d) /\ Redacts(d)' = Redacts(d) /\ EventOf(d)' = EventOf(d)
  BY <1>2, SameNotions
<1>6. Progress'
  <2>1. \A d \in Calls : effect'[d] # effect[d] =>
          /\ d = c /\ pc[c] = "cleared" /\ effect'[c] = IF Redacts(c) THEN "redacted" ELSE "raw"
    BY <1>3 DEF IInv, CallsOK
  <2>2. pc'[c] = p /\ \A d \in Calls \ {c} : pc'[d] = pc[d]
    BY <1>1 DEF IInv, CallsOK
  <2>3. \A d \in Calls : Acted(d)' => Acted(d) \/ (d = c /\ pc[c] = "cleared")
    BY <2>1 DEF Acted
  <2>4. \A d \in Calls \ {c} : effect'[d] = effect[d]
    BY <2>1
  <2>5. \A d \in Calls \ {c} : Acted(d)' = Acted(d)
    BY <2>4 DEF Acted
  <2>6. Acted(c)' => effect'[c] = IF Redacts(c) THEN "redacted" ELSE "raw"
    BY <2>1 DEF IInv, Progress, Acted
  <2>7. pc[c] = "cleared" => written[c] # None /\ Cleared(c) /\ answer[c] # None
    BY DEF IInv, Progress
  <2>8. Acted(c)' => written[c] # None /\ Cleared(c) /\ answer[c] # None
    BY <2>3, <2>7 DEF IInv, Progress
  <2>9. p = "done" => answer[c] # None
    BY <1>1, <2>7
  <2> QED
    BY <1>2, <1>5, <2>2, <2>4, <2>5, <2>6, <2>8, <2>9 DEF IInv, Progress
<1>7. LinesAreEvents'
  BY <1>2, <1>5, SameLines DEF IInv
<1> QED
  BY <1>4, <1>6, <1>7 DEF IInv

\* The event is written, whole or in part, or is lost.
LEMMA RecordKeepsInv == ASSUME IInv, NEW c \in Calls, Record(c) PROVE IInv'
<1>1. /\ pc[c] = "told" /\ pc' = [pc EXCEPT ![c] = IF Cleared(c) THEN "cleared" ELSE "blocked"]
      /\ UNCHANGED <<profile, receipt, answer, effect>>
  BY DEF Record, Goto
<1>2. PICK w \in {"whole", "part", "lost"} :
        /\ written' = [written EXCEPT ![c] = w]
        /\ \/ w = "lost" /\ UNCHANGED <<log, torn>>
           \/ \E whole \in BOOLEAN : Appended(EventOf(c), whole)
  BY DEF Record
<1>3. answer[c] # None /\ written[c] = None /\ ~Acted(c)
  BY <1>1 DEF IInv, Progress
<1>4. /\ EventOf(c) \in Events /\ EventOf(c).call = c /\ EventOf(c).long \in BOOLEAN
      /\ \A long \in BOOLEAN : Garbled(long) \in Events /\ Garbled(long).call = None
  BY <1>3, EventsAreLines DEF IInv, Events
<1>5. log \in Seq(Events) /\ torn \in BOOLEAN /\ (torn => log # <<>>)
  BY DEF IInv, FileOK
<1>6. \A d \in Calls : Cleared(d)' = Cleared(d) /\ Redacts(d)' = Redacts(d) /\ EventOf(d)' = EventOf(d)
  BY <1>1, SameNotions
<1>7. \/ UNCHANGED <<log, torn>>
      \/ \E long \in BOOLEAN :
           torn /\ log' = [log EXCEPT ![Len(log)] = Garbled(long)] /\ torn' \in BOOLEAN
      \/ \E e \in {EventOf(c), Garbled(TRUE), Garbled(FALSE)} : log' = Append(log, e) /\ torn' \in BOOLEAN
  <2>1. CASE UNCHANGED <<log, torn>>
    BY <2>1
  <2>2. ASSUME NEW whole \in BOOLEAN, Appended(EventOf(c), whole)
        PROVE  /\ torn' = ~whole
               /\ \/ torn /\ \E long \in BOOLEAN : log' = [log EXCEPT ![Len(log)] = Garbled(long)]
                  \/ log' = Append(log, EventOf(c))
                  \/ \E long \in BOOLEAN : log' = Append(log, Garbled(long))
    <3>1. FileOK
      BY DEF IInv
    <3> QED
      BY <1>4, <2>2, <3>1, AppendedIs
  <2> QED
    BY <1>2, <2>1, <2>2
<1>8. log' \in Seq(Events) /\ torn' \in BOOLEAN /\ (torn' => log' # <<>>)
  <2>1. CASE UNCHANGED <<log, torn>>
    BY <1>5, <2>1
  <2>2. ASSUME NEW long \in BOOLEAN, torn, log' = [log EXCEPT ![Len(log)] = Garbled(long)], torn' \in BOOLEAN
        PROVE  log' \in Seq(Events) /\ torn' \in BOOLEAN /\ (torn' => log' # <<>>)
    <3>1. Len(log) \in DOMAIN log
      BY <1>5, <2>2
    <3>2. log' \in Seq(Events) /\ log' # <<>>
      BY <1>4, <1>5, <2>2, <3>1
    <3> QED
      BY <2>2, <3>2
  <2>3. CASE \E e \in {EventOf(c), Garbled(TRUE), Garbled(FALSE)} : log' = Append(log, e) /\ torn' \in BOOLEAN
    <3>1. PICK e \in {EventOf(c), Garbled(TRUE), Garbled(FALSE)} : log' = Append(log, e) /\ torn' \in BOOLEAN
      BY <2>3
    <3>2. e \in Events
      BY <1>4, <3>1
    <3> QED
      BY <1>5, <3>1, <3>2
  <2> QED
    <3>1. CASE \E long \in BOOLEAN :
                 torn /\ log' = [log EXCEPT ![Len(log)] = Garbled(long)] /\ torn' \in BOOLEAN
      <4>1. PICK long \in BOOLEAN :
              torn /\ log' = [log EXCEPT ![Len(log)] = Garbled(long)] /\ torn' \in BOOLEAN
        BY <3>1
      <4> QED
        BY <2>2, <4>1
    <3> QED
      BY <1>7, <2>1, <2>3, <3>1, Zenon
<1>9. CallsOK' /\ FileOK' /\ AnswersAreReceipts'
  BY <1>1, <1>2, <1>8 DEF IInv, CallsOK, FileOK, AnswersAreReceipts
<1>10. Progress'
  <2>1. pc'[c] = IF Cleared(c) THEN "cleared" ELSE "blocked"
    BY <1>1 DEF IInv, CallsOK
  <2>2. written'[c] # None
    BY <1>2, CallsAssumption DEF IInv, FileOK
  <2>3. \A d \in Calls \ {c} : pc'[d] = pc[d] /\ written'[d] = written[d]
    BY <1>1, <1>2 DEF IInv, CallsOK, FileOK
  <2>4. \A d \in Calls : Acted(d)' = Acted(d)
    BY <1>1 DEF Acted
  <2> QED
    BY <1>1, <1>3, <1>6, <2>1, <2>2, <2>3, <2>4 DEF IInv, Progress
<1>11. LinesAreEvents'
  <2>1. \A d \in Calls : written[d] # None => written'[d] # None
    BY <1>2, <1>3 DEF IInv, FileOK
  <2>2. written'[c] # None
    BY <1>2, CallsAssumption DEF IInv, FileOK
  <2>3. \A i \in DOMAIN log : log[i].call # c
    BY <1>3 DEF IInv, LinesAreEvents
  <2>4. CASE UNCHANGED <<log, torn>>
    BY <1>6, <2>1, <2>4 DEF IInv, LinesAreEvents
  <2>5. ASSUME NEW long \in BOOLEAN, torn, log' = [log EXCEPT ![Len(log)] = Garbled(long)]
        PROVE  LinesAreEvents'
    <3>1. DOMAIN log' = DOMAIN log
      BY <1>5, <2>5
    <3>2. \A i \in DOMAIN log : log'[i] = log[i] \/ log'[i] = Garbled(long)
      BY <1>5, <2>5
    <3>3. \A i \in DOMAIN log, d \in Calls : log'[i].call = d => log'[i] = log[i]
      BY <1>4, <3>2, CallsAssumption
    <3> QED
      BY <1>6, <2>1, <3>1, <3>3 DEF IInv, LinesAreEvents
  <2>6. CASE \E e \in {EventOf(c), Garbled(TRUE), Garbled(FALSE)} : log' = Append(log, e)
    <3>1. PICK e \in {EventOf(c), Garbled(TRUE), Garbled(FALSE)} : log' = Append(log, e)
      BY <2>6
    <3> DEFINE End == Len(log) + 1
    <3>2. /\ DOMAIN log' = DOMAIN log \cup {End} /\ End \notin DOMAIN log
          /\ log'[End] = e /\ \A i \in DOMAIN log : log'[i] = log[i]
      BY <1>4, <1>5, <3>1
    <3>3. \A d \in Calls : e.call = d => d = c /\ e = EventOf(c)
      BY <1>4, <3>1, CallsAssumption
    <3> HIDE DEF End
    <3>4. ASSUME NEW i \in DOMAIN log', NEW d \in Calls, log'[i].call = d
          PROVE  /\ log'[i] = EventOf(d)' /\ written'[d] # None
                 /\ \A j \in DOMAIN log' : log'[j].call = d => i = j
      <4>1. CASE i = End
        BY <1>6, <2>2, <2>3, <3>2, <3>3, <3>4, <4>1
      <4>2. CASE i \in DOMAIN log
        <5>1. log[i].call = d /\ d # c
          BY <2>3, <3>2, <3>4, <4>2
        <5>2. \A j \in DOMAIN log' : log'[j].call = d => j \in DOMAIN log
          BY <3>2, <3>3, <5>1
        <5> QED
          BY <1>6, <2>1, <3>2, <4>2, <5>1, <5>2 DEF IInv, LinesAreEvents
      <4> QED
        BY <3>2, <4>1, <4>2
    <3> QED
      BY <3>4 DEF LinesAreEvents
  <2> QED
    BY <1>7, <2>4, <2>5, <2>6
<1> QED
  BY <1>9, <1>10, <1>11 DEF IInv

-----------------------------------------------------------------------------
\* No step breaks the invariant.
LEMMA InvHolds == Spec => []IInv
<1>1. ASSUME IInv, [Next]_vars PROVE IInv'
  <2>1. CASE UNCHANGED vars
    <3>1. \A d \in Calls : Cleared(d)' = Cleared(d) /\ Redacts(d)' = Redacts(d) /\ EventOf(d)' = EventOf(d)
      BY <2>1, SameNotions DEF vars
    <3>2. Progress' /\ LinesAreEvents'
      BY <1>1, <2>1, <3>1, SameLines DEF vars, logVars, IInv, Progress, Acted
    <3> QED
      BY <1>1, <2>1, <3>2 DEF vars, logVars, IInv, CallsOK, FileOK, AnswersAreReceipts
  <2> QED
    BY <1>1, <2>1, SendKeepsInv, ServeKeepsInv, CheckKeepsInv, RecordKeepsInv, EndKeepsInv
    DEF Next, Step
<1> QED
  BY <1>1, InitInv, PTL DEF Spec

\* The gate is well typed, for any calls and settings.
THEOREM GateTypeCorrect == Spec => []TypeOK
<1>1. IInv => TypeOK
  BY DEF IInv, CallsOK, FileOK, TypeOK
<1> QED
  BY <1>1, InvHolds, PTL

\* An enforced gate acts only on a permission the API has on record, whatever
\* is lost or late, and a strict one never without an answer.
THEOREM EnforcedActsAreOnRecord == Spec => []EnforcedNeedsReceipt
<1>1. IInv => EnforcedNeedsReceipt
  <2> SUFFICES ASSUME IInv, NEW c \in Calls, Acted(c)
               PROVE  /\ profile[c].mode = "enforced" => permitDecision(receipt[c])
                      /\ profile[c].strict => answer[c] # "error"
    BY DEF EnforcedNeedsReceipt
  <2>1. Cleared(c)
    BY DEF IInv, Progress
  <2>2. profile[c].strict => answer[c] # "error"
    BY <2>1 DEF Cleared, shouldBlockOnPolicyError
  <2>3. ASSUME profile[c].mode = "enforced" PROVE permitDecision(receipt[c])
    <3>1. permitDecision(answer[c])
      BY <2>1, <2>3 DEF Cleared, shouldBlockOnPolicyError, shouldAllow
    <3>2. answer[c] \in Decisions
      BY <3>1 DEF permitDecision, Decisions
    <3> QED
      BY <3>1, <3>2 DEF IInv, AnswersAreReceipts
  <2> QED
    BY <2>2, <2>3
<1> QED
  BY <1>1, InvHolds, PTL

\* The event file never lies: blocked calls do not act, receipts are cited as
\* they were saved, and each call has at most one event.
THEOREM EventsAreTruthful == Spec => []EventsTellTruth
<1>1. IInv => EventsTellTruth
  <2> SUFFICES ASSUME IInv, NEW i \in DOMAIN log, log[i].call # None
               PROVE  /\ ~log[i].allowed => pc[log[i].call] # "cleared" /\ ~Acted(log[i].call)
                      /\ log[i].allowed => pc[log[i].call] \in {"cleared", "done", "killed"}
                      /\ log[i].cites # None => receipt[log[i].call] = log[i].cites
                      /\ \A j \in DOMAIN log : log[j].call = log[i].call => i = j
    BY DEF EventsTellTruth
  <2> DEFINE c == log[i].call
  <2>1. c \in Calls /\ log[i] = EventOf(c)
    BY LinesNameCalls DEF IInv, LinesAreEvents
  <2>2. log[i].allowed = Cleared(c)
    BY <2>1 DEF EventOf
  <2>3. log[i].cites # None => answer[c] \in Decisions /\ log[i].cites = answer[c]
    BY <2>1 DEF EventOf
  <2>4. ~log[i].allowed => pc[c] # "cleared" /\ ~Acted(c)
    BY <2>1, <2>2 DEF IInv, Progress
  <2>6. log[i].allowed => pc[c] \in {"cleared", "done", "killed"}
    <3>1. written[c] # None
      BY <2>1 DEF IInv, LinesAreEvents
    <3>2. pc[c] \notin {"idle", "asking", "told"} /\ (pc[c] = "blocked" => ~Cleared(c))
      BY <2>1, <3>1 DEF IInv, Progress
    <3> QED
      BY <2>1, <2>2, <3>2 DEF IInv, CallsOK
  <2>5. log[i].cites # None => receipt[c] = log[i].cites
    BY <2>1, <2>3 DEF IInv, AnswersAreReceipts
  <2> QED
    BY <2>1, <2>4, <2>5, <2>6 DEF IInv, LinesAreEvents
<1> QED
  BY <1>1, InvHolds, PTL

\* Where a redaction is on record, what there is to redact stays as it is only in a
\* call that never got that answer and goes on by its mode.
THEOREM RedactionReachesFiles == Spec => []RecordedRedactionHolds
<1>1. IInv => RecordedRedactionHolds
  <2> SUFFICES ASSUME IInv, NEW c \in Calls, receipt[c] = "allow_with_redaction", effect[c] = "raw",
                      profile[c].kind \in {"read", "write"}, profile[c].found
               PROVE  \/ answer[c] = "error" /\ profile[c].mode # "enforced" /\ ~profile[c].strict
                      \/ answer[c] = "other" /\ profile[c].mode = "observe"
    BY DEF RecordedRedactionHolds
  <2>1. Acted(c)
    BY DEF Acted
  <2>2. Cleared(c) /\ answer[c] # None /\ ~Redacts(c)
    BY <2>1 DEF IInv, Progress
  <2>3. answer[c] # "allow_with_redaction"
    BY <2>2 DEF Redacts, HasPlan
  <2>4. answer[c] \notin Decisions
    BY <2>3 DEF IInv, AnswersAreReceipts
  <2>5. answer[c] \in {"error", "other"}
    BY <2>2, <2>4 DEF IInv, CallsOK, Answers
  <2> QED
    BY <2>2, <2>5 DEF Cleared, shouldAllow, shouldBlockOnPolicyError, permitDecision
<1> QED
  BY <1>1, InvHolds, PTL

-----------------------------------------------------------------------------
(* The events that are missing from the file.  An event is swallowed by the *)
(* torn line before it, and each torn line swallows at most one.            *)

\* The event of call c can be read.
HasLine(c) == \E i \in DOMAIN log : log[i].call = c
\* The calls whose event was written whole and cannot be read.
Swallowed == {c \in Calls : written[c] = "whole" /\ ~HasLine(c)}
\* The calls whose event was written in part.
Parts     == {c \in Calls : written[c] = "part"}

\* The torn line at the end has swallowed none so far, though it may hold the
\* event that it is a part of.
Balance ==
  /\ torn => log # <<>> /\ (log[Len(log)].call # None => written[log[Len(log)].call] = "part")
  /\ Cardinality(Swallowed) + (IF torn THEN 1 ELSE 0) <= Cardinality(Parts)

\* Sets of calls are finite.
LEMMA CallSets ==
  ASSUME NEW S \in SUBSET Calls
  PROVE  IsFiniteSet(S) /\ Cardinality(S) \in Nat
BY CallsAssumption, FS_Subset, FS_CardinalityType

\* A call more is at most one more.
LEMMA OneMoreCall ==
  ASSUME NEW S \in SUBSET Calls, NEW c \in Calls
  PROVE  Cardinality(S \cup {c}) <= Cardinality(S) + 1
         /\ (c \notin S => Cardinality(S \cup {c}) = Cardinality(S) + 1)
BY CallSets, FS_AddElement

\* What recording an event does to the balance.
LEMMA RecordKeepsBalance ==
  ASSUME IInv, Balance, NEW c \in Calls, Record(c)
  PROVE  Balance'
<1>1. /\ log \in Seq(Events) /\ written \in [Calls -> {None, "whole", "part", "lost"}] /\ torn \in BOOLEAN
      /\ torn => log # <<>> /\ (log[Len(log)].call # None => written[log[Len(log)].call] = "part")
      /\ written[c] = None /\ None \notin Calls \cup {"whole", "part", "lost"}
  BY CallsAssumption DEF IInv, FileOK, Balance, Progress, Record, Goto
<1>2. /\ Swallowed \in SUBSET Calls /\ Parts \in SUBSET Calls /\ c \notin Swallowed /\ c \notin Parts
      /\ Cardinality(Swallowed) \in Nat /\ Cardinality(Parts) \in Nat
  BY <1>1, CallSets DEF Swallowed, Parts
<1>3. EventOf(c).call = c /\ EventOf(c).long \in BOOLEAN /\ \A long : Garbled(long).call = None
  BY DEF Garbled, EventOf
<1>4. CASE written' = [written EXCEPT ![c] = "lost"] /\ UNCHANGED <<log, torn>>
  <2>1. \A d \in Calls : HasLine(d)' <=> HasLine(d)
    BY <1>4 DEF HasLine
  <2>2. Swallowed' = Swallowed /\ Parts' = Parts
    BY <1>1, <1>4, <2>1 DEF Swallowed, Parts
  <2>3. written[c] # "part"
    BY <1>1
  <2>4. torn => log[Len(log)].call # c
    BY <1>1, <2>3
  <2>5. torn /\ log[Len(log)].call # None =>
          written'[log[Len(log)].call] = written[log[Len(log)].call]
    <3>1. torn => log[Len(log)] \in Events
      BY <1>1
    <3>2. torn /\ log[Len(log)].call # None => log[Len(log)].call \in Calls
      BY <3>1 DEF Events
    <3> QED
      BY <1>1, <1>4, <2>4, <3>2
  <2> QED
    BY <1>1, <1>4, <2>2, <2>5 DEF Balance
<1>5. ASSUME NEW whole \in BOOLEAN, Appended(EventOf(c), whole),
             written' = [written EXCEPT ![c] = IF whole THEN "whole" ELSE "part"]
      PROVE  Balance'
  <2>0. /\ torn' = ~whole
        /\ \/ torn /\ \E long \in BOOLEAN : log' = [log EXCEPT ![Len(log)] = Garbled(long)]
           \/ ~torn /\ log' = Append(log, EventOf(c))
           \/ ~torn /\ ~whole /\ \E long \in BOOLEAN : log' = Append(log, Garbled(long))
    <3>1. FileOK
      BY DEF IInv
    <3> QED
      BY <1>3, <1>5, <3>1, AppendedIs
  <2>a. ASSUME torn
        PROVE  /\ Len(log) \in DOMAIN log /\ DOMAIN log' = DOMAIN log /\ Len(log') = Len(log)
               /\ log' # <<>> /\ log'[Len(log)].call = None
               /\ \A i \in DOMAIN log \ {Len(log)} : log'[i] = log[i]
    <3>1. PICK long \in BOOLEAN : log' = [log EXCEPT ![Len(log)] = Garbled(long)]
      BY <2>0, <2>a
    <3>2. Len(log) \in DOMAIN log
      BY <1>1, <2>a
    <3>3. DOMAIN log' = DOMAIN log /\ log'[Len(log)] = Garbled(long)
          /\ \A i \in DOMAIN log \ {Len(log)} : log'[i] = log[i]
      BY <3>1, <3>2
    <3>4. Len(log') = Len(log)
      BY <1>1, <1>3, <2>0, <2>a, <3>1
    <3> QED
      BY <1>3, <3>2, <3>3, <3>4
  <2>b. ASSUME ~torn
        PROVE  \E e : /\ log' = Append(log, e) /\ e.call \in {c, None}
                      /\ (whole => e = EventOf(c))
                      /\ DOMAIN log' = 1..(Len(log) + 1) /\ DOMAIN log = 1..Len(log) /\ Len(log) \in Nat
                      /\ Len(log') = Len(log) + 1 /\ log' # <<>>
                      /\ log'[Len(log) + 1] = e /\ \A i \in 1..Len(log) : log'[i] = log[i]
    <3>1. PICK e : log' = Append(log, e) /\ e.call \in {c, None} /\ (whole => e = EventOf(c))
      <4>1. CASE log' = Append(log, EventOf(c))
        BY <1>3, <4>1
      <4>2. CASE ~whole /\ \E long \in BOOLEAN : log' = Append(log, Garbled(long))
        BY <1>3, <4>2
      <4> QED
        BY <2>0, <2>b, <4>1, <4>2
    <3>2. /\ DOMAIN log' = 1..(Len(log) + 1) /\ DOMAIN log = 1..Len(log) /\ Len(log) \in Nat
          /\ Len(log') = Len(log) + 1 /\ log' # <<>>
          /\ log'[Len(log) + 1] = e /\ \A i \in 1..Len(log) : log'[i] = log[i]
      BY <1>1, <3>1
    <3> QED
      BY <3>1, <3>2
  <2>1. torn' = ~whole /\ (torn' => log' # <<>>
             /\ (log'[Len(log')].call # None => written'[log'[Len(log')].call] = "part"))
    <3>1. CASE torn
      BY <2>0, <2>a, <3>1
    <3>2. CASE ~torn
      <4>1. PICK e : log' # <<>> /\ log'[Len(log')] = e /\ e.call \in {c, None}
        BY <2>b, <3>2
      <4>2. ~whole => written'[c] = "part"
        BY <1>1, <1>5
      <4> QED
        BY <2>0, <4>1, <4>2
    <3> QED
      BY <3>1, <3>2
  <2>2. \A d \in Calls : d # c /\ written[d] = "whole" => (HasLine(d)' <=> HasLine(d))
    <3>1. CASE torn
      <4>1. \A d \in Calls : written[d] = "whole" => log[Len(log)].call # d
        BY <1>1, <3>1
      <4>2. \A d \in Calls, i \in DOMAIN log :
               written[d] = "whole" => (log'[i].call = d <=> log[i].call = d)
        BY <1>1, <2>a, <3>1, <4>1
      <4> QED
        BY <2>a, <3>1, <4>2 DEF HasLine
    <3>2. CASE ~torn
      <4>1. PICK e : /\ e.call \in {c, None}
                     /\ DOMAIN log' = 1..(Len(log) + 1) /\ DOMAIN log = 1..Len(log) /\ Len(log) \in Nat
                     /\ log'[Len(log) + 1] = e /\ \A i \in 1..Len(log) : log'[i] = log[i]
        BY <2>b, <3>2
      <4> QED
        BY <1>1, <4>1 DEF HasLine
    <3> QED
      BY <3>1, <3>2
  <2>3. CASE ~whole
    <3>1. written' = [written EXCEPT ![c] = "part"]
      BY <1>5, <2>3
    <3>2. Swallowed' = Swallowed
      BY <1>1, <2>2, <3>1 DEF Swallowed
    <3>3. Parts' = Parts \cup {c}
      BY <1>1, <3>1 DEF Parts
    <3>4. Cardinality(Parts') = Cardinality(Parts) + 1
      BY <1>2, <3>3, OneMoreCall
    <3>5. Cardinality(Swallowed) <= Cardinality(Parts)
      BY <1>1, <1>2 DEF Balance
    <3>6. Cardinality(Swallowed') + 1 <= Cardinality(Parts')
      BY <1>2, <3>2, <3>4, <3>5
    <3>7. torn'
      BY <2>1, <2>3
    <3> QED
      BY <2>1, <3>6, <3>7 DEF Balance
  <2>4. CASE whole /\ torn
    <3>1. written' = [written EXCEPT ![c] = "whole"] /\ ~torn'
      BY <1>5, <2>1, <2>4
    <3>2. Swallowed' \subseteq Swallowed \cup {c} /\ Swallowed' \in SUBSET Calls
      BY <1>1, <2>2, <3>1 DEF Swallowed
    <3>3. Parts' = Parts
      BY <1>1, <3>1 DEF Parts
    <3>4. Swallowed \cup {c} \in SUBSET Calls
      BY <1>2
    <3>5. Cardinality(Swallowed') <= Cardinality(Swallowed \cup {c})
      BY <3>2, <3>4, CallSets, FS_Subset
    <3>6. Cardinality(Swallowed \cup {c}) <= Cardinality(Swallowed) + 1
      BY <1>2, OneMoreCall
    <3>7. Cardinality(Swallowed') \in Nat /\ Cardinality(Swallowed \cup {c}) \in Nat
      BY <3>2, <3>4, CallSets
    <3>8. Cardinality(Swallowed) + 1 <= Cardinality(Parts)
      BY <2>4 DEF Balance
    <3>9. Cardinality(Swallowed') <= Cardinality(Parts')
      BY <1>2, <3>3, <3>5, <3>6, <3>7, <3>8
    <3> QED
      BY <2>1, <3>1, <3>7, <3>9 DEF Balance
  <2>5. CASE whole /\ ~torn
    <3>1. written' = [written EXCEPT ![c] = "whole"] /\ ~torn' /\ log' = Append(log, EventOf(c))
      BY <1>5, <2>0, <2>1, <2>5
    <3>2. HasLine(c)'
      <4>1. log'[Len(log) + 1] = EventOf(c) /\ Len(log) + 1 \in DOMAIN log'
        BY <1>1, <3>1
      <4> QED
        BY <1>3, <4>1 DEF HasLine
    <3>3. Swallowed' = Swallowed
      BY <1>1, <2>2, <3>1, <3>2 DEF Swallowed
    <3>4. Parts' = Parts
      BY <1>1, <3>1 DEF Parts
    <3> QED
      BY <2>5, <3>1, <3>3, <3>4 DEF Balance
  <2> QED
    BY <2>3, <2>4, <2>5
<1> QED
  BY <1>4, <1>5 DEF Record

\* The balance holds all along.
LEMMA BalanceHolds == Spec => []Balance
<1>1. Init => Balance
  <2> SUFFICES ASSUME Init PROVE Balance
    OBVIOUS
  <2>1. Swallowed = {} /\ Parts = {} /\ ~torn
    BY CallsAssumption DEF Init, Swallowed, Parts
  <2> QED
    BY <2>1, FS_EmptySet DEF Balance
<1>2. ASSUME IInv, Balance, [Next]_vars PROVE Balance'
  <2>1. CASE UNCHANGED <<log, torn, written>>
    <3>1. \A c \in Calls : HasLine(c)' <=> HasLine(c)
      BY <2>1 DEF HasLine
    <3>2. Swallowed' = Swallowed /\ Parts' = Parts
      BY <2>1, <3>1 DEF Swallowed, Parts
    <3> QED
      BY <1>2, <2>1, <3>2 DEF Balance
  <2>2. UNCHANGED <<log, torn, written>> \/ \E c \in Calls : Record(c)
    BY <1>2 DEF Next, Send, Serve, Step, Receive, CheckFails, Act, ActFails, Kill, vars, logVars
  <2> QED
    BY <1>2, <2>1, <2>2, RecordKeepsBalance
<1> QED
  BY <1>1, <1>2, InvHolds, PTL DEF Spec

\* Nothing is done before its event was handed to the file; each torn line
\* costs at most one whole event.
THEOREM ActsAreOnFile == Spec => []ActedIsOnFile
<1>1. IInv /\ Balance => ActedIsOnFile
  <2> SUFFICES ASSUME IInv, Balance PROVE ActedIsOnFile
    OBVIOUS
  <2> DEFINE S == {c \in Calls : Acted(c) /\ written[c] = "whole" /\ ~OnFile(c)}
  <2>1. \A c \in Calls : Acted(c) => written[c] # None /\ Cleared(c)
    BY DEF IInv, Progress
  <2>2. ASSUME NEW c \in Calls, Acted(c), HasLine(c) PROVE OnFile(c)
    <3>1. PICK i \in DOMAIN log : log[i].call = c
      BY <2>2 DEF HasLine
    <3>2. log[i] = EventOf(c)
      BY <3>1 DEF IInv, LinesAreEvents
    <3>3. log[i].allowed
      BY <2>1, <2>2, <3>2 DEF EventOf
    <3> QED
      BY <3>1, <3>3 DEF OnFile
  <2>3. S \subseteq Swallowed
    BY <2>2 DEF Swallowed
  <2>4. Swallowed \in SUBSET Calls /\ S \in SUBSET Calls /\ Parts \in SUBSET Calls
    BY DEF Swallowed, Parts
  <2>5. Cardinality(S) <= Cardinality(Swallowed)
    BY <2>3, <2>4, CallSets, FS_Subset
  <2>6. Cardinality(S) \in Nat /\ Cardinality(Swallowed) \in Nat /\ Cardinality(Parts) \in Nat
    BY <2>4, CallSets
  <2> HIDE DEF S
  <2>7. Cardinality(S) <= Cardinality(Parts)
    BY <2>5, <2>6 DEF Balance
  <2> QED
    BY <2>1, <2>7 DEF ActedIsOnFile, S, Parts
<1> QED
  BY <1>1, InvHolds, BalanceHolds, PTL

-----------------------------------------------------------------------------
(* The replies of the event query. *)

\* What line i contributes to a reply to q.
Piece(lines, q, i) ==
  IF i \in Visible(lines, q) /\ Cardinality(Visible(lines, q) \cap 1..i) <= q.limit
    THEN <<lines[i]>> ELSE <<>>

\* What all lines contribute.
Pieces(lines, q) == [i \in DOMAIN lines |-> Piece(lines, q, i)]

\* A reply is what the lines contribute, put together.
LEMMA QueryIsPieces ==
  ASSUME NEW lines, NEW q
  PROVE  Query(lines, q) = FlattenSeq(Pieces(lines, q))
BY DEF Query, Pieces, Piece

\* Each line contributes itself or nothing.
LEMMA PiecesAreLines ==
  ASSUME NEW lines \in Seq(Events), NEW q
  PROVE  Pieces(lines, q) \in Seq(Seq(Events))
<1>1. \A line \in Events : <<line>> \in Seq(Events)
  OBVIOUS
<1>2. <<>> \in Seq(Events)
  OBVIOUS
<1>3. \A i \in DOMAIN lines : lines[i] \in Events
  OBVIOUS
<1>4. \A i \in DOMAIN lines : Piece(lines, q, i) \in Seq(Events)
  BY <1>1, <1>2, <1>3, Zenon DEF Piece
<1>5. DOMAIN lines = 1..Len(lines) /\ Len(lines) \in Nat
  OBVIOUS
<1> QED
  BY <1>4, <1>5 DEF Pieces

\* The start of a sequence continued is the sequence.
LEMMA PrefixOfConcat ==
  ASSUME NEW S, NEW s \in Seq(S), NEW t \in Seq(S)
  PROVE  IsPrefix(s, s \o t)
<1>1. Len(s) \in Nat /\ Len(t) \in Nat /\ Len(s \o t) = Len(s) + Len(t)
  OBVIOUS
<1>2. Len(s) <= Len(s \o t)
  BY <1>1
<1>3. SubSeq(s, 1, Len(s)) = SubSeq(s \o t, 1, Len(s))
  <2>1. CASE Len(s) = 0
    BY <2>1
  <2>2. CASE Len(s) # 0
    <3>1. 1 \in 1..Len(s) /\ Len(s) \in 1..Len(s)
      BY <1>1, <2>2
    <3> QED
      BY <3>1, SubSeqOfConcat1
  <2> QED
    BY <2>1, <2>2
<1> QED
  BY <1>2, <1>3 DEF IsPrefix

\* A line behind the others leaves what the others contribute as it was: it stands
\* behind them in every page, and its own length hides none of them.
LEMMA AppendedStandsBehind ==
  ASSUME NEW lines \in Seq(Events), NEW line \in Events, NEW q
  PROVE  Pieces(Append(lines, line), q)
           = Append(Pieces(lines, q), Piece(Append(lines, line), q, Len(lines) + 1))
<1> DEFINE n    == Len(lines)
           more == Append(lines, line)
<1>1. /\ n \in Nat /\ DOMAIN lines = 1..n /\ DOMAIN more = 1..(n + 1)
      /\ \A i \in 1..n : more[i] = lines[i]
  OBVIOUS
<1>0. \A old \in Seq(Seq(Events)), k \in Nat : DOMAIN old = 1..k => Len(old) = k
  OBVIOUS
<1>2. \A i \in 1..n : 1..i \subseteq 1..n
  BY <1>1
<1>a. 1..n \subseteq 1..(n + 1)
  BY <1>1
<1> HIDE DEF n, more
<1>3. \A i \in 1..n : i \in Visible(more, q) <=> i \in Visible(lines, q)
  <2> SUFFICES ASSUME NEW i \in 1..n PROVE i \in Visible(more, q) <=> i \in Visible(lines, q)
    OBVIOUS
  <2>1. more[i] = lines[i] /\ \A j \in 1..i : more[j] = lines[j]
    BY <1>1, <1>2
  <2> QED
    BY <1>1, <1>a, <2>1 DEF Visible
<1>4. \A i \in 1..n : Visible(more, q) \cap 1..i = Visible(lines, q) \cap 1..i
  BY <1>2, <1>3
<1>5. \A i \in 1..n : Piece(more, q, i) = Piece(lines, q, i)
  BY <1>1, <1>3, <1>4, Zenon DEF Piece
<1>6. /\ Pieces(lines, q) \in Seq(Seq(Events)) /\ Len(Pieces(lines, q)) = n
      /\ \A i \in 1..n : Pieces(lines, q)[i] = Piece(lines, q, i)
  <2>1. Pieces(lines, q) \in Seq(Seq(Events))
    BY PiecesAreLines
  <2>2. DOMAIN Pieces(lines, q) = 1..n /\ \A i \in 1..n : Pieces(lines, q)[i] = Piece(lines, q, i)
    BY <1>1, Zenon DEF Pieces
  <2> QED
    BY <1>0, <1>1, <2>1, <2>2, Zenon
<1>7. more \in Seq(Events)
  BY DEF more
<1>8. /\ Pieces(more, q) \in Seq(Seq(Events)) /\ Len(Pieces(more, q)) = n + 1
      /\ \A i \in 1..(n + 1) : Pieces(more, q)[i] = Piece(more, q, i)
  <2>1. Pieces(more, q) \in Seq(Seq(Events))
    BY <1>7, PiecesAreLines
  <2>2. DOMAIN Pieces(more, q) = 1..(n + 1)
        /\ \A i \in 1..(n + 1) : Pieces(more, q)[i] = Piece(more, q, i)
    BY <1>1, Zenon DEF Pieces
  <2>3. n + 1 \in Nat
    BY <1>1
  <2> QED
    BY <1>0, <2>1, <2>2, <2>3, Zenon
<1>9. Piece(more, q, n + 1) \in Seq(Events)
  BY <1>1, <1>8
<1> QED
  <2> DEFINE old  == Pieces(lines, q)
             new  == Pieces(more, q)
             last == Piece(more, q, n + 1)
  <2>1. /\ old \in Seq(Seq(Events)) /\ Len(old) = n /\ last \in Seq(Events)
        /\ new \in Seq(Seq(Events)) /\ Len(new) = n + 1 /\ new[n + 1] = last
        /\ \A i \in 1..n : new[i] = old[i]
    BY <1>1, <1>5, <1>6, <1>8, <1>9
  <2> HIDE DEF old, new, last
  <2>2. new = Append(old, last)
    BY <1>1, <2>1
  <2> QED
    BY <2>2 DEF old, new, last, n, more

\* A reply of the file with one more line begins with the reply of the file before.
LEMMA AppendKeepsReplies ==
  ASSUME NEW lines \in Seq(Events), NEW line \in Events, NEW q
  PROVE  IsPrefix(Query(lines, q), Query(Append(lines, line), q))
<1> DEFINE last == Piece(Append(lines, line), q, Len(lines) + 1)
<1>1. Pieces(lines, q) \in Seq(Seq(Events))
  BY PiecesAreLines
<1>2. last \in Seq(Events)
  <2>1. Append(lines, line) \in Seq(Events) /\ Len(lines) + 1 \in DOMAIN Append(lines, line)
    OBVIOUS
  <2>2. Append(lines, line)[Len(lines) + 1] \in Events
    BY <2>1
  <2> QED
    BY <2>2 DEF Piece
<1>3. Query(Append(lines, line), q) = FlattenSeq(Append(Pieces(lines, q), last))
  BY QueryIsPieces, AppendedStandsBehind
<1> HIDE DEF last
<1>4. FlattenSeq(Append(Pieces(lines, q), last)) = FlattenSeq(Pieces(lines, q)) \o last
  BY <1>1, <1>2, FlattenSeqAppend
<1>5. FlattenSeq(Pieces(lines, q)) \in Seq(Events)
  BY <1>1, FlattenSeqType
<1>6. IsPrefix(FlattenSeq(Pieces(lines, q)), FlattenSeq(Pieces(lines, q)) \o last)
  BY <1>2, <1>5, PrefixOfConcat
<1> QED
  BY <1>3, <1>4, <1>6, QueryIsPieces

\* The lines a query comes to in a file are those it comes to in the file with one
\* more line, but for that line.
LEMMA VisibleStays ==
  ASSUME NEW lines \in Seq(Events), NEW line \in Events, NEW q
  PROVE  /\ Visible(lines, q) = Visible(Append(lines, line), q) \cap 1..Len(lines)
         /\ Visible(Append(lines, line), q) \subseteq Visible(lines, q) \cup {Len(lines) + 1}
         /\ IsFiniteSet(Visible(lines, q)) /\ IsFiniteSet(Visible(Append(lines, line), q))
<1> DEFINE n    == Len(lines)
           more == Append(lines, line)
<1>1. /\ n \in Nat /\ DOMAIN lines = 1..n /\ DOMAIN more = 1..(n + 1)
      /\ \A i \in 1..n : more[i] = lines[i]
  OBVIOUS
<1>2. \A i \in 1..n : 1..i \subseteq 1..n
  BY <1>1
<1>3. 1..n \subseteq 1..(n + 1) /\ 1..(n + 1) = 1..n \cup {n + 1}
  BY <1>1
<1>4. IsFiniteSet(1..n) /\ IsFiniteSet(1..(n + 1))
  BY <1>1, FS_Interval
<1> HIDE DEF n, more
<1>5. \A i \in 1..n : i \in Visible(more, q) <=> i \in Visible(lines, q)
  <2> SUFFICES ASSUME NEW i \in 1..n PROVE i \in Visible(more, q) <=> i \in Visible(lines, q)
    OBVIOUS
  <2>1. more[i] = lines[i] /\ \A j \in 1..i : more[j] = lines[j]
    BY <1>1, <1>2
  <2> QED
    BY <1>1, <1>3, <2>1 DEF Visible
<1>6. Visible(lines, q) \subseteq 1..n /\ Visible(more, q) \subseteq 1..(n + 1)
  BY <1>1 DEF Visible
<1>7. IsFiniteSet(Visible(lines, q)) /\ IsFiniteSet(Visible(more, q))
  BY <1>4, <1>6, FS_Subset
<1>8. Visible(lines, q) = Visible(more, q) \cap 1..n /\ Visible(more, q) \subseteq Visible(lines, q) \cup {n + 1}
  BY <1>3, <1>5, <1>6
<1> QED
  BY <1>7, <1>8 DEF n, more

\* A full page stays full, and the line behind it adds nothing to it.
LEMMA FullStays ==
  ASSUME NEW lines \in Seq(Events), NEW line \in Events, NEW q \in Queries, Full(lines, q)
  PROVE  /\ Full(Append(lines, line), q)
         /\ Query(Append(lines, line), q) = Query(lines, q)
<1> DEFINE n    == Len(lines)
           more == Append(lines, line)
           V    == Visible(lines, q)
           W    == Visible(more, q)
           last == Piece(more, q, n + 1)
<1>1. /\ V = W \cap 1..n /\ W \subseteq V \cup {n + 1} /\ IsFiniteSet(V) /\ IsFiniteSet(W)
      /\ n \in Nat
  BY VisibleStays
<1>2. Pieces(more, q) = Append(Pieces(lines, q), last)
  BY AppendedStandsBehind
<1>3. Pieces(lines, q) \in Seq(Seq(Events))
  BY PiecesAreLines
<1>4. q.limit \in Nat
  BY QueriesAssumption
<1>a. Cardinality(V) >= q.limit
  BY DEF Full
<1>b. DOMAIN more = 1..(n + 1) /\ V \subseteq 1..n
  BY DEF Visible
<1> HIDE DEF n, more, V, W
<1>5. Cardinality(V) \in Nat /\ Cardinality(W) \in Nat /\ Cardinality(V) <= Cardinality(W)
  BY <1>1, FS_Subset, FS_CardinalityType
<1>6. Cardinality(W) >= q.limit
  BY <1>4, <1>5, <1>a
<1>7. last = <<>>
  <2>1. SUFFICES ASSUME n + 1 \in W PROVE ~(Cardinality(W \cap 1..(n + 1)) <= q.limit)
    BY DEF last, Piece, W
  <2>2. n + 1 \notin V
    BY <1>1, <1>b
  <2>3. W \cap 1..(n + 1) = V \cup {n + 1}
    BY <1>1, <1>b, <2>1
  <2>4. Cardinality(V \cup {n + 1}) = Cardinality(V) + 1
    BY <1>1, <2>2, FS_AddElement
  <2>5. Cardinality(W \cap 1..(n + 1)) = Cardinality(V) + 1
    BY <2>3, <2>4, Zenon
  <2>6. \A k, v, l \in Nat : v >= l /\ k = v + 1 => ~(k <= l)
    OBVIOUS
  <2>7. Cardinality(V) + 1 \in Nat
    BY <1>5
  <2> QED
    BY <1>4, <1>5, <1>a, <2>5, <2>6, <2>7, Zenon
<1>8. FlattenSeq(Append(Pieces(lines, q), <<>>)) = FlattenSeq(Pieces(lines, q)) \o <<>>
  <2>1. <<>> \in Seq(Events)
    OBVIOUS
  <2> QED
    BY <1>3, <2>1, FlattenSeqAppend
<1>9. FlattenSeq(Pieces(lines, q)) \o <<>> = FlattenSeq(Pieces(lines, q))
  <2>1. FlattenSeq(Pieces(lines, q)) \in Seq(Events)
    BY <1>3, FlattenSeqType
  <2> QED
    BY <2>1
<1>10. Query(more, q) = Query(lines, q)
  BY <1>2, <1>7, <1>8, <1>9, QueryIsPieces
<1>11. Full(more, q)
  BY <1>6 DEF Full, W
<1> QED
  BY <1>10, <1>11 DEF more

\* What is behind a line that is too long is not seen: a failed scan fails with one
\* line more, and when the torn line behind it is continued.
LEMMA ScanFailsOn ==
  ASSUME NEW lines \in Seq(Events), NEW new \in Seq(Events), NEW q \in Queries,
         ScanFails(lines, q), Len(lines) <= Len(new),
         \A i \in DOMAIN lines : lines[i].long => new[i].long,
         \A i \in DOMAIN lines : i < Len(lines) => new[i] = lines[i],
         Matches(new[Len(lines)], q) => new[Len(lines)] = lines[Len(lines)]
  PROVE  ScanFails(new, q)
<1>1. /\ DOMAIN lines = 1..Len(lines) /\ DOMAIN new = 1..Len(new) /\ Len(lines) \in Nat /\ Len(new) \in Nat
      /\ DOMAIN lines \subseteq DOMAIN new
  OBVIOUS
<1>2. PICK k \in DOMAIN lines : lines[k].long
  BY DEF ScanFails
<1>3. new[k].long /\ k \in DOMAIN new
  BY <1>1, <1>2
<1>4. ASSUME NEW i \in Visible(new, q) PROVE i \in Visible(lines, q)
  <2>1. i \in DOMAIN new /\ Matches(new[i], q) /\ \A j \in 1..i : ~new[j].long
    BY <1>4 DEF Visible
  <2>2. i < k
    BY <1>1, <1>2, <1>3, <2>1
  <2>3. i \in DOMAIN lines /\ \A j \in 1..i : j \in DOMAIN lines
    BY <1>1, <1>2, <2>1, <2>2
  <2>4. \A j \in 1..i : ~lines[j].long
    BY <2>1, <2>3
  <2>5. i < Len(lines)
    <3>1. i \in Nat /\ k \in Nat /\ k <= Len(lines)
      BY <1>1, <1>2, <2>1
    <3> QED
      BY <1>1, <2>2, <3>1
  <2>6. Matches(lines[i], q)
    BY <2>1, <2>3, <2>5
  <2> QED
    BY <2>3, <2>4, <2>6 DEF Visible
<1>5. IsFiniteSet(Visible(lines, q))
  <2>1. IsFiniteSet(1..Len(lines))
    BY <1>1, FS_Interval
  <2>2. Visible(lines, q) \subseteq 1..Len(lines)
    BY <1>1 DEF Visible
  <2> QED
    BY <2>1, <2>2, FS_Subset
<1>6. Visible(new, q) \subseteq Visible(lines, q)
  BY <1>4
<1> HIDE DEF Visible
<1>7. /\ Cardinality(Visible(new, q)) <= Cardinality(Visible(lines, q))
      /\ Cardinality(Visible(new, q)) \in Nat /\ Cardinality(Visible(lines, q)) \in Nat
  BY <1>5, <1>6, FS_Subset, FS_CardinalityType
<1>8. q.limit \in Nat
  BY QueriesAssumption
<1>9. ~Full(new, q)
  BY <1>7, <1>8 DEF ScanFails, Full
<1> QED
  BY <1>3, <1>9 DEF ScanFails

\* No step changes the file but by adding a line behind the others or, when the last
\* one is torn, by making of it a longer one that does not decode.
LEMMA FileOnlyGrows ==
  ASSUME IInv, [Next]_vars
  PROVE  \/ log' = log
         \/ ~torn /\ \E line \in Events : log' = Append(log, line)
         \/ torn /\ \E long \in BOOLEAN : /\ log[Len(log)].long => long
                                          /\ log' = [log EXCEPT ![Len(log)] = Garbled(long)]
<1> DEFINE Grown == \/ ~torn /\ \E line \in Events : log' = Append(log, line)
                    \/ torn /\ \E long \in BOOLEAN : /\ log[Len(log)].long => long
                                                     /\ log' = [log EXCEPT ![Len(log)] = Garbled(long)]
<1>1. ASSUME NEW c \in Calls, Record(c) PROVE log' = log \/ Grown
  <2>1. answer[c] # None
    BY <1>1 DEF Record, Goto, IInv, Progress
  <2>2. /\ EventOf(c) \in Events /\ EventOf(c).long \in BOOLEAN
        /\ \A long \in BOOLEAN : Garbled(long) \in Events
    BY <2>1, EventsAreLines DEF IInv, Events
  <2>3. log' = log \/ \E whole \in BOOLEAN : Appended(EventOf(c), whole)
    BY <1>1 DEF Record
  <2>4. ASSUME NEW whole \in BOOLEAN, Appended(EventOf(c), whole) PROVE Grown
    <3>1. CASE ~torn
      <4>1. FileOK
        BY DEF IInv
      <4> QED
        BY <2>2, <2>4, <3>1, <4>1, AppendedIs
    <3>2. CASE torn
      <4>1. PICK line \in Lines(EventOf(c), whole) :
               \E long \in {TRUE, line.long \/ log[Len(log)].long} :
                 log' = [log EXCEPT ![Len(log)] = Garbled(long)]
        BY <2>4, <3>2 DEF Appended
      <4>2. PICK long \in {TRUE, line.long \/ log[Len(log)].long} :
              log' = [log EXCEPT ![Len(log)] = Garbled(long)]
        BY <4>1
      <4>3. long \in BOOLEAN /\ (log[Len(log)].long => long)
        BY <4>2
      <4> QED
        BY <3>2, <4>2, <4>3
    <3> QED
      BY <3>1, <3>2
  <2> QED
    BY <2>3, <2>4
<1>2. log' = log \/ \E c \in Calls : Record(c)
  BY DEF Next, Send, Serve, Step, Receive, CheckFails, Act, ActFails, Kill, vars, logVars
<1> QED
  BY <1>1, <1>2

\* What the property says of one query.
Kept(q) ==
  /\ Reply(log, q).failed => Reply(log', q).failed
  /\ ~torn => Reply(log', q).failed \/ IsPrefix(Reply(log, q).events, Reply(log', q).events)
  /\ ~torn /\ Full(log, q) => Reply(log', q) = Reply(log, q)

\* A reply is a page or a failure.
LEMMA ReplyIs ==
  ASSUME NEW lines, NEW q
  PROVE  /\ Reply(lines, q).failed = ScanFails(lines, q)
         /\ ~ScanFails(lines, q) => Reply(lines, q).events = Query(lines, q)
         /\ ~ScanFails(lines, q) => Reply(lines, q) = [failed |-> FALSE, events |-> Query(lines, q)]
<1>1. ScanFails(lines, q) \in BOOLEAN
  BY DEF ScanFails
<1> HIDE DEF ScanFails, Query
<1> QED
  BY <1>1 DEF Reply

\* A line behind the others keeps every reply.
LEMMA AppendKept ==
  ASSUME NEW q \in Queries, NEW line \in Events, log \in Seq(Events), log' = Append(log, line)
  PROVE  Kept(q)
<1>1. log' \in Seq(Events) /\ Len(log') = Len(log) + 1 /\ Len(log) \in Nat
      /\ \A i \in DOMAIN log : log'[i] = log[i]
  OBVIOUS
<1>2. ScanFails(log, q) => ScanFails(log', q)
  <2>1. SUFFICES ASSUME ScanFails(log, q) PROVE ScanFails(log', q)
    OBVIOUS
  <2>2. Len(log) \in DOMAIN log
    BY <1>1, <2>1 DEF ScanFails
  <2>3. log'[Len(log)] = log[Len(log)] /\ Len(log) <= Len(log')
    BY <1>1, <2>2
  <2>4. \A i \in DOMAIN log : log[i].long => log'[i].long
    BY <1>1
  <2>5. \A i \in DOMAIN log : i < Len(log) => log'[i] = log[i]
    BY <1>1
  <2> QED
    BY <1>1, <2>1, <2>3, <2>4, <2>5, ScanFailsOn, Zenon
<1>3. IsPrefix(Query(log, q), Query(log', q))
  BY AppendKeepsReplies
<1>4. Full(log, q) => Full(log', q) /\ Query(log', q) = Query(log, q)
  BY FullStays
<1>5. /\ Full(log, q) => ~ScanFails(log, q)
      /\ Full(log', q) => ~ScanFails(log', q)
  BY DEF ScanFails
<1> HIDE DEF ScanFails, Query, Full
<1>6. /\ Reply(log, q).failed => Reply(log', q).failed
      /\ Reply(log', q).failed \/ IsPrefix(Reply(log, q).events, Reply(log', q).events)
  BY <1>2, <1>3, ReplyIs
<1>7. Full(log, q) => Reply(log', q) = Reply(log, q)
  BY <1>4, <1>5, ReplyIs
<1> QED
  BY <1>6, <1>7, Zenon DEF Kept

\* A torn line that is continued makes no failed scan succeed.
LEMMA MergeKept ==
  ASSUME NEW q \in Queries, FileOK, torn, NEW long \in BOOLEAN, log[Len(log)].long => long,
         log' = [log EXCEPT ![Len(log)] = Garbled(long)]
  PROVE  Kept(q)
<1>1. log \in Seq(Events) /\ Len(log) \in DOMAIN log /\ Len(log) \in Nat
  BY DEF FileOK
<1>2. /\ Len(log') = Len(log) /\ log'[Len(log)] = Garbled(long)
      /\ \A i \in DOMAIN log : i < Len(log) => log'[i] = log[i]
  BY <1>1
<1>3. Garbled(long) \in Events
  BY DEF Events, Garbled
<1>4. log' \in Seq(Events)
  BY <1>1, <1>3
<1>5. \A i \in DOMAIN log : log[i].long => log'[i].long
  <2>1. \A i \in DOMAIN log : i < Len(log) \/ i = Len(log)
    BY <1>1
  <2> QED
    BY <1>2, <2>1 DEF Garbled
<1>6. ~Matches(log'[Len(log)], q)
  <2>1. Garbled(long).call = None /\ None \notin Calls /\ q.calls \subseteq Calls
    BY CallsAssumption, QueriesAssumption DEF Garbled
  <2> QED
    BY <1>2, <2>1 DEF Matches
<1>7. Len(log) <= Len(log')
  BY <1>1, <1>2
<1>8. ScanFails(log, q) => ScanFails(log', q)
  BY <1>1, <1>2, <1>4, <1>5, <1>6, <1>7, ScanFailsOn, Zenon
<1> QED
  BY <1>8, ReplyIs DEF Kept

\* Whoever reads the event file again finds what was found before, in the same
\* place, or an error from then on, for every query and any number of calls.
THEOREM RepliesKeepTheirEvents == Spec => RepliesGrowOrFail
<1>1. ASSUME IInv, [Next]_vars, NEW q \in Queries, log' # log PROVE Kept(q)
  <2>1. log \in Seq(Events) /\ FileOK
    BY <1>1 DEF IInv, FileOK
  <2>2. \/ \E line \in Events : log' = Append(log, line)
        \/ torn /\ \E long \in BOOLEAN : /\ log[Len(log)].long => long
                                         /\ log' = [log EXCEPT ![Len(log)] = Garbled(long)]
    BY <1>1, FileOnlyGrows
  <2> QED
    BY <2>1, <2>2, AppendKept, MergeKept
<1>2. IInv /\ [Next]_vars => [\A q \in Queries : Kept(q)]_log
  BY <1>1
<1>3. IInv /\ [Next]_vars =>
        [\A q \in Queries :
           LET old == Reply(log, q)
               new == Reply(log', q)
           IN /\ old.failed => new.failed
              /\ ~torn => new.failed \/ IsPrefix(old.events, new.events)
              /\ ~torn /\ Full(log, q) => new = old]_log
  BY <1>2 DEF Kept
<1> QED
  BY <1>3, InvHolds, PTL DEF Spec, RepliesGrowOrFail
=============================================================================
