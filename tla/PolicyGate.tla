----------------------------- MODULE PolicyGate -----------------------------
(***************************************************************************)
(* The policy gate of internal/shim: calls that want to run a command or   *)
(* touch a file ask the API for a decision (http.go), record an event      *)
(* (events.go) and then act, or do not (enforcer.go).                      *)
(*                                                                         *)
(* Calls are independent processes, one datafog-shim each, that share the  *)
(* API and the event file.  The API saves a receipt before it answers; the *)
(* answer may be late, lost or unreadable, and a call may be killed        *)
(* anywhere.  An event is one line of the file, of which the disk may keep *)
(* a part: torn says that the last line lacks its newline, so that the     *)
(* next event continues it and neither of the two decodes any more.        *)
(***************************************************************************)
EXTENDS Naturals, FiniteSets, SequencesExt

CONSTANTS
  Calls,      \* the gated actions, one process each
  None,       \* no answer, no receipt, a line that does not decode
  Profiles,   \* the settings a call may have: [kind, mode, strict, found]
  LongCalls,  \* calls whose event line exceeds the scanner's 1 MiB
  Queries     \* what readers of the event file ask for: [decision, calls, limit]

Kinds     == {"shell", "command", "read", "write"}
Modes     == {"enforced", "observe", ""}
Decisions == {"allow", "allow_with_redaction", "transform", "deny"}
\* What the client may find in a 200 response: a decision or something else.
Answers   == Decisions \cup {"other"}

\* found: do the bytes read or written hold anything that the scanner finds (or the
\* request's findings name) and the plan has a step for?
ASSUME ProfilesAssumption ==
  Profiles \subseteq [kind : Kinds, mode : Modes, strict : BOOLEAN, found : BOOLEAN]
ASSUME CallsAssumption ==
  /\ IsFiniteSet(Calls) /\ None \notin Calls \cup Answers \cup {"error", "whole", "part", "lost"}
  /\ LongCalls \subseteq Calls
\* handleEvents: a decision or any; a time range and an adapter, told by the calls
\* whose events they let through; a number of events.
ASSUME QueriesAssumption ==
  Queries \subseteq [decision : Answers \cup {""}, calls : SUBSET Calls, limit : Nat \ {0}]

VARIABLES
  pc,       \* where each call is
  profile,  \* its kind of action, its Mode, its EnforcePolicyErrors and its content
  receipt,  \* the decision the API saved a receipt of, None before
  answer,   \* what Check returned: an answer, or "error"
  log,      \* the event file: its lines
  torn,     \* does the last line lack its newline?
  written,  \* what became of the call's event: None, "whole", "part", "lost"
  effect    \* what the call did to the world: "none", "raw", "redacted"

vars    == <<pc, profile, receipt, answer, log, torn, written, effect>>
logVars == <<log, torn, written>>

Events == [call : Calls \cup {None}, decision : Answers \cup {None}, allowed : BOOLEAN,
           cites : Answers \cup {None},
           long : BOOLEAN]   \* does the line exceed the scanner's 1 MiB?

-----------------------------------------------------------------------------
Init ==
  /\ pc = [c \in Calls |-> "idle"]
  /\ profile \in [Calls -> Profiles]
  /\ receipt = [c \in Calls |-> None] /\ answer = [c \in Calls |-> None]
  /\ log = <<>> /\ torn = FALSE /\ written = [c \in Calls |-> None]
  /\ effect = [c \in Calls |-> "none"]

Goto(c, from, to) == pc[c] = from /\ pc' = [pc EXCEPT ![c] = to]

\* A call builds its request and sends it: Check, Decide.
Send(c) == Goto(c, "idle", "asking") /\ UNCHANGED <<profile, receipt, answer, logVars, effect>>

\* The API decides and saves the receipt; the client may have given up by then.
Serve(c) ==
  /\ pc[c] # "idle" /\ receipt[c] = None
  /\ \E d \in Decisions : receipt' = [receipt EXCEPT ![c] = d]
  /\ UNCHANGED <<pc, profile, answer, logVars, effect>>

\* The response arrives; a 200 whose body is no decision decodes all the same.
Receive(c) ==
  /\ Goto(c, "asking", "told")
  /\ \E a \in {receipt[c], "other"} \ {None} : answer' = [answer EXCEPT ![c] = a]
  /\ UNCHANGED <<profile, receipt, logVars, effect>>

\* Mutant: the client has no timeout and waits for the API.
CheckFailsServed(c) ==
  /\ receipt[c] # None
  /\ Goto(c, "asking", "told")
  /\ answer' = [answer EXCEPT ![c] = "error"]
  /\ UNCHANGED <<profile, receipt, logVars, effect>>

\* No connection, the 5 s timeout of the client, another status, no JSON.
CheckFails(c) ==
  /\ Goto(c, "asking", "told")
  /\ answer' = [answer EXCEPT ![c] = "error"]
  /\ UNCHANGED <<profile, receipt, logVars, effect>>

-----------------------------------------------------------------------------
permitDecision(d) == d \in {"allow", "allow_with_redaction"}

\* Mutant: an unknown decision is not a denial.
AllowUnlessDenied(c) == answer[c] # "deny" \/ profile[c].mode = "observe"

shouldAllow(c) == permitDecision(answer[c]) \/ profile[c].mode = "observe"

shouldBlockOnPolicyError(c) == profile[c].mode = "enforced" \/ profile[c].strict

Cleared(c) == IF answer[c] = "error" THEN ~shouldBlockOnPolicyError(c) ELSE shouldAllow(c)

\* The decision an event and the caller are given: the fallback of an error
\* that does not block is an allow without a receipt.
Reported(c) ==
  CASE answer[c] = "error" /\ Cleared(c)  -> "allow"
    [] answer[c] = "error" /\ ~Cleared(c) -> None
    [] OTHER                              -> answer[c]

\* Mutant: allowed says whether the API permits the action.
EventOfDecision(c) ==
  [call |-> c, decision |-> Reported(c), allowed |-> permitDecision(answer[c]),
   cites |-> IF answer[c] \in Decisions THEN answer[c] ELSE None, long |-> c \in LongCalls]

EventOf(c) ==
  [call |-> c, decision |-> Reported(c), allowed |-> Cleared(c),
   cites |-> IF answer[c] \in Decisions THEN answer[c] ELSE None, long |-> c \in LongCalls]

\* A line that does not decode.
Garbled(long) ==
  [call |-> None, decision |-> None, allowed |-> FALSE, cites |-> None, long |-> long]

\* Mutant: the sink truncates the file it opens.
AppendedTruncating(event, whole) ==
  log' = <<IF whole THEN event ELSE Garbled(event.long)>> /\ torn' = ~whole

\* What one write leaves: the event, also when only its newline is missing, or a
\* beginning of it.
Lines(event, whole) ==
  {event} \cup IF whole THEN {} ELSE {Garbled(long) : long \in {FALSE, event.long}}

\* One write at the end of the file.  Behind a torn line it makes one line with it,
\* which is no shorter than either of them.
Appended(event, whole) ==
  /\ \E line \in Lines(event, whole) :
       \/ ~torn /\ log' = Append(log, line)
       \/ /\ torn
          /\ \E long \in {TRUE, line.long \/ log[Len(log)].long} :
               log' = [log EXCEPT ![Len(log)] = Garbled(long)]
  /\ torn' = ~whole

\* recordDecisionEvent: the sink reports no failure, so the call goes on with
\* or without its event.
Record(c) ==
  /\ Goto(c, "told", IF Cleared(c) THEN "cleared" ELSE "blocked")
  /\ \/ /\ \E whole \in BOOLEAN :
             /\ Appended(EventOf(c), whole)
             /\ written' = [written EXCEPT ![c] = IF whole THEN "whole" ELSE "part"]
     \/ /\ written' = [written EXCEPT ![c] = "lost"] /\ UNCHANGED <<log, torn>>
  /\ UNCHANGED <<profile, receipt, answer, effect>>

\* The decisions that Evaluate returns with a plan, its rules' or the default one:
\* an answer of any other has none.
HasPlan(d) == d \in {"transform", "allow_with_redaction"}

\* Mutant: what is written is not redacted.
RedactsReads(c) ==
  /\ answer[c] = "allow_with_redaction" /\ HasPlan(answer[c])
  /\ profile[c].kind = "read"
  /\ profile[c].found

\* ReadFile and WriteFile apply the plan they were given to what is found in the
\* bytes; ExecuteShell and ExecuteCommand never do.
Redacts(c) ==
  /\ answer[c] = "allow_with_redaction" /\ HasPlan(answer[c])
  /\ profile[c].kind \in {"read", "write"}
  /\ profile[c].found

\* Mutant: the action comes before the event.
ActEarly(c) ==
  /\ pc[c] = "told" /\ Cleared(c) /\ effect[c] = "none"
  /\ effect' = [effect EXCEPT ![c] = IF Redacts(c) THEN "redacted" ELSE "raw"]
  /\ UNCHANGED <<pc, profile, receipt, answer, logVars>>

\* The runner, reader or writer does its work.
Act(c) ==
  /\ Goto(c, "cleared", "done")
  /\ effect' = [effect EXCEPT ![c] = IF Redacts(c) THEN "redacted" ELSE "raw"]
  /\ UNCHANGED <<profile, receipt, answer, logVars>>

\* The work fails before it had an effect: no such binary, permission denied.
ActFails(c) ==
  /\ Goto(c, "cleared", "done")
  /\ UNCHANGED <<profile, receipt, answer, logVars, effect>>

\* The process is killed.
Kill(c) ==
  /\ pc[c] \notin {"idle", "done", "blocked", "killed"}
  /\ pc' = [pc EXCEPT ![c] = "killed"]
  /\ UNCHANGED <<profile, receipt, answer, logVars, effect>>

Step(c) == Receive(c) \/ CheckFails(c) \/ Record(c) \/ Act(c) \/ ActFails(c)

Next == \E c \in Calls : Send(c) \/ Serve(c) \/ Step(c) \/ Kill(c)

\* Only the client's own timeout ends its wait for the API, and the answer is
\* then dealt with.  Nothing is assumed of the API, or of the work itself.
Spec == Init /\ [][Next]_vars
FairSpec == Spec /\ \A c \in Calls : WF_vars(CheckFails(c)) /\ WF_vars(Record(c))

-----------------------------------------------------------------------------
(* Reading the event file: NDJSONDecisionEventSink.Query *)

\* The filters of a query; a line that does not decode passes none.
Matches(event, q) == event.call \in q.calls /\ q.decision \in {"", event.decision}

\* The scanner stops at a line that is too long.
Visible(lines, q) ==
  {i \in DOMAIN lines : Matches(lines[i], q) /\ \A j \in 1..i : ~lines[j].long}

\* The events the scanner comes to: the first of those that match, as many as asked
\* for, oldest first.
Query(lines, q) ==
  FlattenSeq([i \in DOMAIN lines |->
    IF i \in Visible(lines, q) /\ Cardinality(Visible(lines, q) \cap 1..i) <= q.limit
      THEN <<lines[i]>> ELSE <<>>])

\* The page is full: Query stops reading, whatever comes behind.
Full(lines, q) == Cardinality(Visible(lines, q)) >= q.limit

\* scanner.Err: it came to a line that is too long.
ScanFails(lines, q) == (\E i \in DOMAIN lines : lines[i].long) /\ ~Full(lines, q)

\* handleEvents: the events, or a 500 without any when the scanner failed.
Reply(lines, q) ==
  [failed |-> ScanFails(lines, q), events |-> IF ScanFails(lines, q) THEN <<>> ELSE Query(lines, q)]

-----------------------------------------------------------------------------
(* Properties *)

\* Every variable stays in its range, whatever the disk and the network do.
TypeOK ==
  /\ pc \in [Calls -> {"idle", "asking", "told", "cleared", "blocked", "done", "killed"}]
  /\ profile \in [Calls -> Profiles]
  /\ receipt \in [Calls -> Decisions \cup {None}]
  /\ answer \in [Calls -> Answers \cup {"error", None}]
  /\ log \in Seq(Events) /\ torn \in BOOLEAN
  /\ written \in [Calls -> {None, "whole", "part", "lost"}]
  /\ effect \in [Calls -> {"none", "raw", "redacted"}]

Acted(c) == effect[c] # "none"

\* Nothing happens in enforced mode that the API did not permit, and had not
\* put on record before, whatever the network and the process do meanwhile; a
\* strict call never acts without an answer.
EnforcedNeedsReceipt ==
  \A c \in Calls : Acted(c) =>
    /\ profile[c].mode = "enforced" => permitDecision(receipt[c])
    /\ profile[c].strict => answer[c] # "error"

OnFile(c) == \E i \in DOMAIN log : log[i].call = c /\ log[i].allowed

\* Nothing is done before its event was handed to the file, and what was
\* written whole stays there, but for one event that each torn line may swallow.
ActedIsOnFile ==
  /\ \A c \in Calls : Acted(c) => written[c] # None
  /\ Cardinality({c \in Calls : Acted(c) /\ written[c] = "whole" /\ ~OnFile(c)})
       <= Cardinality({c \in Calls : written[c] = "part"})

\* The event file tells the truth: an event marked as blocked is of a call that
\* never acts, one marked as allowed of a call that may act, has acted, failed to or
\* was killed first, a receipt is cited as the API saved it, and no event is doubled.
EventsTellTruth ==
  \A i \in DOMAIN log : log[i].call # None =>
    /\ ~log[i].allowed => pc[log[i].call] # "cleared" /\ ~Acted(log[i].call)
    /\ log[i].allowed => pc[log[i].call] \in {"cleared", "done", "killed"}
    /\ log[i].cites # None => receipt[log[i].call] = log[i].cites
    /\ \A j \in DOMAIN log : log[j].call = log[i].call => i = j

\* Where the API has put on record that a file is to be redacted, bytes that hold
\* something to redact are read or written as they are only by a call that never got
\* that answer and whose settings let it go on regardless: past an error in a mode
\* that does not block on errors, past an unknown decision in observe mode.
RecordedRedactionHolds ==
  \A c \in Calls :
    /\ receipt[c] = "allow_with_redaction" /\ effect[c] = "raw"
    /\ profile[c].kind \in {"read", "write"} /\ profile[c].found
    => \/ answer[c] = "error" /\ profile[c].mode # "enforced" /\ ~profile[c].strict
       \/ answer[c] = "other" /\ profile[c].mode = "observe"

\* What /v1/events replied stays: while the file is whole, a later reply to the same
\* query begins with the same events or fails, a page that was full stays as it is,
\* whatever is appended, and a query that failed fails for ever.  Only the event of a
\* torn line may go.
RepliesGrowOrFail ==
  [][\A q \in Queries :
       LET old == Reply(log, q)
           new == Reply(log', q)
       IN /\ old.failed => new.failed
          /\ ~torn => new.failed \/ IsPrefix(old.events, new.events)
          /\ ~torn /\ Full(log, q) => new = old]_log

\* Every call that asked is cleared or blocked in the end, even if the API never
\* answers.
CallsAreSettled ==
  \A c \in Calls : pc[c] = "asking" ~> pc[c] \in {"cleared", "blocked", "killed"}
=============================================================================
