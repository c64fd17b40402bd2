---------------------------- MODULE DemoEndpoints ----------------------------
(***************************************************************************)
(* The demo endpoints (internal/server/demo.go) inside the server's frame: *)
(* a gated operation asks the server that runs it for a decision, over     *)
(* loopback and through the same middleware, and then works on a file of   *)
(* the sandbox directory, which all requests share without a lock.         *)
(*                                                                         *)
(* What the gate makes of a decision is PolicyGate's; here it is the       *)
(* enforcing gate of the demo, which permits or blocks.                    *)
(***************************************************************************)
EXTENDS ServerFrame

CONSTANTS
  Clients,  \* the requests that clients send
  Inner     \* the loopback request that each of them makes if it is gated

ASSUME InnerAssumption ==
  /\ Clients \subseteq Reqs /\ Inner \in [Clients -> Reqs \ Clients]
  /\ \A r, q \in Clients : r # q => Inner[r] # Inner[q]
  /\ \A scenario \in Scenarios, r \in Reqs \ Clients :
       scenario[r] = [method |-> "POST", token |-> TRUE, route |-> "/v1/decide"]

Steps == {"asked", "act", "write", "readback", "acted", "ended"}

ASSUME StepAssumption == None \notin Steps

VARIABLES
  step,  \* where a demo handler is: None, asked, act, write, read back, acted
  file,  \* the file in the sandbox: who wrote it, "part" while that is going on, or None
  shown  \* the content that a response reports

demoVars == <<step, file, shown>>
vars == <<frameVars, demoVars>>

Writers == {"/demo/write-file", "/demo/seed"}

DemoInit ==
  /\ Init
  /\ step = [r \in Clients |-> None] /\ file = None /\ shown = [r \in Clients |-> None]

Step(r, from, to) == Running /\ step[r] = from /\ step' = [step EXCEPT ![r] = to]
Demo(r, routes) == InHandler(r, routes) /\ req[r].method = "POST"

\* The handler answers; a gated operation that failed or was blocked says so in a 200.
Finish(r, s) ==
  /\ Respond(r, "handler", s)
  /\ UNCHANGED <<life, now, due, bucket, req, hits, snap, before, window>>

Ends(r, from) == Step(r, from, "ended") /\ Finish(r, 200) /\ UNCHANGED <<file, shown>>

\* The body does not decode, or names no command, file or content.
BadBody(r) ==
  /\ Demo(r, Gated \cup {"/demo/seed"}) /\ step[r] = None
  /\ Finish(r, 400) /\ UNCHANGED demoVars

\* The text is scanned; the gate calls the server, which may listen no longer.
Ask(r) ==
  /\ Demo(r, Gated) /\ Step(r, None, "asked")
  /\ Accept(Inner[r])
  /\ UNCHANGED <<life, now, due, bucket, req, status, tally, hits, snap, window, file, shown>>

\* The whole body is a decision: nothing of a late panic is behind it.
Decided(r) == pc[Inner[r]] = "answered" /\ status[Inner[r]] = 200 /\ tally[Inner[r]] = 200

\* Mutant: without an answer the gate lets the operation through.
PermittedIfNotDenied(r) ==
  /\ Step(r, "asked", "act")
  /\ pc[Inner[r]] \in {"answered", "refused", "lost"}
  /\ UNCHANGED <<frameVars, file, shown>>

\* A decision that permits.
Permitted(r) ==
  /\ Step(r, "asked", "act") /\ Decided(r)
  /\ UNCHANGED <<frameVars, file, shown>>

\* A decision that denies, an error, or none in time (the client's 5 s, the handler's 10 s).
Blocked(r) == Ends(r, "asked")

\* The command ran, or the file was read, or the system refused that.
Execute(r) ==
  /\ step[r] = "act" /\ req[r].route = "/demo/exec"
  /\ Step(r, "act", "acted") /\ Finish(r, 200) /\ UNCHANGED <<file, shown>>

ReadFile(r) ==
  /\ step[r] = "act" /\ req[r].route = "/demo/read-file"
  /\ Step(r, "act", "acted") /\ Finish(r, 200)
  /\ shown' = [shown EXCEPT ![r] = file] /\ UNCHANGED file

\* os.WriteFile truncates and writes; seed does so without the gate.  After
\* Cleanup there is no directory to create the file in.
Truncate(r) ==
  /\ \/ step[r] = "act" /\ req[r].route = "/demo/write-file" /\ Step(r, "act", "write")
     \/ Demo(r, {"/demo/seed"}) /\ Step(r, None, "write")
  /\ file' = "part" /\ UNCHANGED <<frameVars, shown>>

\* Mutant: what is written reaches the file later.
WriteLater(r) ==
  /\ Step(r, "write", IF req[r].route = "/demo/seed" THEN "acted" ELSE "readback")
  /\ UNCHANGED <<file, shown>>
  /\ IF req[r].route = "/demo/seed" THEN Finish(r, 200) ELSE UNCHANGED frameVars

Write(r) ==
  /\ Step(r, "write", IF req[r].route = "/demo/seed" THEN "acted" ELSE "readback")
  /\ file' = r /\ UNCHANGED shown
  /\ IF req[r].route = "/demo/seed" THEN Finish(r, 200) ELSE UNCHANGED frameVars

\* The disk is full: a seed says so, a write is reported as blocked.
WriteFails(r) ==
  /\ Step(r, "write", "ended") /\ Finish(r, IF req[r].route = "/demo/seed" THEN 500 ELSE 200)
  /\ UNCHANGED <<file, shown>>

\* "Read back what was actually written" (demo.go:204).
ReadBack(r) ==
  /\ Step(r, "readback", "acted") /\ Finish(r, 200)
  /\ shown' = [shown EXCEPT ![r] = file] /\ UNCHANGED file

\* A demo handler panics, wherever it is, and is through.
Panics(r) ==
  /\ Demo(r, Gated \cup {"/demo/seed"})
  /\ Step(r, step[r], "ended") /\ Finish(r, 500) /\ UNCHANGED <<file, shown>>

Frame(r) == Serve(r) /\ UNCHANGED demoVars

\* main's deferred Cleanup removes the sandbox before the process exits.
Cleanup == Stop /\ file' = None /\ UNCHANGED <<step, shown>>

Client(r) ==
  \/ Arrive(r) /\ UNCHANGED demoVars
  \/ BadBody(r) \/ Ask(r) \/ Permitted(r) \/ Blocked(r) \/ Execute(r) \/ ReadFile(r)
  \/ Truncate(r) \/ Write(r) \/ WriteFails(r) \/ ReadBack(r) \/ Panics(r)

Next ==
  \/ \E r \in Clients : Client(r)
  \/ \E r \in Reqs : Frame(r)
  \/ Process /\ UNCHANGED demoVars
  \/ Cleanup

\* Time passes, and main goes on with its shutdown; at the deadline Close ends
\* what still goes on.  Nothing is assumed of handlers or of profiles.
Fairness ==
  /\ WF_vars(Tick /\ UNCHANGED demoVars)
  /\ WF_vars(ProfilingDown /\ now >= due /\ UNCHANGED demoVars)
  /\ WF_vars(Cleanup)
Spec == DemoInit /\ [][Next]_vars /\ Fairness
-----------------------------------------------------------------------------
(* Properties *)

Acted(r) == step[r] \in {"act", "write", "readback", "acted"}

\* The demo works on a gated operation only after a decide call of its own
\* that the server let through its limiter, answered with a permission and
\* counted; no answer, a refusal while it shuts down and an error block it.
ActedOnADecision ==
  \A r \in Clients : Acted(r) /\ req[r].route \in Gated =>
    Inner[r] \in Counted /\ status[Inner[r]] = 200 /\ tally[Inner[r]] = 200

\* What a write reports to have written is what it wrote, unless another write
\* or seed was at the file that had not been answered when this one arrived.
ReadBackIsOwn ==
  \A r \in Clients : shown[r] # None /\ req[r].route = "/demo/write-file" =>
    \/ shown[r] = r
    \/ \E q \in Clients \ {r} : q \notin before[r] /\ step[q] # None /\ req[q].route \in Writers
=============================================================================
