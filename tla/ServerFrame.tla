----------------------------- MODULE ServerFrame -----------------------------
(***************************************************************************)
(* What the API does around every handler (internal/server/server.go,      *)
(* wrapMiddleware): token check, rate limit, routing, recovery from a      *)
(* panic, counters; the life of the process (cmd/datafog-api/main.go) from *)
(* its start to a signal, the shutdown of its two servers and its end; and *)
(* the handlers that only read: /health, /v1/policy/version, /v1/receipts, *)
(* /v1/events and /metrics.                                                *)
(*                                                                         *)
(* Each request is served by a goroutine of its own.  net/http finishes a  *)
(* response after the handler, and with it the deferred count, returned.   *)
(***************************************************************************)
EXTENDS Integers, FiniteSets

CONSTANTS
  Reqs,      \* the requests
  Scenarios, \* what the requests ask for, in each behaviour that is looked at
  Rate,      \* DATAFOG_RATE_LIMIT_RPS, 0 for no limit
  Ticks,     \* how many ticks of the clock make a second
  Timeout,   \* DATAFOG_SHUTDOWN_TIMEOUT, in ticks
  MaxTime,   \* bound: the last tick
  Profiling, \* is there a profiling server (DATAFOG_PPROF_ADDR)?
  None

\* One route for each class of handlers that this module tells apart: those that read
\* and may find nothing, those that work on a body, /metrics; and the demo's.
Plain == {"/v1/receipts/{id}", "/v1/decide", "/metrics"}
Gated == {"/demo/write-file", "/demo/read-file", "/demo/exec"}
Routes == Plain \cup Gated \cup {"/demo/seed", "/demo/sandbox"}
MethodOf(route) == IF route \in {"/v1/receipts/{id}", "/metrics", "/demo/sandbox"} THEN "GET" ELSE "POST"

Request == [method : {"GET", "POST", "OPTIONS"}, token : BOOLEAN, route : Routes \cup {None}]
Statuses == {200, 204, 400, 401, 404, 405, 429, 500}

ASSUME ScenariosAssumption == IsFiniteSet(Reqs) /\ Scenarios \subseteq [Reqs -> Request]
ASSUME TimeAssumption == Rate \in Nat /\ Ticks \in Nat \ {0} /\ Timeout \in Nat /\ MaxTime \in Nat
ASSUME NoneAssumption == None \notin Routes /\ None \notin Nat

VARIABLES
  life,    \* the process: starting, serving, profiling (its server is being shut
           \* down), draining, down, failed
  now,     \* the clock
  due,     \* when the shutdown gives up
  bucket,  \* the rate limiter: tokens, in parts of Ticks, and when it was filled
  req,     \* what each request asks for
  pc,      \* where it is
  status,  \* the status of its response
  tally,   \* the status that its deferred function counts
  hits,    \* the counters
  snap,    \* the total that a /metrics request read
  before,  \* ghost: the requests that were answered when a /metrics or a write arrived
  window   \* ghost: a stretch of time and the tokens spent in it

frameVars == <<life, now, due, bucket, req, pc, status, tally, hits, snap, before, window>>

-----------------------------------------------------------------------------
\* Ghost: the tokens that are spent from some tick on are counted.
Window(t) == [from |-> t, spent |-> 0]

Init ==
  /\ life = "starting" /\ now = 0 /\ due = None
  /\ bucket = [tokens |-> Rate * Ticks, last |-> 0]
  /\ req \in Scenarios /\ pc = [r \in Reqs |-> "new"]
  /\ status = [r \in Reqs |-> None] /\ tally = status
  /\ hits = [total |-> 0, errors |-> 0, status |-> [s \in Statuses |-> 0],
             route |-> [p \in Routes \cup {"/_not_found"} |-> 0]]
  /\ snap = [r \in Reqs |-> None] /\ before = [r \in Reqs |-> {}]
  /\ window \in {None, Window(0)}

Listening == life \in {"serving", "profiling"}
Running == life \in {"serving", "profiling", "draining"}
Goto(r, from, to) == pc[r] = from /\ pc' = [pc EXCEPT ![r] = to]

\* The handler is through: its deferred function comes next.
Respond(r, from, s) ==
  /\ Goto(r, from, "returning")
  /\ status' = [status EXCEPT ![r] = s] /\ tally' = [tally EXCEPT ![r] = s]

Answered == {r \in Reqs : pc[r] = "answered"}

-----------------------------------------------------------------------------
(* One request *)

\* A connection is accepted only while the server listens.  OPTIONS is
\* answered at once, uncounted.
Accept(r) ==
  /\ Goto(r, "new", IF ~Listening THEN "refused" ELSE IF req[r].method = "OPTIONS" THEN "preflight" ELSE "admit")
  /\ before' = IF req[r].route \in {"/metrics", "/demo/write-file"} THEN [before EXCEPT ![r] = Answered] ELSE before

Arrive(r) ==
  /\ Running /\ Accept(r)
  /\ UNCHANGED <<life, now, due, bucket, req, status, tally, hits, snap, window>>

\* Mutant: what a bucket holds is not capped.
RefilledForEver(b) == b.tokens + (now - b.last) * Rate

\* tokenBucket.allow: fill up for the time that went by, to a second's worth.
Refilled(b) ==
  LET filled == b.tokens + (now - b.last) * Rate IN IF filled > Rate * Ticks THEN Rate * Ticks ELSE filled

Unauthorized(r) ==
  /\ Running /\ pc[r] = "admit" /\ ~req[r].token
  /\ Respond(r, "admit", 401)
  /\ UNCHANGED <<life, now, due, bucket, req, hits, snap, before, window>>

Limited(r) ==
  /\ Running /\ pc[r] = "admit" /\ req[r].token
  /\ Rate > 0 /\ Refilled(bucket) < Ticks
  /\ bucket' = [tokens |-> Refilled(bucket), last |-> now]
  /\ Respond(r, "admit", 429)
  /\ UNCHANGED <<life, now, due, req, hits, snap, before, window>>

\* The token is spent also when no route is found.
Admit(r) ==
  /\ Running /\ pc[r] = "admit" /\ req[r].token
  /\ Rate > 0 => Refilled(bucket) >= Ticks
  /\ bucket' = IF Rate > 0 THEN [tokens |-> Refilled(bucket) - Ticks, last |-> now] ELSE bucket
  /\ window' = IF window = None THEN None ELSE [window EXCEPT !.spent = @ + 1]
  /\ IF req[r].route = None THEN Respond(r, "admit", 404)
     ELSE Goto(r, "admit", "handler") /\ UNCHANGED <<status, tally>>
  /\ UNCHANGED <<life, now, due, req, hits, snap, before>>

\* What the handlers of a class answer to a request with the right method.
Outcomes(route) ==
  CASE route = "/v1/receipts/{id}" -> {200, 404}
    [] route = "/v1/decide"        -> {200, 400, 500}
    [] OTHER                       -> {200}

InHandler(r, routes) == Running /\ pc[r] = "handler" /\ req[r].route \in routes

WrongMethod(r) ==
  /\ InHandler(r, Routes) /\ req[r].method # MethodOf(req[r].route)
  /\ Respond(r, "handler", 405)
  /\ UNCHANGED <<life, now, due, bucket, req, hits, snap, before, window>>

Handle(r) ==
  /\ InHandler(r, Plain \cup {"/demo/sandbox"}) /\ req[r].method = MethodOf(req[r].route)
  /\ \E s \in Outcomes(req[r].route) : Respond(r, "handler", s)
  /\ snap' = IF req[r].route = "/metrics" THEN [snap EXCEPT ![r] = hits.total] ELSE snap
  /\ UNCHANGED <<life, now, due, bucket, req, hits, before, window>>

\* A handler panics before it answers; it is recovered from with a 500.
Panic(r) ==
  /\ InHandler(r, Plain \cup {"/demo/sandbox"})
  /\ Respond(r, "handler", 500)
  /\ UNCHANGED <<life, now, due, bucket, req, hits, snap, before, window>>

\* A handler panics with its answer begun: the client has the status that was
\* sent, and a 500 is counted.
PanicLate(r) ==
  /\ Running /\ pc[r] = "returning"
  /\ req[r].route # None /\ status[r] \notin {401, 429} /\ tally[r] # 500
  /\ tally' = [tally EXCEPT ![r] = 500]
  /\ UNCHANGED <<life, now, due, bucket, req, pc, status, hits, snap, before, window>>

\* Mutant: what was answered with a 500 is not counted.
RecordUnlessPanic(r) ==
  /\ Running /\ Goto(r, "returning", "recorded")
  /\ hits' = IF tally[r] = 500 THEN hits
             ELSE [hits EXCEPT !.total = @ + 1, !.errors = @ + (IF tally[r] >= 400 THEN 1 ELSE 0),
                        !.status[tally[r]] = @ + 1,
                        !.route[IF req[r].route = None THEN "/_not_found" ELSE req[r].route] = @ + 1]
  /\ UNCHANGED <<life, now, due, bucket, req, status, tally, snap, before, window>>

\* recordRequestMetrics, under its lock.
Record(r) ==
  /\ Running /\ Goto(r, "returning", "recorded")
  /\ hits' = [hits EXCEPT !.total = @ + 1, !.errors = @ + (IF tally[r] >= 400 THEN 1 ELSE 0),
                          !.status[tally[r]] = @ + 1,
                          !.route[IF req[r].route = None THEN "/_not_found" ELSE req[r].route] = @ + 1]
  /\ UNCHANGED <<life, now, due, bucket, req, status, tally, snap, before, window>>

\* Mutant: the response is sent while the deferred function has still to count it.
DeliverEarly(r) ==
  /\ Running
  /\ \/ Goto(r, "preflight", "answered") /\ status' = [status EXCEPT ![r] = 204]
     \/ (Goto(r, "returning", "answered") \/ Goto(r, "recorded", "lost")) /\ UNCHANGED status
  /\ UNCHANGED <<life, now, due, bucket, req, tally, hits, snap, before, window>>

\* The client has the whole response, or the write timeout was over or the
\* client gone.
Deliver(r) ==
  /\ Running
  /\ \/ Goto(r, "preflight", "answered") /\ status' = [status EXCEPT ![r] = 204]
     \/ (Goto(r, "recorded", "answered") \/ Goto(r, "recorded", "lost")) /\ UNCHANGED status
  /\ UNCHANGED <<life, now, due, bucket, req, tally, hits, snap, before, window>>

-----------------------------------------------------------------------------
(* The process *)

Become(from, to) == life = from /\ life' = to

Listen ==
  /\ Become("starting", "serving")
  /\ UNCHANGED <<now, due, bucket, req, pc, status, tally, hits, snap, before, window>>

\* log.Fatalf: no drain and no deferred call.
ServeFails ==
  /\ Become("starting", "failed") \/ Become("serving", "failed")
  /\ UNCHANGED <<now, due, bucket, req, pc, status, tally, hits, snap, before, window>>

\* SIGINT or SIGTERM starts the one deadline of both shutdowns; the server
\* accepts requests until the profiling server is down.
Signal ==
  /\ now + Timeout <= MaxTime
  /\ due' = now + Timeout
  /\ Become("serving", IF Profiling THEN "profiling" ELSE "draining")
  /\ UNCHANGED <<now, bucket, req, pc, status, tally, hits, snap, before, window>>

\* pprofSrv.Shutdown ends with the profiles that are being taken, whenever that
\* is, or with Close at the deadline; then srv.Shutdown closes the listener.
ProfilingDown ==
  /\ Become("profiling", "draining")
  /\ UNCHANGED <<now, due, bucket, req, pc, status, tally, hits, snap, before, window>>

Idle == {r \in Reqs : pc[r] \in {"new", "refused", "answered", "lost"}}

\* Mutant: srv.Close in place of srv.Shutdown.
DrainAtOnce ==
  /\ Become("draining", "down")
  /\ UNCHANGED <<now, due, bucket, req, pc, status, tally, hits, snap, before, window>>

\* srv.Shutdown returns when no connection is active.
Drain ==
  /\ Become("draining", "down") /\ Idle = Reqs
  /\ UNCHANGED <<now, due, bucket, req, pc, status, tally, hits, snap, before, window>>

\* Mutant: the shutdown has no deadline.
NeverClose ==
  /\ Become("draining", "down") /\ Idle = Reqs
  /\ UNCHANGED <<now, due, bucket, req, pc, status, tally, hits, snap, before, window>>

\* At the deadline srv.Close cuts the connections, and the process exits whatever
\* its handlers do.
Close ==
  /\ Become("draining", "down") /\ now >= due
  /\ UNCHANGED <<now, due, bucket, req, pc, status, tally, hits, snap, before, window>>

Tick ==
  /\ Running /\ now < MaxTime /\ now' = now + 1
  /\ (window' = window \/ (window = None /\ window' = Window(now')))
  /\ UNCHANGED <<life, due, bucket, req, pc, status, tally, hits, snap, before>>

Serve(r) ==
  \/ Unauthorized(r) \/ Limited(r) \/ Admit(r) \/ WrongMethod(r) \/ Handle(r) \/ Panic(r)
  \/ PanicLate(r) \/ Record(r) \/ Deliver(r)

Process == Listen \/ ServeFails \/ Signal \/ ProfilingDown \/ Tick
Stop == Drain \/ Close
-----------------------------------------------------------------------------
(* Properties *)

\* Within any stretch of time no more requests pass the limiter than the rate
\* allows for it, beyond the burst of one second's worth.
LimiterBound ==
  Rate > 0 /\ window # None => window.spent * Ticks <= Rate * Ticks + Rate * (now - window.from)

Counted == {r \in Reqs : pc[r] \in {"recorded", "answered", "lost"} /\ req[r].method # "OPTIONS"}

\* The counters agree with each other and with the answers: each request that
\* has one, and no other, is counted once, also when its handler panicked or
\* nobody received the answer; under the status that it was given, or under 500
\* if its handler panicked after that.
CountersMatchAnswers ==
  /\ \A r \in Counted : tally[r] \in {status[r], 500}
  /\ \A s \in Statuses : hits.status[s] = Cardinality({r \in Counted : tally[r] = s})
  /\ \A p \in Routes : hits.route[p] = Cardinality({r \in Counted : req[r].route = p})
  /\ hits.total = Cardinality(Counted)
  /\ hits.errors = Cardinality({r \in Counted : tally[r] >= 400})

\* /metrics includes every request that was answered before it was asked for, the earlier
\* /metrics too, and not itself (docs/contracts/datafog-api-contract.md:122).
SnapshotIsFair ==
  \A r \in Reqs : snap[r] # None =>
    /\ snap[r] >= Cardinality({q \in before[r] : req[q].method # "OPTIONS"})
    /\ snap[r] <= Cardinality(Counted \ {r})
    /\ \A q \in before[r] : snap[q] # None => snap[r] > snap[q]

\* A request that was accepted is given up by a shutdown only when the whole timeout
\* is over (docs/specs/datafog-api-mvp-spec.md:111).
CutOnlyAtDeadline ==
  life = "down" => Idle = Reqs \/ now >= due

\* A signal ends the process, whatever its handlers and a profile do.
ShutdownEnds == (due # None) ~> (life = "down")
=============================================================================
