-------------------------- MODULE DemoEndpointsProofs --------------------------
(***************************************************************************)
(* What the server's frame and the demo endpoints guarantee for any number *)
(* of requests, any rate and any clock.  Nearly every action moves one     *)
(* request along one of the edges below (Shift), and no edge leaves the    *)
(* requests that are counted; the rest of the proof builds on that.        *)
(***************************************************************************)
EXTENDS DemoEndpoints, FiniteSetTheorems, TLAPS

Phases == {"new", "refused", "preflight", "admit", "handler", "returning", "recorded", "answered", "lost"}

\* The edges that a request takes, but for the one that counts it.
Edges == {
  <<"new", "refused">>, <<"new", "preflight">>, <<"new", "admit">>, <<"admit", "handler">>,
  <<"admit", "returning">>, <<"handler", "returning">>, <<"preflight", "answered">>,
  <<"recorded", "answered">>, <<"recorded", "lost">>}

ReqOK == req \in Scenarios
PcOK ==
  /\ pc \in [Reqs -> Phases] /\ status \in [Reqs -> Statuses \cup {None}]
  /\ tally \in [Reqs -> Statuses \cup {None}]
HitsOK ==
  hits \in [total : Nat, errors : Nat, status : [Statuses -> Nat], route : [Routes \cup {"/_not_found"} -> Nat]]
StepOK == step \in [Clients -> Steps \cup {None}]
SnapOK == snap \in [Reqs -> Nat \cup {None}] /\ before \in [Reqs -> SUBSET Reqs]

\* Where a request can be.
Progress ==
  \A r \in Reqs :
    /\ pc[r] = "preflight" => req[r].method = "OPTIONS"
    /\ pc[r] \in {"admit", "handler", "returning", "recorded"} => req[r].method # "OPTIONS"
    /\ pc[r] = "handler" => req[r].route \in Routes
    /\ pc[r] \in {"returning", "recorded", "answered", "lost"} => status[r] \in Statuses
    /\ pc[r] \in {"returning", "recorded", "answered", "lost"} /\ req[r].method # "OPTIONS" =>
         tally[r] \in Statuses /\ tally[r] \in {status[r], 500}

\* Where a demo handler can be.
DemoProgress ==
  \A r \in Clients :
    /\ step[r] # None =>
         /\ pc[r] \in {"handler", "returning", "recorded", "answered", "lost"}
         /\ req[r].method = "POST" /\ req[r].route \in Gated \cup {"/demo/seed"}
    /\ step[r] \in {"asked", "act", "write", "readback"} => pc[r] = "handler"
    /\ step[r] = "write" => req[r].route \in Writers

\* The life of a budget: what a window saw spent and what the bucket still
\* holds are together bounded at the time of the last filling.
ClockOK ==
  /\ now \in Nat /\ bucket \in [tokens : Nat, last : Nat]
  /\ bucket.tokens <= Rate * Ticks /\ bucket.last <= now
WindowOK ==
  Rate > 0 /\ window # None =>
    /\ window \in [from : Nat, spent : Nat] /\ window.from <= now
    /\ bucket.last < window.from => window.spent = 0
    /\ bucket.last >= window.from =>
         window.spent * Ticks + bucket.tokens <= Rate * Ticks + Rate * (bucket.last - window.from)

\* What a /metrics may have read.
SnapProgress ==
  \A r \in Reqs :
    /\ before[r] \subseteq Answered
    /\ snap[r] # None => pc[r] \in {"returning", "recorded", "answered", "lost"}
                          /\ req[r].method # "OPTIONS"

\* Another write or seed that was at the file too.
Meddled(r) ==
  \E q \in Clients \ {r} : q \notin before[r] /\ step[q] # None /\ req[q].route \in Writers

\* The file between a write and its reading back.
FileProgress ==
  \A r \in Clients : step[r] = "readback" /\ life # "down" => file = r \/ Meddled(r)

ShownProgress ==
  shown \in [Clients -> Clients \cup {"part", None}] /\ file \in Clients \cup {"part", None}
    /\ \A r \in Clients : shown[r] # None => step[r] # None

-----------------------------------------------------------------------------
(* The limiter *)

\* Filling up adds at most what the time since the last filling is worth.
LEMMA RefilledBounds ==
  ASSUME ClockOK
  PROVE  /\ Refilled(bucket) \in Nat /\ Refilled(bucket) <= Rate * Ticks
         /\ Refilled(bucket) <= bucket.tokens + (now - bucket.last) * Rate
<1>1. Rate \in Nat /\ Ticks \in Nat /\ Rate * Ticks \in Nat
  BY TimeAssumption
<1>2. now - bucket.last \in Nat
  BY DEF ClockOK
<1>3. (now - bucket.last) * Rate \in Nat
  BY <1>1, <1>2
<1> QED
  BY <1>1, <1>2, <1>3 DEF ClockOK, Refilled

\* Time is worth the same in one piece and in two.
LEMMA RateDistributes ==
  ASSUME NEW a \in Int, NEW b \in Int, NEW c \in Int
  PROVE  Rate * (b - a) + (c - b) * Rate = Rate * (c - a)
BY TimeAssumption

LEMMA LimiterInit ==
  ASSUME Init
  PROVE  ClockOK /\ WindowOK
<1>1. Rate * Ticks \in Nat /\ Rate \in Nat
  BY TimeAssumption
<1>2. ClockOK
  BY <1>1 DEF Init, ClockOK
<1>3. ASSUME window # None PROVE window = [from |-> 0, spent |-> 0]
  BY <1>3 DEF Init, Window
<1>4. Rate * (0 - 0) = 0 /\ 0 * Ticks = 0
  BY TimeAssumption
<1>5. bucket.tokens = Rate * Ticks /\ bucket.last = 0 /\ now = 0
  BY DEF Init
<1>6. WindowOK
  BY <1>1, <1>3, <1>4, <1>5 DEF WindowOK
<1> QED
  BY <1>2, <1>6

\* Right after it is filled up the bucket and what a window saw spent are
\* within the bound.
LEMMA BudgetNow ==
  ASSUME ClockOK, WindowOK, Rate > 0, window # None
  PROVE  window.spent * Ticks + Refilled(bucket) <= Rate * Ticks + Rate * (now - window.from)
<1> DEFINE f == Refilled(bucket)
           a == window.spent * Ticks
           b == Rate * (bucket.last - window.from)
           c == (now - bucket.last) * Rate
           d == Rate * (now - window.from)
           e == Rate * Ticks
<1>1. f \in Nat /\ f <= e /\ f <= bucket.tokens + c
  BY RefilledBounds
<1>2. window.spent \in Nat /\ window.from \in Nat /\ window.from <= now
  BY DEF WindowOK
<1>3. bucket.tokens \in Int /\ bucket.last \in Nat /\ bucket.last <= now /\ now \in Nat
  BY DEF ClockOK
<1>4. a \in Int /\ b \in Int /\ c \in Int /\ d \in Nat /\ e \in Int
  BY <1>2, <1>3, TimeAssumption
<1>5. CASE bucket.last < window.from
  <2>1. window.spent = 0
    BY <1>5 DEF WindowOK
  <2>2. a = 0
    BY <2>1, TimeAssumption
  <2> HIDE DEF a, d, e, f
  <2>3. a + f <= e + d
    BY <1>1, <1>4, <2>2
  <2> QED
    BY <2>3 DEF a, d, e, f
<1>6. CASE bucket.last >= window.from
  <2>1. a + bucket.tokens <= e + b
    BY <1>6 DEF WindowOK
  <2>2. b + c = d
    BY <1>2, <1>3, RateDistributes
  <2> HIDE DEF a, b, c, d, e, f
  <2>3. a + f <= e + d
    BY <1>1, <1>3, <1>4, <2>1, <2>2
  <2> QED
    BY <2>3 DEF a, d, e, f
<1> QED
  BY <1>2, <1>3, <1>5, <1>6

LEMMA LimitedKeepsBudget ==
  ASSUME ClockOK, WindowOK, NEW r \in Reqs, Limited(r)
  PROVE  ClockOK' /\ WindowOK'
<1>1. Refilled(bucket) \in Nat /\ Refilled(bucket) <= Rate * Ticks
  BY RefilledBounds
<1>2. bucket'.tokens = Refilled(bucket) /\ bucket'.last = now /\ bucket' \in [tokens : Nat, last : Nat]
  BY <1>1 DEF Limited, ClockOK
<1>3. now' = now /\ window' = window
  BY DEF Limited
<1>4. ClockOK'
  BY <1>1, <1>2, <1>3 DEF ClockOK
<1>5. WindowOK'
  <2> SUFFICES ASSUME Rate > 0, window # None
               PROVE  /\ window \in [from : Nat, spent : Nat] /\ window.from <= now
                      /\ now < window.from => window.spent = 0
                      /\ window.spent * Ticks + Refilled(bucket) <= Rate * Ticks + Rate * (now - window.from)
    BY <1>2, <1>3 DEF WindowOK
  <2>1. window \in [from : Nat, spent : Nat] /\ window.from <= now /\ now \in Nat
    BY DEF WindowOK, ClockOK
  <2>2. ~(now < window.from)
    BY <2>1
  <2> QED
    BY <2>1, <2>2, BudgetNow
<1> QED
  BY <1>4, <1>5

LEMMA AdmitKeepsBudget ==
  ASSUME ClockOK, WindowOK, NEW r \in Reqs, Admit(r)
  PROVE  ClockOK' /\ WindowOK'
<1>1. CASE Rate = 0
  <2>1. bucket' = bucket /\ now' = now
    BY <1>1 DEF Admit
  <2> QED
    BY <1>1, <2>1 DEF ClockOK, WindowOK
<1>2. CASE Rate > 0
  <2>1. /\ Refilled(bucket) \in Nat /\ Refilled(bucket) <= Rate * Ticks
        /\ Refilled(bucket) >= Ticks /\ Ticks \in Nat /\ Rate * Ticks \in Nat
    BY <1>2, RefilledBounds, TimeAssumption DEF Admit
  <2>2. bucket' = [tokens |-> Refilled(bucket) - Ticks, last |-> now] /\ now' = now
    BY <1>2 DEF Admit
  <2>3. /\ bucket'.tokens = Refilled(bucket) - Ticks /\ bucket'.last = now
        /\ bucket' \in [tokens : Nat, last : Nat]
    BY <2>1, <2>2 DEF ClockOK
  <2>4. ClockOK'
    BY <2>1, <2>2, <2>3 DEF ClockOK
  <2>5. ASSUME window # None
        PROVE  /\ window' \in [from : Nat, spent : Nat] /\ window'.from <= now
               /\ ~(now < window'.from)
               /\ window'.spent * Ticks + (Refilled(bucket) - Ticks) <= Rate * Ticks + Rate * (now - window'.from)
    <3>1. window \in [from : Nat, spent : Nat] /\ window.from <= now /\ now \in Nat
      BY <1>2, <2>5 DEF WindowOK, ClockOK
    <3>2. window' = [window EXCEPT !.spent = @ + 1]
      BY <2>5 DEF Admit
    <3>3. window' \in [from : Nat, spent : Nat] /\ window'.from = window.from /\ window'.spent = window.spent + 1
      BY <3>1, <3>2
    <3>4. window.spent * Ticks + Refilled(bucket) <= Rate * Ticks + Rate * (now - window.from)
      BY <1>2, <2>5, BudgetNow
    <3>5. (window.spent + 1) * Ticks = window.spent * Ticks + Ticks /\ window.spent * Ticks \in Int
      BY <2>1, <3>1
    <3>6. Rate * (now - window.from) \in Int
      BY <3>1, TimeAssumption
    <3>7. window'.spent * Ticks + (Refilled(bucket) - Ticks) = window.spent * Ticks + Refilled(bucket)
      BY <2>1, <3>3, <3>5
    <3> QED
      BY <3>1, <3>3, <3>4, <3>7
  <2>6. window = None => window' = None
    BY DEF Admit
  <2>7. WindowOK'
    BY <2>2, <2>3, <2>5, <2>6 DEF WindowOK
  <2> QED
    BY <2>4, <2>7
<1> QED
  BY <1>1, <1>2, TimeAssumption

LEMMA TickKeepsBudget ==
  ASSUME ClockOK, WindowOK, Tick
  PROVE  ClockOK' /\ WindowOK'
<1>1. now' = now + 1 /\ bucket' = bucket /\ now \in Nat /\ bucket.last \in Nat /\ bucket.last <= now
  BY DEF Tick, ClockOK
<1>2. ClockOK'
  BY <1>1 DEF ClockOK
<1>3. CASE window' = window
  BY <1>1, <1>3 DEF WindowOK, ClockOK
<1>4. CASE window' = Window(now')
  <2>1. window' = [from |-> now + 1, spent |-> 0]
    BY <1>1, <1>4 DEF Window
  <2>2. window' \in [from : Nat, spent : Nat] /\ window'.from = now + 1 /\ window'.spent = 0
    BY <1>1, <2>1
  <2> QED
    BY <1>1, <1>2, <2>2 DEF WindowOK
<1> QED
  BY <1>2, <1>3, <1>4 DEF Tick

LEMMA BoundFollows ==
  ASSUME ClockOK, WindowOK
  PROVE  LimiterBound
<1> SUFFICES ASSUME Rate > 0, window # None
             PROVE  window.spent * Ticks <= Rate * Ticks + Rate * (now - window.from)
  BY DEF LimiterBound
<1>1. window.spent * Ticks + Refilled(bucket) <= Rate * Ticks + Rate * (now - window.from)
  BY BudgetNow
<1>2. window.spent * Ticks \in Int /\ Rate * Ticks + Rate * (now - window.from) \in Int
  BY TimeAssumption DEF WindowOK, ClockOK
<1> QED
  BY <1>1, <1>2, RefilledBounds

-----------------------------------------------------------------------------
(* Every action moves at most one request *)

Shift(r, from, to) ==
  /\ <<from, to>> \in Edges /\ Goto(r, from, to)
  /\ to = "preflight" => req[r].method = "OPTIONS"
  /\ to = "admit" => req[r].method # "OPTIONS"
  /\ to = "handler" => req[r].route \in Routes
  /\ \/ to # "returning" /\ from # "preflight" /\ status' = status /\ tally' = tally
     \/ /\ to = "returning"
        /\ \E s \in Statuses : status' = [status EXCEPT ![r] = s] /\ tally' = [tally EXCEPT ![r] = s]
     \/ from = "preflight" /\ tally' = tally /\ \E s \in Statuses : status' = [status EXCEPT ![r] = s]

Lasting == {"returning", "recorded", "answered", "lost"}

\* A request that has a status keeps one.
Lasts == \A q \in Reqs : pc[q] \in Lasting => pc'[q] \in Lasting

\* A request that moves keeps its type and progress, and the set of those that
\* are counted, with their statuses, is left as it is.
LEMMA ShiftKeeps ==
  ASSUME ReqOK, PcOK, Progress, req' = req,
         NEW r \in Reqs, NEW from \in Phases, NEW to \in Phases, Shift(r, from, to)
  PROVE  /\ PcOK' /\ Progress' /\ Counted' = Counted /\ Answered \subseteq Answered' /\ Lasts
         /\ \A q \in Counted : status'[q] = status[q] /\ tally'[q] = tally[q]
         /\ \A q \in Reqs : q # r => pc'[q] = pc[q] /\ status'[q] = status[q]
         /\ pc[r] = from /\ pc'[r] = to
<1>1. /\ pc[r] = from /\ pc' = [pc EXCEPT ![r] = to]
      /\ <<from, to>> \in Edges
  BY DEF Shift, Goto
<1>2. pc'[r] = to /\ \A q \in Reqs : q # r => pc'[q] = pc[q]
  BY <1>1 DEF PcOK
<1>3. /\ status' \in [Reqs -> Statuses \cup {None}]
      /\ \A q \in Reqs : q # r => status'[q] = status[q]
      /\ (to = "returning" \/ from = "preflight") => status'[r] \in Statuses
      /\ (to # "returning" /\ from # "preflight") => status'[r] = status[r]
  BY <1>1 DEF Shift, PcOK, Edges
<1>11. /\ tally' \in [Reqs -> Statuses \cup {None}]
       /\ \A q \in Reqs : q # r => tally'[q] = tally[q]
       /\ to = "returning" => tally'[r] \in Statuses /\ tally'[r] = status'[r]
       /\ to # "returning" => tally'[r] = tally[r]
  BY <1>1 DEF Shift, PcOK, Edges
<1>4. PcOK'
  BY <1>1, <1>3, <1>11 DEF PcOK
<1>5. ASSUME NEW q \in Reqs
      PROVE  /\ pc'[q] = "preflight" => req[q].method = "OPTIONS"
             /\ pc'[q] \in {"admit", "handler", "returning", "recorded"} => req[q].method # "OPTIONS"
             /\ pc'[q] = "handler" => req[q].route \in Routes
             /\ pc'[q] \in Lasting => status'[q] \in Statuses
             /\ pc'[q] \in Lasting /\ req[q].method # "OPTIONS" =>
                  tally'[q] \in Statuses /\ tally'[q] \in {status'[q], 500}
  <2>1. CASE q # r
    BY <1>2, <1>3, <1>11, <2>1 DEF Progress, Lasting
  <2>2. CASE q = r
    <3>1. /\ from = "admit" \/ from = "handler" \/ from = "recorded" => req[r].method # "OPTIONS"
          /\ from = "recorded" =>
               status[r] \in Statuses /\ tally[r] \in Statuses /\ tally[r] \in {status[r], 500}
          /\ from = "preflight" => req[r].method = "OPTIONS"
      BY <1>1 DEF Progress
    <3> QED
      BY <1>1, <1>2, <1>3, <1>11, <2>2, <3>1 DEF Shift, Edges, Lasting
  <2> QED
    BY <2>1, <2>2
<1>6. Progress'
  BY <1>5 DEF Progress, Lasting
<1>7. \A q \in Reqs : q \in Counted' <=> q \in Counted
  <2> TAKE q \in Reqs
  <2>1. CASE q # r
    BY <1>2, <2>1 DEF Counted
  <2>2. CASE q = r
    BY <1>1, <1>2, <2>2 DEF Counted, Edges, Progress
  <2> QED
    BY <2>1, <2>2
<1>8. Counted' = Counted
  BY <1>7 DEF Counted
<1>9. Answered \subseteq Answered' /\ Lasts
  BY <1>1, <1>2 DEF Answered, Edges, Lasts, Lasting
<1>10. \A q \in Counted : status'[q] = status[q] /\ tally'[q] = tally[q]
  BY <1>1, <1>3, <1>11 DEF Counted, Edges, Progress
<1> QED
  BY <1>1, <1>2, <1>3, <1>4, <1>6, <1>8, <1>9, <1>10

\* A request is served, other than by being counted.
ServeOne(r) ==
  Unauthorized(r) \/ Limited(r) \/ Admit(r) \/ WrongMethod(r) \/ Handle(r) \/ Panic(r) \/ Deliver(r)

\* Where it moves.
LEMMA ServeShifts ==
  ASSUME ReqOK, PcOK, Progress, NEW r \in Reqs, ServeOne(r)
  PROVE  \E from \in Phases, to \in Phases :
           /\ Shift(r, from, to)
           /\ from = "handler" => req[r].route \in Plain \cup {"/demo/sandbox"} \/ req[r].method # "POST"
<1> DEFINE Goal == \E from \in Phases, to \in Phases :
           /\ Shift(r, from, to)
           /\ from = "handler" => req[r].route \in Plain \cup {"/demo/sandbox"} \/ req[r].method # "POST"
<1> HIDE DEF Goal
<1> SUFFICES Goal
  BY DEF Goal
<1>1. ASSUME NEW from \in {"admit", "handler"}, NEW s \in Statuses, Respond(r, from, s),
             from = "handler" => req[r].route \in Plain \cup {"/demo/sandbox"} \/ req[r].method # "POST"
      PROVE  Goal
  <2>1. from \in Phases /\ "returning" \in Phases /\ <<from, "returning">> \in Edges
    BY DEF Phases, Edges
  <2>2. Shift(r, from, "returning")
    BY <1>1, <2>1 DEF Shift, Respond
  <2> QED
    BY <1>1, <2>1, <2>2 DEF Goal
<1>2. CASE Unauthorized(r)
  BY <1>1, <1>2 DEF Unauthorized, Statuses
<1>3. CASE Limited(r)
  BY <1>1, <1>3 DEF Limited, Statuses
<1>4. CASE Admit(r)
  <2>1. CASE req[r].route = None
    BY <1>1, <1>4, <2>1 DEF Admit, Statuses
  <2>2. CASE req[r].route # None
    <3>1. req[r].route \in Routes
      BY <2>2, ScenariosAssumption DEF ReqOK, Request
    <3>2. Shift(r, "admit", "handler")
      BY <1>4, <2>2, <3>1 DEF Admit, Shift, Edges
    <3> QED
      BY <3>2 DEF Phases, Goal
  <2> QED
    BY <2>1, <2>2
<1>5. CASE WrongMethod(r)
  <2>1. req[r].method # "POST" \/ req[r].route \in Plain \cup {"/demo/sandbox"}
    BY <1>5 DEF WrongMethod, MethodOf, Plain
  <2>2. Respond(r, "handler", 405) /\ 405 \in Statuses
    BY <1>5 DEF WrongMethod, Statuses
  <2> QED
    BY <1>1, <2>1, <2>2
<1>6. CASE Handle(r)
  <2>1. PICK s \in Outcomes(req[r].route) : Respond(r, "handler", s)
    BY <1>6 DEF Handle
  <2>2. s \in Statuses
    BY <2>1 DEF Outcomes, Statuses
  <2> QED
    BY <1>1, <1>6, <2>1, <2>2 DEF Handle, InHandler
<1>7. CASE Panic(r)
  BY <1>1, <1>7 DEF Panic, InHandler, Statuses
<1>8. CASE Deliver(r)
  <2>1. CASE Goto(r, "preflight", "answered") /\ status' = [status EXCEPT ![r] = 204]
    <3>1. Shift(r, "preflight", "answered")
      BY <1>8, <2>1 DEF Deliver, Shift, Edges, Statuses
    <3> QED
      BY <3>1 DEF Phases, Goal
  <2>2. CASE Goto(r, "recorded", "answered") /\ status' = status
    <3>1. Shift(r, "recorded", "answered")
      BY <1>8, <2>2 DEF Deliver, Shift, Edges
    <3> QED
      BY <3>1 DEF Phases, Goal
  <2>3. CASE Goto(r, "recorded", "lost") /\ status' = status
    <3>1. Shift(r, "recorded", "lost")
      BY <1>8, <2>3 DEF Deliver, Shift, Edges
    <3> QED
      BY <3>1 DEF Phases, Goal
  <2> QED
    BY <1>8, <2>1, <2>2, <2>3 DEF Deliver
<1> QED
  BY <1>2, <1>3, <1>4, <1>5, <1>6, <1>7, <1>8 DEF ServeOne

\* A new connection.
LEMMA AcceptShifts ==
  ASSUME NEW r \in Reqs, Accept(r), status' = status, tally' = tally
  PROVE  /\ \E to \in Phases : Shift(r, "new", to)
         /\ before' = before \/ before' = [before EXCEPT ![r] = Answered]
<1>1. CASE ~Listening
  <2>1. Shift(r, "new", "refused")
    BY <1>1 DEF Accept, Shift, Edges
  <2> QED
    BY <2>1 DEF Accept, Phases
<1>2. CASE Listening /\ req[r].method = "OPTIONS"
  <2>1. Shift(r, "new", "preflight")
    BY <1>2 DEF Accept, Shift, Edges
  <2> QED
    BY <2>1 DEF Accept, Phases
<1>3. CASE Listening /\ req[r].method # "OPTIONS"
  <2>1. Shift(r, "new", "admit")
    BY <1>3 DEF Accept, Shift, Edges
  <2> QED
    BY <2>1 DEF Accept, Phases
<1> QED
  BY <1>1, <1>2, <1>3

-----------------------------------------------------------------------------
(* The actions that count nothing *)

Base == ReqOK /\ PcOK /\ StepOK /\ Progress /\ DemoProgress

Keeps ==
  /\ Base' /\ req' = req /\ hits' = hits /\ Counted' = Counted /\ Answered \subseteq Answered' /\ Lasts
  /\ \A q \in Counted : status'[q] = status[q] /\ tally'[q] = tally[q]

\* A step of a demo handler, and how its request stands after it.
LEMMA StepMoves ==
  ASSUME StepOK, DemoProgress, req' = req, NEW r \in Clients, NEW to \in Steps,
         step' = [step EXCEPT ![r] = to], \A q \in Clients : q # r => pc'[q] = pc[q],
         req[r].method = "POST", req[r].route \in Gated \cup {"/demo/seed"},
         pc'[r] \in {"handler", "returning"},
         to \in {"asked", "act", "write", "readback"} => pc'[r] = "handler",
         to = "write" => req[r].route \in Writers
  PROVE  StepOK' /\ DemoProgress'
<1>1. StepOK'
  BY DEF StepOK
<1>2. step'[r] = to /\ \A q \in Clients : q # r => step'[q] = step[q]
  BY DEF StepOK
<1>3. DemoProgress'
  BY <1>2 DEF DemoProgress
<1> QED
  BY <1>1, <1>3

LEMMA FinishShifts ==
  ASSUME NEW r \in Reqs, NEW s \in Statuses, Finish(r, s)
  PROVE  Shift(r, "handler",
    "returning") /\ req' = req /\ hits' = hits /\ before' = before /\ life' = life /\ snap' = snap
<1>1. <<"handler", "returning">> \in Edges
  BY DEF Edges
<1> QED
  BY <1>1 DEF Finish, Respond, Shift

\* A demo handler that ends, however it stands.
LEMMA AnyEndKeeps ==
  ASSUME Base, NEW r \in Clients, NEW s \in Statuses, Finish(r, s), NEW to \in {"acted", "ended"},
         step' = [step EXCEPT ![r] = to], req[r].method = "POST", req[r].route \in Gated \cup {"/demo/seed"}
  PROVE  Keeps
<1>1. r \in Reqs /\ "handler" \in Phases /\ "returning" \in Phases
  BY InnerAssumption DEF Phases
<1>2. Shift(r, "handler", "returning") /\ req' = req /\ hits' = hits
  BY <1>1, FinishShifts
<1>3. /\ PcOK' /\ Progress' /\ Counted' = Counted /\ Answered \subseteq Answered' /\ Lasts
      /\ \A q \in Counted : status'[q] = status[q] /\ tally'[q] = tally[q]
      /\ \A q \in Reqs : q # r => pc'[q] = pc[q]
      /\ pc'[r] = "returning"
  BY <1>1, <1>2, ShiftKeeps DEF Base
<1>4. StepOK' /\ DemoProgress'
  BY <1>2, <1>3, StepMoves, InnerAssumption DEF Base, Steps
<1> QED
  BY <1>2, <1>3, <1>4 DEF Keeps, Base, ReqOK

\* A demo handler that ends after it has begun.
LEMMA FinishKeeps ==
  ASSUME Base, NEW r \in Clients, NEW s \in Statuses, Finish(r, s), NEW from \in Steps, NEW to \in {"acted", "ended"},
         Step(r, from, to)
  PROVE  Keeps
<1>1. step[r] # None /\ step' = [step EXCEPT ![r] = to]
  BY StepAssumption DEF Step
<1>2. req[r].method = "POST" /\ req[r].route \in Gated \cup {"/demo/seed"}
  BY <1>1 DEF Base, DemoProgress
<1> QED
  BY <1>1, <1>2, AnyEndKeeps

\* A demo handler that goes on.
LEMMA GoesOnKeeps ==
  ASSUME Base, NEW r \in Clients, UNCHANGED frameVars, NEW from \in Steps \cup {None}, NEW to \in Steps,
    Step(r, from, to),
         pc[r] = "handler", req[r].method = "POST", req[r].route \in Gated \cup {"/demo/seed"},
         to = "write" => req[r].route \in Writers
  PROVE  Keeps
<1>1. req' = req /\ pc' = pc /\ status' = status /\ tally' = tally /\ hits' = hits
  BY DEF frameVars
<1>2. StepOK' /\ DemoProgress'
  BY <1>1, StepMoves DEF Base, Step
<1> QED
  BY <1>1, <1>2 DEF Keeps, Base, ReqOK, PcOK, Progress, Counted, Answered, Lasts

\* A demo handler that has begun works on a request that is its own.
LEMMA AtWork ==
  ASSUME Base, NEW r \in Clients, step[r] \in {"asked", "act", "write", "readback"}
  PROVE  pc[r] = "handler" /\ req[r].method = "POST" /\ req[r].route \in Gated \cup {"/demo/seed"}
BY StepAssumption DEF Base, DemoProgress, Steps

LEMMA BadBodyKeeps ==
  ASSUME Base, NEW r \in Clients, BadBody(r)
  PROVE  Keeps
<1>1. r \in Reqs /\ "handler" \in Phases /\ "returning" \in Phases /\ 400 \in Statuses
  BY InnerAssumption DEF Phases, Statuses
<1>2. Shift(r, "handler", "returning") /\ req' = req /\ hits' = hits
  BY <1>1, FinishShifts DEF BadBody
<1>3. /\ PcOK' /\ Progress' /\ Counted' = Counted /\ Answered \subseteq Answered' /\ Lasts
      /\ \A q \in Counted : status'[q] = status[q] /\ tally'[q] = tally[q]
      /\ \A q \in Reqs : q # r => pc'[q] = pc[q]
  BY <1>1, <1>2, ShiftKeeps DEF Base
<1>4. step' = step /\ step[r] = None
  BY DEF BadBody, demoVars
<1>5. None \notin {"asked", "act", "write", "readback"}
  BY StepAssumption DEF Steps
<1>6. StepOK' /\ DemoProgress'
  BY <1>2, <1>3, <1>4, <1>5, InnerAssumption DEF Base, StepOK, DemoProgress
<1> QED
  BY <1>2, <1>3, <1>6 DEF Keeps, Base, ReqOK

\* The loopback request of a client is a decide call.
LEMMA InnerIsDecide ==
  ASSUME ReqOK, NEW r \in Clients
  PROVE  /\ Inner[r] \in Reqs /\ Inner[r] \notin Clients /\ r \in Reqs
         /\ req[Inner[r]].method = "POST" /\ req[Inner[r]].route = "/v1/decide"
<1>1. Inner[r] \in Reqs \ Clients /\ r \in Reqs
  BY InnerAssumption
<1>2. req[Inner[r]] = [method |-> "POST", token |-> TRUE, route |-> "/v1/decide"]
  BY <1>1, InnerAssumption DEF ReqOK
<1> QED
  BY <1>1, <1>2

LEMMA AskKeeps ==
  ASSUME Base, NEW r \in Clients, Ask(r)
  PROVE  Keeps /\ before' = before
<1> DEFINE i == Inner[r]
<1>1. i \in Reqs /\ i \notin Clients /\ r \in Reqs /\ req[i].route = "/v1/decide"
  BY InnerIsDecide DEF Base
<1>2. Accept(i) /\ status' = status /\ tally' = tally /\ req' = req /\ hits' = hits
  BY DEF Ask
<1> HIDE DEF i
<1>3. before' = before
  BY <1>1, <1>2 DEF Accept
<1>4. PICK to \in Phases : Shift(i, "new", to)
  BY <1>1, <1>2, AcceptShifts
<1>5. "new" \in Phases
  BY DEF Phases
<1>6. /\ PcOK' /\ Progress' /\ Counted' = Counted /\ Answered \subseteq Answered' /\ Lasts
      /\ \A q \in Counted : status'[q] = status[q] /\ tally'[q] = tally[q]
      /\ \A q \in Reqs : q # i => pc'[q] = pc[q]
  BY <1>1, <1>2, <1>4, <1>5, ShiftKeeps DEF Base
<1>7. \A q \in Clients : pc'[q] = pc[q]
  BY <1>1, <1>6, InnerAssumption
<1>8. pc[r] = "handler" /\ req[r].method = "POST" /\ req[r].route \in Gated
  BY DEF Ask, Demo, InHandler
<1>9. step' = [step EXCEPT ![r] = "asked"] /\ "asked" \in Steps
  BY DEF Ask, Step, Steps
<1>10. StepOK' /\ DemoProgress'
  BY <1>2, <1>7, <1>8, <1>9, StepMoves DEF Base
<1> QED
  BY <1>2, <1>3, <1>6, <1>10 DEF Keeps, Base, ReqOK

\* The steps of a demo handler after it asked.
DemoStep(r) ==
  \/ Permitted(r) \/ Blocked(r) \/ Execute(r) \/ ReadFile(r) \/ Truncate(r) \/ Write(r)
  \/ WriteFails(r) \/ ReadBack(r) \/ Panics(r)

LEMMA DemoStepKeeps ==
  ASSUME Base, NEW r \in Clients, DemoStep(r)
  PROVE  Keeps
<1>1. 200 \in Statuses /\ 500 \in Statuses
  BY DEF Statuses
<1>2. CASE Permitted(r)
  <2>1. step[r] = "asked"
    BY <1>2 DEF Permitted, Step
  <2>2. pc[r] = "handler" /\ req[r].method = "POST" /\ req[r].route \in Gated \cup {"/demo/seed"}
    BY <2>1, AtWork
  <2> QED
    BY <1>2, <2>2, GoesOnKeeps DEF Permitted, Steps
<1>3. CASE Blocked(r)
  BY <1>1, <1>3, FinishKeeps DEF Blocked, Ends, Steps
<1>4. CASE Execute(r)
  BY <1>1, <1>4, FinishKeeps DEF Execute, Steps
<1>5. CASE ReadFile(r)
  BY <1>1, <1>5, FinishKeeps DEF ReadFile, Steps
<1>6. CASE Truncate(r)
  <2>1. CASE step[r] = "act" /\ req[r].route = "/demo/write-file" /\ Step(r, "act", "write")
    <3>1. pc[r] = "handler" /\ req[r].method = "POST" /\ req[r].route \in Gated \cup {"/demo/seed"}
      BY <2>1, AtWork
    <3> QED
      BY <1>6, <2>1, <3>1, GoesOnKeeps DEF Truncate, Steps, Writers
  <2>2. CASE Demo(r, {"/demo/seed"}) /\ Step(r, None, "write")
    <3>1. pc[r] = "handler" /\ req[r].method = "POST" /\ req[r].route = "/demo/seed"
      BY <2>2 DEF Demo, InHandler
    <3> QED
      BY <1>6, <2>2, <3>1, GoesOnKeeps DEF Truncate, Steps, Writers
  <2> QED
    BY <1>6, <2>1, <2>2 DEF Truncate
<1>7. CASE Write(r)
  <2>1. CASE req[r].route = "/demo/seed"
    BY <1>1, <1>7, <2>1, FinishKeeps DEF Write, Steps
  <2>2. CASE req[r].route # "/demo/seed"
    <3>1. Step(r, "write", "readback") /\ UNCHANGED frameVars
      BY <1>7, <2>2 DEF Write
    <3>2. pc[r] = "handler" /\ req[r].method = "POST" /\ req[r].route \in Gated \cup {"/demo/seed"}
      BY <3>1, AtWork DEF Step
    <3> QED
      BY <3>1, <3>2, GoesOnKeeps DEF Steps
  <2> QED
    BY <2>1, <2>2
<1>8. CASE WriteFails(r)
  BY <1>1, <1>8, FinishKeeps DEF WriteFails, Steps
<1>9. CASE ReadBack(r)
  BY <1>1, <1>9, FinishKeeps DEF ReadBack, Steps
<1>10. CASE Panics(r)
  <2>1. /\ step' = [step EXCEPT ![r] = "ended"] /\ Finish(r, 500)
        /\ req[r].method = "POST" /\ req[r].route \in Gated \cup {"/demo/seed"}
    BY <1>10 DEF Panics, Step, Demo, InHandler
  <2> QED
    BY <1>1, <2>1, AnyEndKeeps
<1> QED
  BY <1>2, <1>3, <1>4, <1>5, <1>6, <1>7, <1>8, <1>9, <1>10 DEF DemoStep

LEMMA ArriveKeeps ==
  ASSUME Base, NEW r \in Clients, Arrive(r), UNCHANGED demoVars
  PROVE  Keeps
<1>1. r \in Reqs /\ "new" \in Phases
  BY InnerAssumption DEF Phases
<1>2. Accept(r) /\ status' = status /\ tally' = tally /\ req' = req /\ hits' = hits /\ step' = step
  BY DEF Arrive, demoVars
<1>3. PICK to \in Phases : Shift(r, "new", to)
  BY <1>1, <1>2, AcceptShifts
<1>4. /\ PcOK' /\ Progress' /\ Counted' = Counted /\ Answered \subseteq Answered' /\ Lasts
      /\ \A q \in Counted : status'[q] = status[q] /\ tally'[q] = tally[q]
      /\ \A q \in Reqs : q # r => pc'[q] = pc[q]
      /\ pc[r] = "new"
  BY <1>1, <1>2, <1>3, ShiftKeeps DEF Base
<1>5. step[r] = None
  BY <1>4 DEF Base, DemoProgress
<1>6. None \notin {"asked", "act", "write", "readback"}
  BY StepAssumption DEF Steps
<1>7. StepOK' /\ DemoProgress'
  BY <1>2, <1>4, <1>5, <1>6, InnerAssumption DEF Base, StepOK, DemoProgress
<1> QED
  BY <1>2, <1>4, <1>7 DEF Keeps, Base, ReqOK

LEMMA ServeKeeps ==
  ASSUME Base, NEW r \in Reqs, ServeOne(r), UNCHANGED demoVars
  PROVE  Keeps
<1>1. PICK from \in Phases, to \in Phases :
        /\ Shift(r, from, to)
        /\ from = "handler" => req[r].route \in Plain \cup {"/demo/sandbox"} \/ req[r].method # "POST"
  BY ServeShifts DEF Base
<1>2. req' = req /\ hits' = hits /\ step' = step
  BY DEF demoVars, ServeOne, Unauthorized, Limited, Admit, WrongMethod, Handle, Panic, Deliver
<1>3. /\ PcOK' /\ Progress' /\ Counted' = Counted /\ Answered \subseteq Answered' /\ Lasts
      /\ \A q \in Counted : status'[q] = status[q] /\ tally'[q] = tally[q]
      /\ \A q \in Reqs : q # r => pc'[q] = pc[q]
      /\ pc[r] = from /\ pc'[r] = to
  BY <1>1, <1>2, ShiftKeeps DEF Base
<1>4. <<from, to>> \in Edges
  BY <1>1 DEF Shift
<1>5. None \notin {"asked", "act", "write", "readback"}
  BY StepAssumption DEF Steps
<1>6. ASSUME NEW q \in Clients
      PROVE  /\ step[q] # None => pc'[q] \in {"handler", "returning", "recorded", "answered", "lost"}
             /\ step[q] \in {"asked", "act", "write", "readback"} => pc'[q] = "handler"
  <2>1. CASE q # r
    BY <1>3, <2>1, InnerAssumption DEF Base, DemoProgress
  <2>2. CASE q = r
    <3>1. /\ step[r] # None =>
               /\ from \in {"handler", "returning", "recorded", "answered", "lost"}
               /\ req[r].method = "POST" /\ req[r].route \in Gated \cup {"/demo/seed"}
          /\ step[r] \in {"asked", "act", "write", "readback"} => from = "handler" /\ step[r] # None
      BY <1>3, <1>5, <2>2 DEF Base, DemoProgress
    <3>2. step[r] # None => from # "handler"
      BY <1>1, <3>1 DEF Plain, Gated
    <3> QED
      BY <1>3, <1>4, <2>2, <3>1, <3>2 DEF Edges
  <2> QED
    BY <2>1, <2>2
<1>7. StepOK' /\ DemoProgress'
  BY <1>2, <1>6 DEF Base, StepOK, DemoProgress
<1> QED
  BY <1>2, <1>3, <1>7 DEF Keeps, Base, ReqOK

LEMMA StillKeeps ==
  ASSUME Base, UNCHANGED <<req, pc, status, tally, hits, step>>
  PROVE  Keeps
BY DEF Keeps, Base, ReqOK, PcOK, StepOK, Progress, DemoProgress, Counted, Answered, Lasts

LEMMA ProcessKeeps ==
  ASSUME Base, (Process /\ UNCHANGED demoVars) \/ Cleanup \/ UNCHANGED vars
  PROVE  Keeps
<1>1. UNCHANGED <<req, pc, status, tally, hits, step>>
  BY DEF Process, Listen, ServeFails, Signal, ProfilingDown, Tick, Cleanup, Stop, Drain, Close, demoVars, vars, frameVars
<1> QED
  BY <1>1, StillKeeps

\* A late panic changes what will be counted of a request that is not counted yet.
LEMMA PanicLateKeeps ==
  ASSUME Base, NEW r \in Reqs, PanicLate(r), UNCHANGED demoVars
  PROVE  Keeps
<1>1. /\ pc[r] = "returning" /\ tally' = [tally EXCEPT ![r] = 500]
      /\ req' = req /\ pc' = pc /\ status' = status /\ hits' = hits /\ step' = step
  BY DEF PanicLate, demoVars
<1>2. tally'[r] = 500 /\ 500 \in Statuses /\ \A q \in Reqs : q # r => tally'[q] = tally[q]
  BY <1>1 DEF Base, PcOK, Statuses
<1>3. r \notin Counted
  BY <1>1 DEF Counted
<1>4. PcOK'
  BY <1>1, <1>2 DEF Base, PcOK
<1>5. Progress'
  BY <1>1, <1>2 DEF Base, Progress
<1>6. StepOK' /\ DemoProgress' /\ ReqOK'
  BY <1>1 DEF Base, StepOK, DemoProgress, ReqOK
<1>7. Counted' = Counted /\ Answered' = Answered /\ Lasts
  BY <1>1 DEF Counted, Answered, Lasts
<1>8. \A q \in Counted : status'[q] = status[q] /\ tally'[q] = tally[q]
  BY <1>1, <1>2, <1>3 DEF Counted
<1> QED
  BY <1>1, <1>4, <1>5, <1>6, <1>7, <1>8 DEF Keeps, Base

\* An action other than Record.
Plainly ==
  \/ \E r \in Clients : Client(r)
  \/ \E r \in Reqs : ServeOne(r) /\ UNCHANGED demoVars
  \/ \E r \in Reqs : PanicLate(r) /\ UNCHANGED demoVars
  \/ Process /\ UNCHANGED demoVars
  \/ Cleanup
  \/ UNCHANGED vars

LEMMA EveryStep ==
  ASSUME [Next]_vars
  PROVE  Plainly \/ \E r \in Reqs : Record(r) /\ UNCHANGED demoVars
BY DEF Next, Frame, Serve, ServeOne, Plainly

LEMMA PlainlyKeeps ==
  ASSUME Base, Plainly
  PROVE  Keeps
<1>1. ASSUME NEW r \in Clients, Client(r) PROVE Keeps
  BY <1>1, ArriveKeeps, BadBodyKeeps, AskKeeps, DemoStepKeeps DEF Client, DemoStep
<1>2. ASSUME NEW r \in Reqs, ServeOne(r), UNCHANGED demoVars PROVE Keeps
  BY <1>2, ServeKeeps
<1> QED
  BY <1>1, <1>2, ProcessKeeps, PanicLateKeeps DEF Plainly

\* What counting a request does.
LEMMA RecordKeeps ==
  ASSUME Base, NEW r \in Reqs, Record(r), UNCHANGED demoVars
  PROVE  /\ Base' /\ req' = req /\ status' = status /\ tally' = tally /\ Answered' = Answered /\ Lasts
         /\ r \notin Counted /\ Counted' = Counted \cup {r} /\ tally[r] \in Statuses
<1>1. pc[r] = "returning" /\ pc' = [pc EXCEPT ![r] = "recorded"]
  BY DEF Record, Goto
<1>2. req' = req /\ status' = status /\ tally' = tally /\ step' = step
  BY DEF Record, demoVars
<1>3. pc'[r] = "recorded" /\ \A q \in Reqs : q # r => pc'[q] = pc[q]
  BY <1>1 DEF Base, PcOK
<1>4. PcOK'
  BY <1>1, <1>2 DEF Base, PcOK, Phases
<1>5. Progress'
  BY <1>1, <1>2, <1>3 DEF Base, Progress
<1>6. None \notin {"asked", "act", "write", "readback"}
  BY StepAssumption DEF Steps
<1>7. StepOK' /\ DemoProgress'
  BY <1>1, <1>2, <1>3, <1>6, InnerAssumption DEF Base, StepOK, DemoProgress
<1>8. r \notin Counted /\ tally[r] \in Statuses /\ req[r].method # "OPTIONS"
  BY <1>1 DEF Base, Progress, Counted
<1>9. Counted' = Counted \cup {r} /\ Answered' = Answered /\ Lasts
  BY <1>1, <1>2, <1>3, <1>8 DEF Counted, Answered, Lasts, Lasting
<1> QED
  BY <1>2, <1>4, <1>5, <1>7, <1>8, <1>9 DEF Base, ReqOK

-----------------------------------------------------------------------------
(* The counters *)

\* The requests are finite, and so is every set of them.
LEMMA CountedFinite ==
  ASSUME NEW S \in SUBSET Reqs
  PROVE  IsFiniteSet(S) /\ Cardinality(S) \in Nat
BY ScenariosAssumption, FS_Subset, FS_CardinalityType

\* One more is one more.
LEMMA OneMore ==
  ASSUME NEW S \in SUBSET Reqs, NEW r \in Reqs, r \notin S
  PROVE  Cardinality(S \cup {r}) = Cardinality(S) + 1
BY CountedFinite, FS_AddElement

LEMMA CountersKept ==
  ASSUME HitsOK, CountersMatchAnswers, Keeps
  PROVE  HitsOK' /\ CountersMatchAnswers'
<1>1. /\ hits' = hits /\ Counted' = Counted /\ req' = req
      /\ \A q \in Counted : status'[q] = status[q] /\ tally'[q] = tally[q]
  BY DEF Keeps
<1>2. ASSUME NEW s \in Statuses
      PROVE  {r \in Counted : tally'[r] = s} = {r \in Counted : tally[r] = s}
  BY <1>1
<1>3. {r \in Counted : tally'[r] >= 400} = {r \in Counted : tally[r] >= 400}
  BY <1>1
<1>4. HitsOK'
  BY <1>1 DEF HitsOK
<1>5. \A r \in Counted : tally'[r] \in {status'[r], 500}
  BY <1>1 DEF CountersMatchAnswers
<1>6. hits' = hits /\ Counted' = Counted /\ req' = req
  BY <1>1
<1>7. \A s \in Statuses : hits.status[s] = Cardinality({r \in Counted : tally'[r] = s})
  BY <1>2 DEF CountersMatchAnswers
<1>8. hits.errors = Cardinality({r \in Counted : tally'[r] >= 400})
  BY <1>3 DEF CountersMatchAnswers
<1>9. CountersMatchAnswers'
  BY <1>5, <1>6, <1>7, <1>8 DEF CountersMatchAnswers
<1> QED
  BY <1>4, <1>9

LEMMA CountersGrow ==
  ASSUME Base, HitsOK, CountersMatchAnswers, NEW r \in Reqs, Record(r), UNCHANGED demoVars
  PROVE  HitsOK' /\ CountersMatchAnswers'
<1> DEFINE p0 == IF req[r].route = None THEN "/_not_found" ELSE req[r].route
           e0 == IF tally[r] >= 400 THEN 1 ELSE 0
<1>1. /\ Base' /\ req' = req /\ status' = status /\ tally' = tally /\ r \notin Counted /\ Counted' = Counted \cup {r}
      /\ tally[r] \in Statuses
  BY RecordKeeps
<1>2. p0 \in Routes \cup {"/_not_found"} /\ e0 \in Nat
  BY ScenariosAssumption DEF Base, ReqOK, Request
<1>3. hits' = [hits EXCEPT !.total = @ + 1, !.errors = @ + e0, !.status[tally[r]] = @ + 1, !.route[p0] = @ + 1]
  BY DEF Record
<1> HIDE DEF p0, e0
<1>4. /\ hits'.total = hits.total + 1 /\ hits'.errors = hits.errors + e0
      /\ hits'.status = [hits.status EXCEPT ![tally[r]] = @ + 1]
      /\ hits'.route = [hits.route EXCEPT ![p0] = @ + 1]
      /\ hits' \in [total : Nat, errors : Nat, status : [Statuses -> Nat], route : [Routes \cup {"/_not_found"} -> Nat]]
  <2>1. hits' = [total |-> hits.total + 1, errors |-> hits.errors + e0,
                 status |-> [hits.status EXCEPT ![tally[r]] = @ + 1],
                 route |-> [hits.route EXCEPT ![p0] = @ + 1]]
    <3>1. PICK t \in Nat, e \in Nat, st \in [Statuses -> Nat], ro \in [Routes \cup {"/_not_found"} -> Nat] :
            hits = [total |-> t, errors |-> e, status |-> st, route |-> ro]
      BY DEF HitsOK
    <3> QED
      BY <1>3, <3>1, Zenon
  <2>2. /\ [hits.status EXCEPT ![tally[r]] = @ + 1] \in [Statuses -> Nat]
        /\ [hits.route EXCEPT ![p0] = @ + 1] \in [Routes \cup {"/_not_found"} -> Nat]
        /\ hits.total + 1 \in Nat /\ hits.errors + e0 \in Nat
    BY <1>1, <1>2 DEF HitsOK
  <2> QED
    BY <2>1, <2>2
<1>5. Counted \subseteq Reqs
  BY DEF Counted
<1>6. ASSUME NEW s \in Statuses
      PROVE  hits'.status[s] = Cardinality({q \in Counted' : tally[q] = s})
  <2> DEFINE S == {q \in Counted : tally[q] = s}
  <2>1. hits.status[s] = Cardinality(S) /\ S \in SUBSET Reqs /\ r \notin S
    BY <1>1, <1>5 DEF CountersMatchAnswers
  <2>2. CASE tally[r] = s
    <3>1. {q \in Counted' : tally[q] = s} = S \cup {r}
      BY <1>1, <2>2
    <3>2. hits'.status[s] = hits.status[s] + 1
      BY <1>4, <2>2 DEF HitsOK
    <3> HIDE DEF S
    <3> QED
      BY <2>1, <3>1, <3>2, OneMore
  <2>3. CASE tally[r] # s
    <3>1. {q \in Counted' : tally[q] = s} = S
      BY <1>1, <2>3
    <3>2. hits'.status[s] = hits.status[s]
      BY <1>1, <1>4, <2>3 DEF HitsOK
    <3> QED
      BY <2>1, <3>1, <3>2
  <2> QED
    BY <2>2, <2>3
<1>7. ASSUME NEW p \in Routes
      PROVE  hits'.route[p] = Cardinality({q \in Counted' : req[q].route = p})
  <2> DEFINE S == {q \in Counted : req[q].route = p}
  <2>1. hits.route[p] = Cardinality(S) /\ S \in SUBSET Reqs /\ r \notin S
    BY <1>1, <1>5 DEF CountersMatchAnswers
  <2>2. CASE req[r].route = p
    <3>1. {q \in Counted' : req[q].route = p} = S \cup {r}
      BY <1>1, <2>2
    <3>2. p0 = p
      BY <2>2, NoneAssumption DEF p0
    <3>3. hits'.route[p] = hits.route[p] + 1
      BY <1>4, <3>2 DEF HitsOK
    <3> HIDE DEF S
    <3> QED
      BY <2>1, <3>1, <3>3, OneMore
  <2>3. CASE req[r].route # p
    <3>1. {q \in Counted' : req[q].route = p} = S
      BY <1>1, <2>3
    <3>2. p0 # p
      BY <2>3 DEF p0, Routes, Plain, Gated
    <3>3. hits'.route[p] = hits.route[p]
      BY <1>2, <1>4, <3>2 DEF HitsOK
    <3> QED
      BY <2>1, <3>1, <3>3
  <2> QED
    BY <2>2, <2>3
<1>8. hits'.total = Cardinality(Counted')
  BY <1>1, <1>4, <1>5, OneMore DEF CountersMatchAnswers
<1>9. hits'.errors = Cardinality({q \in Counted' : tally[q] >= 400})
  <2> DEFINE S == {q \in Counted : tally[q] >= 400}
  <2>1. hits.errors = Cardinality(S) /\ S \in SUBSET Reqs /\ r \notin S
    BY <1>1, <1>5 DEF CountersMatchAnswers
  <2>2. CASE tally[r] >= 400
    <3>1. {q \in Counted' : tally[q] >= 400} = S \cup {r}
      BY <1>1, <2>2
    <3>2. e0 = 1
      BY <2>2 DEF e0
    <3> HIDE DEF S
    <3> QED
      BY <1>4, <2>1, <3>1, <3>2, OneMore
  <2>3. CASE ~(tally[r] >= 400)
    <3>1. {q \in Counted' : tally[q] >= 400} = S
      BY <1>1, <2>3
    <3>2. hits'.errors = hits.errors
      BY <1>4, <2>3 DEF HitsOK, e0
    <3> QED
      BY <2>1, <3>1, <3>2
  <2> QED
    BY <2>2, <2>3
<1>10. \A q \in Counted' : tally[q] \in {status[q], 500}
  BY <1>1 DEF Base, Progress, Counted
<1> QED
  BY <1>1, <1>4, <1>6, <1>7, <1>8, <1>9, <1>10 DEF HitsOK, CountersMatchAnswers

-----------------------------------------------------------------------------
(* What /metrics reads *)

SnapInv == SnapOK /\ SnapProgress /\ SnapshotIsFair

\* A step that reads no counter and accepts none whose history matters.
LEMMA SnapKept ==
  ASSUME ReqOK, SnapInv, snap' = snap, before' = before, req' = req,
         Counted \subseteq Counted', Answered \subseteq Answered', Lasts
  PROVE  SnapInv'
<1>1. SnapOK' /\ SnapProgress'
  BY DEF SnapInv, SnapOK, SnapProgress, Lasts, Lasting
<1>2. ASSUME NEW r \in Reqs, snap[r] # None
      PROVE  /\ snap[r] >= Cardinality({q \in before[r] : req[q].method # "OPTIONS"})
             /\ snap[r] <= Cardinality(Counted' \ {r})
             /\ \A q \in before[r] : snap[q] # None => snap[r] > snap[q]
  <2>1. /\ snap[r] >= Cardinality({q \in before[r] : req[q].method # "OPTIONS"})
        /\ snap[r] <= Cardinality(Counted \ {r})
        /\ \A q \in before[r] : snap[q] # None => snap[r] > snap[q]
    BY <1>2 DEF SnapInv, SnapshotIsFair
  <2>2. Counted \ {r} \subseteq Counted' \ {r} /\ Counted' \ {r} \in SUBSET Reqs /\ Counted \ {r} \in SUBSET Reqs
    BY DEF Counted
  <2>3. Cardinality(Counted \ {r}) <= Cardinality(Counted' \ {r})
    BY <2>2, CountedFinite, FS_Subset
  <2>4. snap[r] \in Nat /\ Cardinality(Counted \ {r}) \in Nat /\ Cardinality(Counted' \ {r}) \in Nat
    BY <1>2, <2>2, CountedFinite DEF SnapInv, SnapOK
  <2> QED
    BY <2>1, <2>3, <2>4
<1>3. SnapshotIsFair'
  BY <1>2 DEF SnapshotIsFair
<1> QED
  BY <1>1, <1>3 DEF SnapInv

\* A connection is accepted: what was answered before is remembered for it.
LEMMA SnapAccepted ==
  ASSUME ReqOK, SnapInv, NEW r \in Reqs, pc[r] = "new", snap' = snap, req' = req,
         before' = [before EXCEPT ![r] = Answered], Counted' = Counted, Answered \subseteq Answered', Lasts
  PROVE  SnapInv'
<1>1. Answered \subseteq Reqs /\ snap[r] = None
  BY DEF Answered, SnapInv, SnapProgress
<1>2. before'[r] = Answered /\ \A q \in Reqs : q # r => before'[q] = before[q]
  BY DEF SnapInv, SnapOK
<1>3. SnapOK'
  BY <1>1 DEF SnapInv, SnapOK
<1>4. SnapProgress'
  BY <1>1, <1>2 DEF SnapInv, SnapProgress, Lasts, Lasting
<1>5. SnapshotIsFair'
  BY <1>1, <1>2 DEF SnapInv, SnapshotIsFair
<1> QED
  BY <1>3, <1>4, <1>5 DEF SnapInv

\* /metrics reads the total.
LEMMA SnapTaken ==
  ASSUME Base, CountersMatchAnswers, SnapInv, NEW r \in Reqs, pc[r] = "handler", pc'[r] = "returning",
         snap' = [snap EXCEPT ![r] = hits.total], req' = req, before' = before,
         Counted' = Counted, Answered \subseteq Answered', Lasts
  PROVE  SnapInv'
<1>1. hits.total = Cardinality(Counted) /\ Counted \in SUBSET Reqs /\ Cardinality(Counted) \in Nat
  BY CountedFinite DEF CountersMatchAnswers, Counted
<1>2. r \notin Counted /\ r \notin Answered /\ req[r].method # "OPTIONS" /\ snap[r] = None
  BY DEF Counted, Answered, Base, Progress, SnapInv, SnapProgress
<1>3. snap'[r] = hits.total /\ \A q \in Reqs : q # r => snap'[q] = snap[q]
  BY DEF SnapInv, SnapOK
<1>4. SnapOK'
  BY <1>1 DEF SnapInv, SnapOK
<1>5. SnapProgress'
  BY <1>2, <1>3 DEF SnapInv, SnapProgress, Lasts, Lasting
<1>6. \A q \in Reqs : r \notin before[q]
  BY <1>2 DEF SnapInv, SnapProgress
<1>7. ASSUME NEW q \in Reqs, q # r, snap[q] # None
      PROVE  /\ snap[q] >= Cardinality({p \in before[q] : req[p].method # "OPTIONS"})
             /\ snap[q] <= Cardinality(Counted \ {q})
             /\ \A p \in before[q] : snap'[p] # None => snap[q] > snap'[p]
  BY <1>3, <1>6, <1>7 DEF SnapInv, SnapshotIsFair, SnapOK
<1>8. hits.total >= Cardinality({q \in before[r] : req[q].method # "OPTIONS"})
  <2> DEFINE S == {q \in before[r] : req[q].method # "OPTIONS"}
  <2>1. S \subseteq Counted
    BY DEF Counted, Answered, SnapInv, SnapProgress, SnapOK
  <2>2. Cardinality(S) <= Cardinality(Counted) /\ Cardinality(S) \in Nat
    BY <1>1, <2>1, CountedFinite, FS_Subset, FS_CardinalityType
  <2> QED
    BY <1>1, <2>2
<1>9. hits.total <= Cardinality(Counted \ {r})
  <2>1. Counted \ {r} = Counted
    BY <1>2
  <2> QED
    BY <1>1, <2>1
<1>10. ASSUME NEW q \in before[r], snap'[q] # None
       PROVE  hits.total > snap'[q]
  <2>1. q \in Reqs /\ q # r /\ q \in Answered
    BY <1>6 DEF SnapInv, SnapOK, SnapProgress
  <2>2. snap'[q] = snap[q] /\ req[q].method # "OPTIONS" /\ snap[q] \in Nat
    BY <1>3, <1>10, <2>1 DEF SnapInv, SnapOK, SnapProgress
  <2>3. q \in Counted
    BY <2>1, <2>2 DEF Answered, Counted
  <2>4. snap[q] <= Cardinality(Counted \ {q})
    BY <1>10, <2>1, <2>2 DEF SnapInv, SnapshotIsFair
  <2>5. Cardinality(Counted) = Cardinality(Counted \ {q}) + 1
    <3>1. Counted \ {q} \in SUBSET Reqs /\ (Counted \ {q}) \cup {q} = Counted
      BY <1>1, <2>3
    <3> HIDE <1>1
    <3> QED
      BY <2>1, <3>1, OneMore
  <2>6. Cardinality(Counted \ {q}) \in Nat
    BY <1>1, CountedFinite
  <2> QED
    BY <1>1, <2>2, <2>4, <2>5, <2>6
<1>11. SnapshotIsFair'
  BY <1>3, <1>7, <1>8, <1>9, <1>10 DEF SnapshotIsFair
<1> QED
  BY <1>4, <1>5, <1>11 DEF SnapInv

LEMMA ServeSnaps ==
  ASSUME Base, CountersMatchAnswers, SnapInv, NEW r \in Reqs, ServeOne(r), UNCHANGED demoVars
  PROVE  SnapInv'
<1>1. Keeps
  BY ServeKeeps
<1>2. before' = before /\ req' = req
  BY DEF ServeOne, Unauthorized, Limited, Admit, WrongMethod, Handle, Panic, Deliver
<1>3. CASE snap' = snap
  BY <1>1, <1>2, <1>3, SnapKept DEF Keeps, Base
<1>4. CASE snap' # snap
  <2>1. Handle(r) /\ snap' = [snap EXCEPT ![r] = hits.total]
    BY <1>4 DEF ServeOne, Unauthorized, Limited, Admit, WrongMethod, Handle, Panic, Deliver
  <2>2. pc[r] = "handler" /\ pc' = [pc EXCEPT ![r] = "returning"]
    BY <2>1 DEF Handle, Respond, Goto
  <2>3. pc'[r] = "returning"
    BY <2>2 DEF Base, PcOK
  <2> QED
    BY <1>1, <1>2, <2>1, <2>2, <2>3, SnapTaken DEF Keeps
<1> QED
  BY <1>3, <1>4

LEMMA ClientSnaps ==
  ASSUME Base, SnapInv, NEW r \in Clients, Client(r)
  PROVE  SnapInv'
<1>1. CASE Arrive(r) /\ UNCHANGED demoVars
  <2>1. Keeps /\ r \in Reqs
    BY <1>1, ArriveKeeps, InnerAssumption
  <2>2. pc[r] = "new" /\ snap' = snap /\ (before' = before \/ before' = [before EXCEPT ![r] = Answered])
    BY <1>1 DEF Arrive, Accept, Goto
  <2> QED
    BY <2>1, <2>2, SnapKept, SnapAccepted DEF Keeps, Base
<1>2. CASE BadBody(r) \/ DemoStep(r)
  <2>1. Keeps
    BY <1>2, BadBodyKeeps, DemoStepKeeps
  <2>2. snap' = snap /\ before' = before
    BY <1>2 DEF BadBody, DemoStep, Permitted, Blocked, Ends, Execute, ReadFile, Truncate, Write, WriteFails,
        ReadBack, Panics, Finish, frameVars
  <2> QED
    BY <2>1, <2>2, SnapKept DEF Keeps, Base
<1>3. CASE Ask(r)
  <2>1. Keeps /\ before' = before
    BY <1>3, AskKeeps
  <2>2. snap' = snap
    BY <1>3 DEF Ask
  <2> QED
    BY <2>1, <2>2, SnapKept DEF Keeps, Base
<1> QED
  BY <1>1, <1>2, <1>3 DEF Client, DemoStep

LEMMA PlainlySnaps ==
  ASSUME Base, CountersMatchAnswers, SnapInv, Plainly
  PROVE  SnapInv'
<1>1. ASSUME (Process /\ UNCHANGED demoVars) \/ Cleanup \/ UNCHANGED vars PROVE SnapInv'
  <2>1. Keeps
    BY <1>1, ProcessKeeps
  <2>2. snap' = snap /\ before' = before
    BY <1>1 DEF Process, Listen, ServeFails, Signal, ProfilingDown, Tick, Cleanup, Stop, Drain, Close, vars, frameVars
  <2> QED
    BY <2>1, <2>2, SnapKept DEF Keeps, Base
<1>2. ASSUME NEW r \in Reqs, PanicLate(r), UNCHANGED demoVars PROVE SnapInv'
  <2>1. Keeps
    BY <1>2, PanicLateKeeps
  <2>2. snap' = snap /\ before' = before
    BY <1>2 DEF PanicLate
  <2> QED
    BY <2>1, <2>2, SnapKept DEF Keeps, Base
<1> QED
  BY <1>1, <1>2, ServeSnaps, ClientSnaps DEF Plainly

LEMMA RecordSnaps ==
  ASSUME Base, SnapInv, NEW r \in Reqs, Record(r), UNCHANGED demoVars
  PROVE  SnapInv'
<1>1. req' = req /\ Answered' = Answered /\ Lasts /\ Counted \subseteq Counted'
  BY RecordKeeps
<1>2. snap' = snap /\ before' = before
  BY DEF Record
<1> QED
  BY <1>1, <1>2, SnapKept DEF Base

-----------------------------------------------------------------------------
(* The demo acts on a decision *)

\* An operation begins with a permission, or needs none.
LEMMA ActingBegins ==
  ASSUME Base, [Next]_vars, NEW r \in Clients, Acted(r)', ~Acted(r), req[r].route \in Gated
  PROVE  Inner[r] \in Counted /\ status[Inner[r]] = 200 /\ tally[Inner[r]] = 200
<1>1. step' # step
  BY DEF Acted
<1>2. PICK q \in Clients : Ask(q) \/ DemoStep(q)
  BY <1>1, EveryStep DEF Plainly, Client, DemoStep, BadBody, Process, Cleanup, demoVars, vars
<1>3. q = r
  BY <1>2 DEF Acted, Ask, DemoStep, Permitted, Blocked, Ends, Execute, ReadFile, Truncate, Write, WriteFails,
        ReadBack, Panics,
              Step, Base, StepOK
<1>4. step[r] \notin {"act", "write", "readback", "acted"}
  BY DEF Acted
<1>5. CASE Permitted(r)
  <2>1. pc[Inner[r]] = "answered" /\ status[Inner[r]] = 200 /\ tally[Inner[r]] = 200
    BY <1>5 DEF Permitted, Decided
  <2> QED
    BY <2>1, InnerIsDecide DEF Base, Counted
<1>6. CASE Truncate(r)
  BY <1>4, <1>6 DEF Truncate, Step, Demo, InHandler, Gated
<1>7. CASE Ask(r) \/ Blocked(r) \/ Panics(r)
  <2>1. step'[r] \in {"asked", "ended"}
    BY <1>7 DEF Ask, Blocked, Panics, Ends, Step, Base, StepOK
  <2> QED
    BY <2>1 DEF Acted
<1>8. CASE Execute(r) \/ ReadFile(r) \/ Write(r) \/ WriteFails(r) \/ ReadBack(r)
  BY <1>4, <1>8 DEF Execute, ReadFile, Write, WriteFails, ReadBack, Step
<1> QED
  BY <1>2, <1>3, <1>5, <1>6, <1>7, <1>8 DEF DemoStep

\* What is counted stays counted, with its status.
LEMMA CountedStays ==
  ASSUME Base, [Next]_vars
  PROVE  Base' /\ req' = req /\ \A q \in Counted : q \in Counted' /\ status'[q] = status[q] /\ tally'[q] = tally[q]
<1>1. CASE Plainly
  BY <1>1, PlainlyKeeps DEF Keeps
<1>2. ASSUME NEW r \in Reqs, Record(r), UNCHANGED demoVars
      PROVE  Base' /\ req' = req /\ \A q \in Counted : q \in Counted' /\ status'[q] = status[q] /\ tally'[q] = tally[q]
  BY <1>2, RecordKeeps
<1> QED
  BY <1>1, <1>2, EveryStep

LEMMA ActedStays ==
  ASSUME Base, ActedOnADecision, [Next]_vars
  PROVE  ActedOnADecision'
<1> SUFFICES ASSUME NEW r \in Clients, Acted(r)', req'[r].route \in Gated
             PROVE  Inner[r] \in Counted' /\ status'[Inner[r]] = 200 /\ tally'[Inner[r]] = 200
  BY DEF ActedOnADecision
<1>1. req' = req /\ \A q \in Counted : q \in Counted' /\ status'[q] = status[q] /\ tally'[q] = tally[q]
  BY CountedStays
<1>2. Inner[r] \in Counted /\ status[Inner[r]] = 200 /\ tally[Inner[r]] = 200
  BY <1>1, ActingBegins DEF ActedOnADecision
<1> QED
  BY <1>1, <1>2

-----------------------------------------------------------------------------
(* A shutdown *)

\* Requests and their handlers do not end the process.
LEMMA RequestsLeaveLife ==
  ASSUME (\E q \in Clients : Client(q)) \/ \E q \in Reqs : Frame(q)
  PROVE  life' = life
<1>1. ASSUME NEW q \in Clients, Client(q) PROVE life' = life
  BY <1>1 DEF Client, Arrive, BadBody, Ask, Permitted, Blocked, Ends, Execute, ReadFile, Truncate, Write, WriteFails,
              ReadBack, Panics, Finish, frameVars
<1>2. ASSUME NEW q \in Reqs, Frame(q) PROVE life' = life
  BY <1>2 DEF Frame, Serve, Unauthorized, Limited, Admit, WrongMethod, Handle, Panic, PanicLate, Record, Deliver
<1> QED
  BY <1>1, <1>2

\* They go on only while it runs.
LEMMA RequestsNeedLife ==
  ASSUME (\E q \in Clients : Client(q)) \/ \E q \in Reqs : Frame(q)
  PROVE  Running
<1>1. ASSUME NEW q \in Clients, Client(q) PROVE Running
  <2>1. CASE Arrive(q) \/ BadBody(q) \/ Ask(q)
    BY <2>1 DEF Arrive, BadBody, Ask, Demo, InHandler
  <2>2. CASE Permitted(q) \/ Blocked(q) \/ Execute(q) \/ ReadFile(q) \/ Truncate(q)
    BY <2>2 DEF Permitted, Blocked, Ends, Execute, ReadFile, Truncate, Step
  <2>3. CASE Write(q) \/ WriteFails(q) \/ ReadBack(q) \/ Panics(q)
    BY <2>3 DEF Write, WriteFails, ReadBack, Panics, Step
  <2> QED
    BY <1>1, <2>1, <2>2, <2>3 DEF Client
<1>2. ASSUME NEW q \in Reqs, Frame(q) PROVE Running
  BY <1>2 DEF Frame, Serve, Unauthorized, Limited, Admit, WrongMethod, Handle, Panic, PanicLate, Record, Deliver, InHandler
<1> QED
  BY <1>1, <1>2

\* What has ended stands still.
LEMMA DownForGood ==
  ASSUME [Next]_vars, life = "down"
  PROVE  UNCHANGED vars
<1>1. ~Running
  BY DEF Running
<1>2. ~Process /\ ~Cleanup
  BY <1>1 DEF Process, Listen, ServeFails, Signal, ProfilingDown, Tick, Become, Cleanup, Stop, Drain, Close
<1> QED
  BY <1>1, <1>2, RequestsNeedLife DEF Next

LEMMA CutStays ==
  ASSUME CutOnlyAtDeadline, [Next]_vars
  PROVE  CutOnlyAtDeadline'
<1>1. CASE life = "down"
  <2>1. pc' = pc /\ now' = now /\ due' = due
    BY <1>1, DownForGood DEF vars, frameVars
  <2> QED
    BY <1>1, <2>1 DEF CutOnlyAtDeadline, Idle
<1>2. CASE life # "down" /\ life' = "down"
  <2>1. ~(UNCHANGED vars) /\ ~Process
    BY <1>2 DEF vars, frameVars, Process, Listen, ServeFails, Signal, ProfilingDown, Tick, Become
  <2>2. Cleanup
    BY <1>2, <2>1, RequestsLeaveLife DEF Next
  <2> QED
    BY <2>2 DEF Cleanup, Stop, Drain, Close, CutOnlyAtDeadline, Idle
<1>3. CASE life' # "down"
  BY <1>3 DEF CutOnlyAtDeadline
<1> QED
  BY <1>1, <1>2, <1>3

-----------------------------------------------------------------------------
(* What a write reads back *)

\* What came before a request is settled when it arrives.
LEMMA BeforeStays ==
  ASSUME SnapOK, [Next]_vars, NEW r \in Reqs, pc[r] # "new"
  PROVE  before'[r] = before[r]
<1>1. CASE before' = before
  BY <1>1
<1>2. ASSUME NEW q \in Reqs, Accept(q) PROVE before'[r] = before[r]
  <2>1. q # r /\ (before' = before \/ before' = [before EXCEPT ![q] = Answered])
    BY <1>2 DEF Accept, Goto
  <2> QED
    BY <2>1 DEF SnapOK
<1>3. before' = before \/ \E q \in Reqs : Accept(q)
  <2>1. CASE \E q \in Clients : Client(q)
    BY <2>1, InnerAssumption DEF Client, Arrive, BadBody, Ask, Permitted, Blocked, Ends, Execute, ReadFile,
        Truncate, Write,
        WriteFails, ReadBack, Panics, Finish, frameVars
  <2>2. CASE \E q \in Reqs : Frame(q)
    BY <2>2 DEF Frame, Serve, Unauthorized, Limited, Admit, WrongMethod, Handle, Panic, PanicLate, Record, Deliver
  <2>3. CASE (Process /\ UNCHANGED demoVars) \/ Cleanup \/ UNCHANGED vars
    BY <2>3 DEF Process, Listen, ServeFails, Signal, ProfilingDown, Tick, Cleanup, Stop, Drain, Close, vars, frameVars
  <2> QED
    BY <2>1, <2>2, <2>3 DEF Next
<1> QED
  BY <1>1, <1>2, <1>3

\* A handler that has begun has begun for good.
LEMMA BegunStays ==
  ASSUME Base, [Next]_vars, NEW q \in Clients, step[q] # None
  PROVE  step'[q] # None
<1>1. CASE step' = step
  BY <1>1
<1>2. ASSUME NEW p \in Clients, NEW from \in Steps \cup {None}, NEW to \in Steps, Step(p, from, to) PROVE step'[q] # None
  BY <1>2, StepAssumption DEF Step, Base, StepOK
<1>3. ASSUME NEW p \in Clients, Client(p) PROVE step'[q] # None
  <2>1. CASE (Arrive(p) /\ UNCHANGED demoVars) \/ BadBody(p)
    BY <2>1, <1>1 DEF BadBody, demoVars
  <2>2. CASE Ask(p) \/ Permitted(p) \/ Blocked(p) \/ Execute(p)
    BY <2>2, <1>2 DEF Ask, Permitted, Blocked, Ends, Execute, Steps
  <2>3. CASE ReadFile(p) \/ Truncate(p) \/ WriteFails(p) \/ ReadBack(p)
    BY <2>3, <1>2 DEF ReadFile, Truncate, WriteFails, ReadBack, Steps
  <2>4. CASE Write(p)
    BY <2>4, <1>2 DEF Write, Steps
  <2>5. CASE Panics(p)
    <3>1. step[p] \in Steps \cup {None} /\ "ended" \in Steps
      BY DEF Base, StepOK, Steps
    <3> QED
      BY <2>5, <3>1, <1>2 DEF Panics
  <2> QED
    BY <1>3, <2>1, <2>2, <2>3, <2>4, <2>5 DEF Client
<1>4. (\E p \in Clients : Client(p)) \/ step' = step
  BY DEF Next, Frame, Cleanup, demoVars, vars
<1> QED
  BY <1>1, <1>3, <1>4

LEMMA MeddledStays ==
  ASSUME Base, SnapOK, [Next]_vars, NEW r \in Clients, pc[r] # "new", Meddled(r)
  PROVE  Meddled(r)'
<1>1. PICK q \in Clients \ {r} : q \notin before[r] /\ step[q] # None /\ req[q].route \in Writers
  BY DEF Meddled
<1>2. before'[r] = before[r] /\ step'[q] # None /\ req' = req
  BY <1>1, BeforeStays, BegunStays, CountedStays, InnerAssumption
<1> QED
  BY <1>1, <1>2 DEF Meddled

\* Who changes the file is at it.
LEMMA FileChanges ==
  ASSUME Base, [Next]_vars, file' # file
  PROVE  \/ life' = "down" /\ file' = None
         \/ \E q \in Clients : /\ pc[q] = "handler" /\ req[q].route \in Writers
                               /\ \/ step' = [step EXCEPT ![q] = "write"] /\ file' = "part"
                                  \/ step[q] = "write" /\ file' = q
<1>1. CASE Cleanup
  BY <1>1 DEF Cleanup, Stop, Drain, Close, Become
<1>2. ASSUME NEW q \in Clients, Write(q)
      PROVE  pc[q] = "handler" /\ req[q].route \in Writers /\ step[q] = "write" /\ file' = q
  <2>1. step[q] = "write" /\ file' = q
    BY <1>2 DEF Write, Step
  <2> QED
    BY <2>1 DEF Base, DemoProgress
<1>3. ASSUME NEW q \in Clients, Truncate(q)
      PROVE  pc[q] = "handler" /\ req[q].route \in Writers /\ step' = [step EXCEPT ![q] = "write"] /\ file' = "part"
  BY <1>3 DEF Truncate, Step, Demo, InHandler, Writers, Base, DemoProgress
<1>4. Cleanup \/ \E q \in Clients : Write(q) \/ Truncate(q)
  BY DEF Next, Client, BadBody, Ask, Permitted, Blocked, Ends, Execute, ReadFile, WriteFails, ReadBack, Panics,
        Frame, demoVars, vars
<1> QED
  BY <1>1, <1>2, <1>3, <1>4

FileInv == FileProgress /\ ShownProgress /\ ReadBackIsOwn

LEMMA FileProgressStays ==
  ASSUME Base, SnapInv, FileInv, CutOnlyAtDeadline, [Next]_vars
  PROVE  FileProgress'
<1> SUFFICES ASSUME NEW r \in Clients, step'[r] = "readback", life' # "down"
             PROVE  file' = r \/ Meddled(r)'
  BY DEF FileProgress
<1>1. r \in Reqs
  BY InnerAssumption
<1>2. CASE Write(r)
  BY <1>2 DEF Write
<1>3. CASE ~Write(r)
  <2>1. step[r] = "readback"
    <3>1. CASE step' = step
      BY <3>1
    <3>2. ASSUME NEW q \in Clients, Ask(q) \/ DemoStep(q) PROVE step[r] = "readback"
      BY <1>3, <3>2 DEF Ask, DemoStep, Permitted, Blocked, Ends, Execute, ReadFile, Truncate, Write,
          WriteFails, ReadBack, Panics,
                        Step, Base, StepOK
    <3>3. step' = step \/ \E q \in Clients : Ask(q) \/ DemoStep(q)
      BY EveryStep DEF Plainly, Client, DemoStep, BadBody, Process, Cleanup, demoVars, vars
    <3> QED
      BY <3>1, <3>2, <3>3
  <2>2. pc[r] = "handler"
    BY <2>1, AtWork
  <2>3. life # "down"
    BY DownForGood DEF vars, frameVars
  <2>4. file = r \/ Meddled(r)
    BY <2>1, <2>3 DEF FileInv, FileProgress
  <2>5. CASE Meddled(r)
    BY <2>2, <2>5, MeddledStays DEF SnapInv
  <2>6. CASE file' = file
    BY <2>4, <2>5, <2>6
  <2>7. CASE file' # file
    <3>1. PICK q \in Clients :
            /\ pc[q] = "handler" /\ req[q].route \in Writers
            /\ \/ step' = [step EXCEPT ![q] = "write"] /\ file' = "part"
               \/ step[q] = "write" /\ file' = q
      BY <2>7, FileChanges
    <3>2. q # r
      BY <2>1, <3>1 DEF Base, StepOK
    <3>3. q \notin before[r] /\ before'[r] = before[r] /\ req' = req
      BY <1>1, <2>2, <3>1, BeforeStays, CountedStays DEF SnapInv, SnapProgress, Answered
    <3>4. step'[q] # None
      <4>1. CASE step[q] = "write"
        BY <4>1, BegunStays, StepAssumption DEF Steps
      <4>2. CASE step' = [step EXCEPT ![q] = "write"]
        BY <4>2, StepAssumption DEF Steps, Base, StepOK
      <4> QED
        BY <3>1, <4>1, <4>2
    <3> QED
      BY <3>1, <3>2, <3>3, <3>4 DEF Meddled
  <2> QED
    BY <2>6, <2>7
<1> QED
  BY <1>2, <1>3

\* A response that reports a content reports the file's, at the end of its handler.
LEMMA ShownChanges ==
  ASSUME Base, [Next]_vars, shown' # shown
  PROVE  \E q \in Clients :
           /\ shown' = [shown EXCEPT ![q] = file] /\ life # "down"
           /\ \/ step[q] = "act" /\ req[q].route = "/demo/read-file"
              \/ step[q] = "readback"
<1>1. PICK q \in Clients : ReadFile(q) \/ ReadBack(q)
  BY DEF Next, Client, BadBody, Ask, Permitted, Blocked, Ends, Execute, Truncate, Write, WriteFails, Panics,
        Frame, Cleanup,
         demoVars, vars
<1> QED
  BY <1>1 DEF ReadFile, ReadBack, Step, Running

LEMMA ShownProgressStays ==
  ASSUME Base, FileInv, [Next]_vars
  PROVE  ShownProgress'
<1>1. file' \in Clients \cup {"part", None}
  BY FileChanges DEF FileInv, ShownProgress
<1>2. CASE shown' = shown
  BY <1>1, <1>2, BegunStays DEF FileInv, ShownProgress
<1>3. CASE shown' # shown
  <2>1. PICK q \in Clients : shown' = [shown EXCEPT ![q] = file] /\ step[q] \in {"act", "readback"}
    BY <1>3, ShownChanges
  <2>2. step[q] # None
    BY <2>1, StepAssumption DEF Steps
  <2>3. shown' \in [Clients -> Clients \cup {"part", None}]
    BY <2>1 DEF FileInv, ShownProgress
  <2>4. \A r \in Clients : shown'[r] # None => step[r] # None
    BY <2>1, <2>2 DEF FileInv, ShownProgress
  <2> QED
    BY <1>1, <2>3, <2>4, BegunStays DEF ShownProgress
<1> QED
  BY <1>2, <1>3

LEMMA ReadBackStays ==
  ASSUME Base, SnapOK, FileInv, [Next]_vars
  PROVE  ReadBackIsOwn'
<1>1. req' = req
  BY CountedStays
<1>2. ASSUME NEW r \in Clients, step[r] # None, Meddled(r) PROVE Meddled(r)'
  <2>1. pc[r] # "new"
    BY <1>2 DEF Base, DemoProgress
  <2> QED
    BY <1>2, <2>1, MeddledStays
<1> SUFFICES ASSUME NEW r \in Clients, shown'[r] # None, req[r].route = "/demo/write-file"
             PROVE  shown'[r] = r \/ Meddled(r)'
  BY <1>1 DEF ReadBackIsOwn, Meddled
<1>3. CASE shown'[r] = shown[r]
  <2>1. step[r] # None /\ (shown[r] = r \/ Meddled(r))
    BY <1>3 DEF FileInv, ShownProgress, ReadBackIsOwn, Meddled
  <2> QED
    BY <1>2, <1>3, <2>1
<1>4. CASE shown'[r] # shown[r]
  <2>1. PICK q \in Clients :
          /\ shown' = [shown EXCEPT ![q] = file] /\ life # "down"
          /\ \/ step[q] = "act" /\ req[q].route = "/demo/read-file"
             \/ step[q] = "readback"
    BY <1>4, ShownChanges
  <2>2. q = r /\ shown'[r] = file /\ step[r] = "readback"
    BY <1>4, <2>1 DEF FileInv, ShownProgress
  <2>3. file = r \/ Meddled(r)
    BY <2>1, <2>2 DEF FileInv, FileProgress
  <2>4. step[r] # None
    BY <2>2, StepAssumption DEF Steps
  <2> QED
    BY <1>2, <2>2, <2>3, <2>4
<1> QED
  BY <1>3, <1>4

-----------------------------------------------------------------------------
(* The theorems *)

IInv ==
  /\ Base /\ HitsOK /\ CountersMatchAnswers /\ SnapInv /\ ActedOnADecision
  /\ CutOnlyAtDeadline /\ FileInv /\ ClockOK /\ WindowOK

\* No request has come, and nothing is counted.
LEMMA InitInv ==
  ASSUME DemoInit
  PROVE  IInv
<1>1. None \notin Steps /\ None \notin Statuses
  BY StepAssumption, NoneAssumption DEF Statuses
<1>2. Base
  BY <1>1 DEF DemoInit, Init, Base, ReqOK, PcOK, Phases, StepOK, Progress, DemoProgress, Steps
<1>3. HitsOK
  BY DEF DemoInit, Init, HitsOK
<1>4. Counted = {} /\ Answered = {}
  BY DEF DemoInit, Init, Counted, Answered
<1>5. CountersMatchAnswers
  <2>1. \A s \in Statuses : {r \in Counted : tally[r] = s} = {}
    BY <1>4
  <2>2. \A p \in Routes : {r \in Counted : req[r].route = p} = {}
    BY <1>4
  <2>3. {r \in Counted : tally[r] >= 400} = {}
    BY <1>4
  <2>4. Cardinality({}) = 0
    BY FS_EmptySet
  <2>5. hits.total = 0 /\ hits.errors = 0 /\ hits.status = [s \in Statuses |-> 0]
        /\ hits.route = [p \in Routes \cup {"/_not_found"} |-> 0]
    BY DEF DemoInit, Init
  <2> QED
    BY <1>4, <2>1, <2>2, <2>3, <2>4, <2>5 DEF CountersMatchAnswers
<1>6. SnapInv
  BY DEF DemoInit, Init, SnapInv, SnapOK, SnapProgress, SnapshotIsFair
<1>7. ActedOnADecision
  BY <1>1 DEF DemoInit, Init, ActedOnADecision, Acted, Steps
<1>8. CutOnlyAtDeadline
  BY DEF DemoInit, Init, CutOnlyAtDeadline
<1>9. FileInv
  BY <1>1 DEF DemoInit, FileInv, FileProgress, ShownProgress, ReadBackIsOwn, Steps
<1>10. ClockOK /\ WindowOK
  BY LimiterInit DEF DemoInit
<1> QED
  BY <1>2, <1>3, <1>5, <1>6, <1>7, <1>8, <1>9, <1>10 DEF IInv

\* Only the limiter and the clock change the budget.
LEMMA BudgetStays ==
  ASSUME ClockOK, WindowOK, [Next]_vars
  PROVE  ClockOK' /\ WindowOK'
<1>1. CASE UNCHANGED <<now, bucket, window>>
  BY <1>1 DEF ClockOK, WindowOK
<1>2. UNCHANGED <<now, bucket, window>> \/ Tick \/ \E r \in Reqs : Limited(r) \/ Admit(r)
  <2>1. CASE \E q \in Clients : Client(q)
    BY <2>1 DEF Client, Arrive, BadBody, Ask, Permitted, Blocked, Ends, Execute, ReadFile, Truncate, Write,
        WriteFails, ReadBack, Panics, Finish, frameVars
  <2>2. CASE \E q \in Reqs : Frame(q)
    BY <2>2 DEF Frame, Serve, Unauthorized, WrongMethod, Handle, Panic, PanicLate, Record, Deliver
  <2>3. CASE (Process /\ UNCHANGED demoVars) \/ Cleanup \/ UNCHANGED vars
    BY <2>3 DEF Process, Listen, ServeFails, Signal, ProfilingDown, Cleanup, Stop, Drain, Close, vars, frameVars
  <2> QED
    BY <2>1, <2>2, <2>3 DEF Next
<1> QED
  BY <1>1, <1>2, LimitedKeepsBudget, AdmitKeepsBudget, TickKeepsBudget

LEMMA CountersStay ==
  ASSUME Base, HitsOK, CountersMatchAnswers, [Next]_vars
  PROVE  HitsOK' /\ CountersMatchAnswers'
BY EveryStep, PlainlyKeeps, CountersKept, CountersGrow

LEMMA SnapStays ==
  ASSUME Base, CountersMatchAnswers, SnapInv, [Next]_vars
  PROVE  SnapInv'
BY EveryStep, PlainlySnaps, RecordSnaps

LEMMA NextInv ==
  ASSUME IInv, [Next]_vars
  PROVE  IInv'
<1>1. Base' /\ ActedOnADecision' /\ CutOnlyAtDeadline'
  BY CountedStays, ActedStays, CutStays DEF IInv
<1>2. HitsOK' /\ CountersMatchAnswers' /\ SnapInv'
  BY CountersStay, SnapStays DEF IInv
<1>3. FileInv'
  BY FileProgressStays, ShownProgressStays, ReadBackStays DEF IInv, FileInv, SnapInv
<1>4. ClockOK' /\ WindowOK'
  BY BudgetStays DEF IInv
<1> QED
  BY <1>1, <1>2, <1>3, <1>4 DEF IInv

\* All of it together holds in every state of the server.
THEOREM ServerIsConsistent == Spec => []IInv
<1>1. IInv /\ UNCHANGED vars => IInv'
  BY NextInv
<1> QED
  BY InitInv, NextInv, PTL DEF Spec

\* The limiter admits no more than its rate and one burst allow, over every
\* stretch of time (tokenBucket.allow).
THEOREM LimiterHolds == Spec => []LimiterBound
<1>1. IInv => LimiterBound
  BY BoundFollows DEF IInv
<1> QED
  BY <1>1, ServerIsConsistent, PTL

\* The counters count every answered request once, under its route and the status
\* that it was given, or under a 500 if its handler panicked after that.
THEOREM CountersAreRight == Spec => []CountersMatchAnswers
<1>1. IInv => CountersMatchAnswers
  BY DEF IInv
<1> QED
  BY <1>1, ServerIsConsistent, PTL

\* A /metrics response includes what was answered before it was asked for.
THEOREM SnapshotsAreFair == Spec => []SnapshotIsFair
<1>1. IInv => SnapshotIsFair
  BY DEF IInv, SnapInv
<1> QED
  BY <1>1, ServerIsConsistent, PTL

\* The demo acts only on a permission that its own server gave and counted.
THEOREM DemoActsOnDecisions == Spec => []ActedOnADecision
<1>1. IInv => ActedOnADecision
  BY DEF IInv
<1> QED
  BY <1>1, ServerIsConsistent, PTL

\* A shutdown gives up on a request only at its deadline.
THEOREM ShutdownIsPatient == Spec => []CutOnlyAtDeadline
<1>1. IInv => CutOnlyAtDeadline
  BY DEF IInv
<1> QED
  BY <1>1, ServerIsConsistent, PTL

\* A demo write shows its own content unless another one was at the file.
THEOREM WritesReadBack == Spec => []ReadBackIsOwn
<1>1. IInv => ReadBackIsOwn
  BY DEF IInv, FileInv
<1> QED
  BY <1>1, ServerIsConsistent, PTL
=============================================================================
