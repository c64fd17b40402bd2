--------------------------- MODULE MCDemoEndpoints ---------------------------
(* Two requests of clients and the loopback calls that they make if they are *)
(* gated.                                                                    *)
EXTENDS DemoEndpoints, TLC

CONSTANTS c1, c2, l1, l2

MCClients == {c1, c2}
MCReqs == {c1, c2, l1, l2}
MCInner == (c1 :> l1) @@ (c2 :> l2)

Q(method, token, route) == [method |-> method, token |-> token, route |-> route]

Metrics == Q("GET", TRUE, "/metrics")
Post(route) == Q("POST", TRUE, route)

Pairs == {
  <<Post("/demo/write-file"), Post("/demo/seed")>>,
  <<Post("/demo/read-file"), Q("GET", TRUE, "/demo/sandbox")>>,
  <<Post("/demo/exec"), Q("OPTIONS", FALSE, None)>>,
  <<Metrics, Metrics>>,
  <<Metrics, Q("OPTIONS", FALSE, None)>>,
  <<Metrics, Q("POST", FALSE, "/v1/decide")>>,
  <<Metrics, Q("POST", TRUE, None)>>,
  <<Metrics, Q("POST", TRUE, "/v1/receipts/{id}")>>,
  <<Q("GET", TRUE, "/v1/receipts/{id}"), Q("POST", TRUE, "/v1/decide")>>}

MCScenarios ==
  {(c1 :> pair[1]) @@ (c2 :> pair[2]) @@ [l \in {l1, l2} |-> Q("POST", TRUE, "/v1/decide")] : pair \in Pairs}
=============================================================================
