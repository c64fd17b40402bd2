---------------------------- MODULE MCPolicyGate ----------------------------
(* Two calls with settings that differ in each respect, one of them with an *)
(* oversized event.                                                         *)
EXTENDS PolicyGate

CONSTANTS c1, c2

P(kind, mode, strict, found) == [kind |-> kind, mode |-> mode, strict |-> strict, found |-> found]

MCCalls == {c1, c2}
MCProfiles == {P("shell", "enforced", FALSE, FALSE), P("read", "observe", FALSE, TRUE),
               P("write", "", TRUE, FALSE), P("write", "enforced", FALSE, TRUE)}

\* All events or those of the call with a short line, of any decision or of one, in pages of one or two.
MCQueries == [decision : {"", "allow"}, calls : {Calls, {c1}}, limit : {1, 2}]
=============================================================================
