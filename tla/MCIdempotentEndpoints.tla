----------------------- MODULE MCIdempotentEndpoints -----------------------
(* Finite instances of IdempotentEndpoints for TLC.                        *)
EXTENDS IdempotentEndpoints, TLC

CONSTANTS c1, c2, c3, k1, p, q

TwoCalls   == {c1, c2}
ThreeCalls == {c1, c2, c3}
TwoEndpoints == {"scan", "decide"}
OneKey == {k1}
TwoPayloads == {p, q}

CallSymmetry == Permutations(ThreeCalls)
=============================================================================
