-------------------------- MODULE MCSessionRefresh --------------------------
(* Two tabs of one browser: two calls in one of them, one in the other.    *)
EXTENDS SessionRefresh

CONSTANTS a, b, r1, r2, r3, c1

MCTabOf == [r \in {r1, r2, r3} |-> IF r = r3 THEN b ELSE a]
=============================================================================
