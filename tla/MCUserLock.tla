----------------------------- MODULE MCUserLock -----------------------------
(***************************************************************************)
(* UserLock for TLC: three calls of one user and one of another, so that a *)
(* third caller can arrive while the second still waits on the first.      *)
(***************************************************************************)
EXTENDS UserLock

CONSTANTS u1, u2, c1, c2, c3, c4

MCUsers == {u1, u2}
MCCalls == {c1, c2, c3, c4}
MCUserOf == [c \in MCCalls |-> IF c = c4 THEN u2 ELSE u1]
=============================================================================
