---------------------------- MODULE MCEventClaims ----------------------------
(***************************************************************************)
(* EventClaims for TLC: two events that follow each other and may each     *)
(* come back, a ladder of two rungs, and room for one superseded window.   *)
(***************************************************************************)
EXTENDS EventClaims, TLC

CONSTANTS e1, e2

TwoEvents == {e1, e2}
AnyEvent == Permutations(Events)
MCLadder == <<1, 2>>
=============================================================================
