---------------------------- MODULE MCSaveService ----------------------------
(***************************************************************************)
(* SaveService for TLC: two tabs of one player, with two claims and a page *)
(* load; or one claim and a page load beside a request of another player.  *)
(***************************************************************************)
EXTENDS SaveService

CONSTANTS u1, u2, claimA, claimB, load, other

OneUser == {u1}
TwoTabs == {claimA, claimB, load}
MCUserOf == [r \in Calls |-> IF r = other THEN u2 ELSE u1]
MCReadOnly == {load}
MCClaiming == {claimA, claimB} \cap Calls
=============================================================================
