--------------------------- MODULE MCConfigService ---------------------------
(***************************************************************************)
(* ConfigService for TLC: a document of this build, one an earlier build   *)
(* stored that lacks a tunable, and one with a value now out of range.     *)
(***************************************************************************)
EXTENDS ConfigService, TLC

CONSTANTS d1, d2, lacking, outOfRange, e1, e2, w1, w2, l1, l2

MCDocs == {d1, d2}
MCLegacy == {lacking, outOfRange}
MCUpgrade == d1 :> d1 @@ d2 :> d2 @@ lacking :> d2 @@ outOfRange :> d1
MCEvents == {e1, e2}
MCWindows == {w1, w2}
MCLoads == {l1, l2}
Alike == Permutations(MCEvents) \cup Permutations(MCWindows) \cup Permutations(MCLoads)
=============================================================================
