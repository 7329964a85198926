------------------------------ MODULE MCArcade ------------------------------
(* One player in several tabs: any four requests of theirs.                *)
EXTENDS Arcade, TLC

CONSTANTS u, r1, r2, r3, r4

MCUserOf == [r \in {r1, r2, r3, r4} |-> u]
MCCap == [g \in {"match", "rush"} |-> 2]
AnyRequest == Permutations({r1, r2, r3, r4})
=============================================================================
