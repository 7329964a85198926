------------------------------- MODULE Arcade -------------------------------
(***************************************************************************)
(* The minigame and leaderboard routes of one server, over one saves table *)
(* and one lock per player.                                                *)
(***************************************************************************)
EXTENDS Minigame, Leaderboard

vars == <<requestVars, gameVars, boardVars>>

Init == InitRequests /\ InitGames /\ InitBoards

Next ==
    \/ Tick /\ UNCHANGED <<gameVars, boardVars>>
    \/ \E r \in Requests : GameStep(r) /\ UNCHANGED boardVars
    \/ \E r \in Requests : BoardStep(r) /\ UNCHANGED gameVars

Spec == Init /\ [][Next]_vars

-----------------------------------------------------------------------------

\* Type invariant.
TypeOK ==
    /\ RequestsTypeOK
    /\ sessions \in [Requests -> Row \cup {None}]
    /\ game \in [Requests -> Games]
    /\ sid \in [Requests -> Requests \cup {None}]
    /\ clamped \in [Requests -> Nat]
    /\ cooling \in [Requests -> BOOLEAN]
    /\ earned \in [Requests -> BOOLEAN]
    /\ newBest \in [Requests -> BOOLEAN]
    /\ optOut \in [Users -> BOOLEAN]
    /\ cache \in [generatedAt : Nat, players : SUBSET Users] \cup {None}
    /\ built \in [Requests -> SUBSET Users]
    /\ answer \in [Requests -> SUBSET Users]
    /\ hiddenSince \in [Users -> Nat]
=============================================================================
