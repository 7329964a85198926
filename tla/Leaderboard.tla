----------------------------- MODULE Leaderboard ----------------------------
(***************************************************************************)
(* The cached leaderboards and the opt-out that purges them.  A board is   *)
(* the set of players on it; ranking and row limit are left out.           *)
(***************************************************************************)
EXTENDS PlayerRequests

CONSTANT Ttl   \* social.leaderboardCacheMs

ASSUME TtlAssumption == Ttl \in Nat

VARIABLES
    optOut,       \* users.leaderboard_opt_out
    cache,        \* the payload served until its TTL lapses
    built,        \* the boards a request has read so far
    answer,       \* the players on the boards a request was answered
    hiddenSince   \* when the column was last set

boardVars == <<optOut, cache, built, answer, hiddenSince>>

InitBoards ==
    /\ optOut = [u \in Users |-> FALSE]
    /\ cache = None
    /\ built = [r \in Requests |-> {}]
    /\ answer = [r \in Requests |-> {}]
    /\ hiddenSince = [u \in Users |-> 0]

\* The route: the column first.
SetLeaderboardOptOut(r, hide) ==
    /\ pc[r] = "idle"
    /\ optOut' = [optOut EXCEPT ![UserOf[r]] = hide]
    /\ hiddenSince' = [hiddenSince EXCEPT ![UserOf[r]] = IF optOut[UserOf[r]] THEN @ ELSE clock]
    /\ Goto(r, IF hide THEN "hide" ELSE "show")
    /\ UNCHANGED <<clock, save, holder, at, loaded, cache, built, answer>>

\* Then the same through applyActions, for the flag in the save.
ApplyOptOut(r) ==
    /\ pc[r] \in {"hide", "show"}
    /\ WithUserLock(r, "putFlag", [save[UserOf[r]] EXCEPT !.leaderboardOptOut = (pc[r] = "hide")])
    /\ UNCHANGED boardVars

PutFlag(r) ==
    /\ pc[r] = "putFlag"
    /\ PutSave(r)
    /\ Release(r)
    /\ Goto(r, "invalidate")
    /\ UNCHANGED <<clock, at, loaded, boardVars>>

InvalidateLeaderboards(r) ==
    /\ pc[r] = "invalidate"
    /\ cache' = None
    /\ Goto(r, "done")
    /\ UNCHANGED <<clock, save, holder, at, loaded, optOut, built, answer, hiddenSince>>

GetLeaderboards(r) ==
    /\ pc[r] = "idle"
    /\ TakeNow(r)
    /\ Goto(r, "cached")
    /\ UNCHANGED <<clock, save, holder, loaded, boardVars>>

Fresh(r) == IF cache = None THEN FALSE ELSE at[r] < cache.generatedAt + Ttl

\* After the config was read.
ReadCache(r) ==
    /\ pc[r] = "cached"
    /\ \/ /\ Fresh(r)
          /\ answer' = [answer EXCEPT ![r] = cache.players]
          /\ Goto(r, "done")
       \/ /\ ~ Fresh(r)
          /\ Goto(r, "saves")
          /\ UNCHANGED answer
    /\ UNCHANGED <<clock, save, holder, at, loaded, optOut, cache, built, hiddenSince>>

Visible == {u \in Users : ~ optOut[u]}

\* getAllUsersWithSaves, for the boards made from saves.
ReadSaves(r) ==
    /\ pc[r] = "saves"
    /\ built' = [built EXCEPT ![r] = Visible]
    /\ Goto(r, "event")
    /\ UNCHANGED <<clock, save, holder, at, loaded, optOut, cache, answer, hiddenSince>>

\* listLeaderboard, for the board of the latest event.
ListLeaderboard(r) ==
    /\ pc[r] = "event"
    /\ built' = [built EXCEPT ![r] = @ \cup Visible]
    /\ Goto(r, "store")
    /\ UNCHANGED <<clock, save, holder, at, loaded, optOut, cache, answer, hiddenSince>>

\* Mutant. The payload is dated when it is ready.
StoreNow(r) ==
    /\ pc[r] = "store"
    /\ cache' = [generatedAt |-> clock, players |-> built[r]]
    /\ answer' = [answer EXCEPT ![r] = built[r]]
    /\ Goto(r, "done")
    /\ UNCHANGED <<clock, save, holder, at, loaded, optOut, built, hiddenSince>>

\* The payload is dated when its request came in.
Store(r) ==
    /\ pc[r] = "store"
    /\ cache' = [generatedAt |-> at[r], players |-> built[r]]
    /\ answer' = [answer EXCEPT ![r] = built[r]]
    /\ Goto(r, "done")
    /\ UNCHANGED <<clock, save, holder, at, loaded, optOut, built, hiddenSince>>

RejectBoard(r) ==
    /\ pc[r] \in {"hide", "show", "putFlag", "invalidate", "cached", "saves", "event", "store"}
    /\ Reject(r)
    /\ UNCHANGED boardVars

BoardStep(r) ==
    \/ \E hide \in BOOLEAN : SetLeaderboardOptOut(r, hide)
    \/ ApplyOptOut(r) \/ PutFlag(r) \/ InvalidateLeaderboards(r)
    \/ GetLeaderboards(r) \/ ReadCache(r) \/ ReadSaves(r) \/ ListLeaderboard(r) \/ Store(r)
    \/ RejectBoard(r)

-----------------------------------------------------------------------------

\* However a rebuild and an opt-out overlap, a player is gone from what the
\* cache serves one TTL after they opted out.
HiddenAfterTtl ==
    [][\A r \in Requests : pc[r] = "cached" /\ pc'[r] = "done" =>
          \A u \in answer'[r] : optOut[u] => at[r] < hiddenSince[u] + Ttl]_<<requestVars, boardVars>>
=============================================================================
