--------------------------- MODULE PlayerRequests ---------------------------
(***************************************************************************)
(* What the minigame and leaderboard routes share: requests that run in    *)
(* awaited steps, the save each loads and overwrites under its player's    *)
(* lock, and the clock.  A save is what these routes read and write of it. *)
(***************************************************************************)
EXTENDS Naturals

CONSTANTS
    Users, Requests, UserOf, Games,
    MaxClock,   \* bound: the clock
    None

ASSUME UserAssumption == UserOf \in [Requests -> Users]
ASSUME ClockAssumption == MaxClock \in Nat
ASSUME NoneAssumption == None \notin Requests \cup Nat

VARIABLES
    clock,    \* Date.now()
    save,     \* the saves table
    holder,   \* the request whose fn runs under withUserLock
    pc,       \* the step a request is at
    at,       \* the `now` it took
    loaded    \* the state it works on in memory

requestVars == <<clock, save, holder, pc, at, loaded>>

Save == [wins : Nat, gameCooldowns : [Games -> Nat], leaderboardOptOut : BOOLEAN]
NewSave == [wins |-> 0, gameCooldowns |-> [g \in Games |-> 0], leaderboardOptOut |-> FALSE]

InitRequests ==
    /\ clock = 0
    /\ save = [u \in Users |-> NewSave]
    /\ holder = [u \in Users |-> None]
    /\ pc = [r \in Requests |-> "idle"]
    /\ at = [r \in Requests |-> 0]
    /\ loaded = [r \in Requests |-> NewSave]

Goto(r, there) == pc' = [pc EXCEPT ![r] = there]
TakeNow(r) == at' = [at EXCEPT ![r] = clock]

\* withUserLock grants, and loadEvaluateAndSchedule reads the row; what the
\* fn then does to it, in memory, is `changed`.
WithUserLock(r, there, changed) ==
    /\ holder[UserOf[r]] = None
    /\ holder' = [holder EXCEPT ![UserOf[r]] = r]
    /\ loaded' = [loaded EXCEPT ![r] = changed]
    /\ Goto(r, there)
    /\ UNCHANGED <<clock, save, at>>

\* The whole row is overwritten with the in-memory state.
PutSave(r) == save' = [save EXCEPT ![UserOf[r]] = loaded[r]]

Release(r) == holder' = [holder EXCEPT ![UserOf[r]] = IF @ = r THEN None ELSE @]

Tick == clock < MaxClock /\ clock' = clock + 1 /\ UNCHANGED <<save, holder, pc, at, loaded>>

InFlight(r) == pc[r] \notin {"idle", "done"}

\* A statement of the request rejects: 500, and the lock is released.
Reject(r) ==
    /\ InFlight(r)
    /\ Goto(r, "done")
    /\ Release(r)
    /\ UNCHANGED <<clock, save, at, loaded>>

RequestsTypeOK ==
    /\ clock \in Nat
    /\ save \in [Users -> Save]
    /\ holder \in [Users -> Requests \cup {None}]
    /\ at \in [Requests -> Nat]
    /\ loaded \in [Requests -> Save]
=============================================================================
