------------------------------ MODULE Minigame ------------------------------
(***************************************************************************)
(* Minigame sessions: start opens one unless the player cools down or has  *)
(* one open, finish redeems it once.  Starts take no lock; a finish looks  *)
(* its session up before it waits for the lock.                            *)
(***************************************************************************)
EXTENDS PlayerRequests, FiniteSets

CONSTANTS
    Metrics,    \* the scores a client may report
    Cap,        \* the score of a game at which the server clamps
    Window,     \* durationSec and the ten seconds of slack
    Cooldown    \* winCooldownMs

Row == [user : Users, game : Games, started : Nat, score : Nat \cup {None}]

ASSUME GameAssumption ==
    /\ IsFiniteSet(Requests) /\ None \notin Row
    /\ Metrics \subseteq Nat
    /\ Cap \in [Games -> Nat]
    /\ Window \in Nat /\ Cooldown \in Nat

VARIABLES
    sessions,   \* minigame_sessions, by the request that created the row
    game,       \* the game a request starts
    sid,        \* the session a request finishes
    clamped,    \* its score
    cooling,    \* it came in the cooldown of a win
    earned,     \* it pays
    newBest     \* its score beat the bests; once answered: it was told so

gameVars == <<sessions, game, sid, clamped, cooling, earned, newBest>>

InitGames ==
    /\ sessions = [r \in Requests |-> None]
    /\ game \in [Requests -> Games]
    /\ sid = [r \in Requests |-> None]
    /\ clamped = [r \in Requests |-> 0]
    /\ cooling = [r \in Requests |-> FALSE]
    /\ earned = [r \in Requests |-> FALSE]
    /\ newBest = [r \in Requests |-> FALSE]

Rows(u, g) ==
    {s \in Requests : sessions[s] # None /\ sessions[s].user = u /\ sessions[s].game = g}

Start(r) ==
    /\ pc[r] = "idle"
    /\ TakeNow(r)
    /\ Goto(r, "start")
    /\ UNCHANGED <<clock, save, holder, loaded, gameVars>>

\* loadAndEvaluate runs under the lock, and nothing of the save is changed here.
CheckCooldown(r) ==
    /\ pc[r] = "start"
    /\ holder[UserOf[r]] = None
    /\ Goto(r, IF at[r] < save[UserOf[r]].gameCooldowns[game[r]] THEN "done" ELSE "open")
    /\ UNCHANGED <<clock, save, holder, at, loaded, gameVars>>

GetOpenMinigameSession(r) ==
    /\ pc[r] = "open"
    /\ Goto(r, IF \E s \in Rows(UserOf[r], game[r]) :
                     sessions[s].score = None /\ at[r] <= sessions[s].started + Window
               THEN "done" ELSE "create")
    /\ UNCHANGED <<clock, save, holder, at, loaded, gameVars>>

CreateMinigameSession(r) ==
    /\ pc[r] = "create"
    /\ sessions' = [sessions EXCEPT ![r] =
                      [user |-> UserOf[r], game |-> game[r], started |-> clock, score |-> None]]
    /\ Goto(r, "done")
    /\ UNCHANGED <<clock, save, holder, at, loaded, game, sid, clamped, cooling, earned, newBest>>

Clamp(g, metric) == IF metric > Cap[g] THEN Cap[g] ELSE metric

\* The session, the clock and the window are looked at before the lock.
Finish(r, s, metric) ==
    /\ pc[r] = "idle"
    /\ sessions[s] # None
    /\ sessions[s].user = UserOf[r]
    /\ sessions[s].score = None
    /\ clock <= sessions[s].started + Window
    /\ TakeNow(r)
    /\ sid' = [sid EXCEPT ![r] = s]
    /\ clamped' = [clamped EXCEPT ![r] = Clamp(sessions[s].game, metric)]
    /\ Goto(r, "lock")
    /\ UNCHANGED <<clock, save, holder, loaded, sessions, game, cooling, earned, newBest>>

GameOf(r) == sessions[sid[r]].game

\* Only match can be lost; any win pays at least one wafer.
Won(g, score) == g = "match" => score = Cap[g]

\* Mutant. The cooldown is trusted to what start saw.
PayEvery(r) ==
    LET g == GameOf(r)
        row == save[UserOf[r]]
    IN  /\ pc[r] = "lock"
        /\ cooling' = [cooling EXCEPT ![r] = FALSE]
        /\ earned' = [earned EXCEPT ![r] = Won(g, clamped[r])]
        /\ WithUserLock(r, "put",
             IF Won(g, clamped[r])
             THEN [row EXCEPT !.wins = @ + 1, !.gameCooldowns[g] = at[r] + Cooldown]
             ELSE row)
        /\ UNCHANGED <<sessions, game, sid, clamped, newBest>>

\* The cooldown is looked at again in the row just read.
Evaluate(r) ==
    LET g == GameOf(r)
        row == save[UserOf[r]]
        cools == at[r] < row.gameCooldowns[g]
        pays == ~ cools /\ Won(g, clamped[r])
    IN  /\ pc[r] = "lock"
        /\ cooling' = [cooling EXCEPT ![r] = cools]
        /\ earned' = [earned EXCEPT ![r] = pays]
        /\ WithUserLock(r, "put",
             IF pays THEN [row EXCEPT !.wins = @ + 1, !.gameCooldowns[g] = at[r] + Cooldown]
             ELSE row)
        /\ UNCHANGED <<sessions, game, sid, clamped, newBest>>

PutFinish(r) ==
    /\ pc[r] = "put"
    /\ PutSave(r)
    /\ Goto(r, "bests")
    /\ UNCHANGED <<clock, holder, at, loaded, gameVars>>

Scores(u, g) == {sessions[s].score : s \in Rows(u, g)} \ {None}

\* Mutant. The bests are read after the score is recorded.
BestsWithOwn(r) ==
    /\ pc[r] = "bests"
    /\ newBest' = [newBest EXCEPT ![r] =
                     \A best \in Scores(UserOf[r], GameOf(r)) \cup {clamped[r]} : clamped[r] > best]
    /\ Goto(r, "finish")
    /\ UNCHANGED <<clock, save, holder, at, loaded, sessions, game, sid, clamped, cooling, earned>>

GetMinigameBests(r) ==
    /\ pc[r] = "bests"
    /\ newBest' = [newBest EXCEPT ![r] =
                     clamped[r] > 0 /\ \A best \in Scores(UserOf[r], GameOf(r)) : clamped[r] > best]
    /\ Goto(r, "finish")
    /\ UNCHANGED <<clock, save, holder, at, loaded, sessions, game, sid, clamped, cooling, earned>>

\* The UPDATE does not ask whether the row is finished already.  A finish in
\* the cooldown is recorded too, but answered 429, which tells of no record.
FinishMinigameSession(r) ==
    /\ pc[r] = "finish"
    /\ sessions' = [sessions EXCEPT ![sid[r]].score = clamped[r]]
    /\ newBest' = [newBest EXCEPT ![r] = @ /\ ~ cooling[r]]
    /\ Release(r)
    /\ Goto(r, "done")
    /\ UNCHANGED <<clock, save, at, loaded, game, sid, clamped, cooling, earned>>

RejectGame(r) ==
    /\ pc[r] \in {"start", "open", "create", "lock", "put", "bests", "finish"}
    /\ Reject(r)
    /\ earned' = [earned EXCEPT ![r] = @ /\ pc[r] # "put"]
    /\ newBest' = [newBest EXCEPT ![r] = FALSE]
    /\ UNCHANGED <<sessions, game, sid, clamped, cooling>>

GameStep(r) ==
    \/ Start(r) \/ CheckCooldown(r) \/ GetOpenMinigameSession(r) \/ CreateMinigameSession(r)
    \/ \E s \in Requests, metric \in Metrics : Finish(r, s, metric)
    \/ Evaluate(r) \/ PutFinish(r) \/ GetMinigameBests(r) \/ FinishMinigameSession(r)
    \/ RejectGame(r)

-----------------------------------------------------------------------------

Paid(r) == earned[r] /\ pc[r] \in {"bests", "finish", "done"}

\* The finish came within the cooldown of a win that was paid.
Withheld(r) ==
    cooling[r] /\ \E q \in Requests :
        Paid(q) /\ UserOf[q] = UserOf[r] /\ GameOf(q) = GameOf(r) /\ at[r] < at[q] + Cooldown

\* Two wins of one game that pay are a cooldown apart, however many sessions
\* were opened at once and however often one of them is finished; and a win
\* that was paid stays in the save: no other route of the player that had the
\* save in memory takes it back.
OneWinPerCooldown ==
    /\ \A r, q \in Requests :
          r # q /\ Paid(r) /\ Paid(q) /\ UserOf[r] = UserOf[q] /\ GameOf(r) = GameOf(q) =>
              at[r] + Cooldown <= at[q] \/ at[q] + Cooldown <= at[r]
    /\ \A u \in Users : save[u].wins = Cardinality({r \in Requests : UserOf[r] = u /\ Paid(r)})

\* A player's recorded best, or a higher score of theirs, was announced to
\* them as a record, unless it was reached within a cooldown of a win that was
\* paid: a finish that is cut off leaves no score, and no later finish, of the
\* same session or another, hides one that nobody was told of.
BestWasAnnounced ==
    \A u \in Users, g \in Games : \A best \in Scores(u, g) : best > 0 =>
        \E r \in Requests :
            /\ sid[r] # None /\ UserOf[r] = u /\ GameOf(r) = g /\ clamped[r] >= best
            /\ newBest[r] \/ Withheld(r)
=============================================================================
