----------------------------- MODULE ArcadeProofs ---------------------------
(***************************************************************************)
(* For any players, requests, scores and durations: a win pays once per    *)
(* cooldown, a record was announced, and a player who opted out is gone    *)
(* from the served board after its TTL.                                    *)
(***************************************************************************)
EXTENDS Arcade, FiniteSetTheorems, TLAPS

USE DEF requestVars, gameVars, boardVars

\* The steps at which a request has the player's lock.
Locked == {"put", "bests", "finish", "putFlag"}

Steps == {"idle", "start", "open", "create", "lock", "hide", "show", "invalidate",
          "cached", "saves", "event", "store", "done"} \cup Locked

StepsOK == pc \in [Requests -> Steps]

LEMMA NewSaveIsSave == NewSave \in Save
BY DEF NewSave, Save


\* What the fields of a row are after one of them is overwritten.
LEMMA SaveFields ==
    ASSUME NEW row \in Save
    PROVE  /\ \A k \in Nat : LET new == [row EXCEPT !.wins = k]
                             IN  new \in Save /\ new.wins = k /\ new.gameCooldowns = row.gameCooldowns
           /\ \A d \in [Games -> Nat] : LET new == [row EXCEPT !.gameCooldowns = d]
                             IN  new \in Save /\ new.wins = row.wins /\ new.gameCooldowns = d
           /\ \A h \in BOOLEAN : LET new == [row EXCEPT !.leaderboardOptOut = h]
                             IN  new \in Save /\ new.wins = row.wins /\ new.gameCooldowns = row.gameCooldowns
BY Zenon DEF Save

LEMMA SessionFields ==
    ASSUME NEW row \in Row, NEW score \in Nat
    PROVE  LET new == [row EXCEPT !.score = score]
           IN  /\ new \in Row
               /\ new.user = row.user /\ new.game = row.game /\ new.score = score
BY Zenon DEF Row

\* A win counts, and starts the game's cooldown.
LEMMA WinRow ==
    ASSUME NEW row \in Save, NEW g \in Games, NEW until \in Nat
    PROVE  LET won == [row EXCEPT !.wins = @ + 1, !.gameCooldowns[g] = until]
           IN  /\ won \in Save
               /\ won.wins = row.wins + 1
               /\ won.gameCooldowns = [row.gameCooldowns EXCEPT ![g] = until]
<1> DEFINE counted == [row EXCEPT !.wins = @ + 1]
           cooled == [counted.gameCooldowns EXCEPT ![g] = until]
<1>1. row.wins + 1 \in Nat
  BY DEF Save
<1>2. counted \in Save /\ counted.wins = row.wins + 1 /\ counted.gameCooldowns = row.gameCooldowns
  BY <1>1, SaveFields, Zenon
<1>3. cooled \in [Games -> Nat]
  <2>1. counted.gameCooldowns \in [Games -> Nat]
    BY <1>2, Zenon DEF Save
  <2> HIDE DEF counted
  <2>. QED
    BY <2>1
<1>4. LET won == [counted EXCEPT !.gameCooldowns = cooled]
      IN  won \in Save /\ won.wins = counted.wins /\ won.gameCooldowns = cooled
  <2> HIDE DEF counted, cooled
  <2>. QED
    BY <1>2, <1>3, SaveFields, Zenon
<1>. QED
  BY <1>2, <1>4, Zenon

-----------------------------------------------------------------------------

(***************************************************************************)
(* The shape of the state: who has a session, and who has the lock.        *)
(***************************************************************************)

\* A request opens a row of its own, and has none before.
Unopened == \A q \in Requests : pc[q] \in {"idle", "start", "open", "create"} => sessions[q] = None

\* A finish redeems a row of its own player, which is never deleted.
Redeems ==
    /\ \A q \in Requests : sid[q] # None => sessions[sid[q]] \in Row /\ sessions[sid[q]].user = UserOf[q]
    /\ \A q \in Requests : pc[q] \in {"lock", "put", "bests", "finish"} => sid[q] # None
    /\ \A q \in Requests : pc[q] = "idle" => sid[q] = None

Holds == \A q \in Requests : pc[q] \in Locked => holder[UserOf[q]] = q

Shape == TypeOK /\ StepsOK /\ Unopened /\ Redeems /\ Holds

LEMMA ShapeInit == Init => Shape
BY NewSaveIsSave, UserAssumption, GameAssumption
   DEF Init, InitRequests, InitGames, InitBoards, TypeOK, RequestsTypeOK, StepsOK, Steps, Locked,
       Shape, Unopened, Redeems, Holds

LEMMA ShapeGameStep ==
    ASSUME Shape, NEW r \in Requests, GameStep(r), UNCHANGED boardVars
    PROVE  Shape'
<1> USE UserAssumption, NoneAssumption, GameAssumption
    DEF TypeOK, RequestsTypeOK, StepsOK, Steps, Locked, Goto, TakeNow, Shape, Unopened, Redeems, Holds
<1>1. CASE Start(r)
  BY <1>1 DEF Start
<1>2. CASE CheckCooldown(r)
  BY <1>2 DEF CheckCooldown
<1>3. CASE GetOpenMinigameSession(r)
  BY <1>3 DEF GetOpenMinigameSession
<1>4. CASE CreateMinigameSession(r)
  <2>1. sessions' \in [Requests -> Row \cup {None}]
    BY <1>4 DEF CreateMinigameSession, Row
  <2>2. \A q \in Requests : q # r => sessions'[q] = sessions[q] /\ pc'[q] = pc[q]
    BY <1>4 DEF CreateMinigameSession
  <2>3. \A q \in Requests : sid[q] # r
    BY <1>4 DEF CreateMinigameSession
  <2>. QED
    BY <1>4, <2>1, <2>2, <2>3 DEF CreateMinigameSession
<1>5. ASSUME NEW s \in Requests, NEW metric \in Metrics, Finish(r, s, metric)
      PROVE  Shape'
  <2>1. sessions[s] \in Row /\ sessions[s].game \in Games /\ sessions[s].user = UserOf[r]
    BY <1>5 DEF Finish, Row
  <2>2. Clamp(sessions[s].game, metric) \in Nat
    BY <2>1 DEF Clamp
  <2>3. TypeOK' /\ StepsOK'
    BY <1>5, <2>2 DEF Finish
  <2>4. Unopened' /\ Holds'
    BY <1>5 DEF Finish
  <2>5. Redeems'
    BY <1>5, <2>1 DEF Finish
  <2>. QED
    BY <2>3, <2>4, <2>5
<1>6. CASE Evaluate(r)
  <2> DEFINE row == save[UserOf[r]]
             cools == at[r] < row.gameCooldowns[GameOf(r)]
             pays == ~ cools /\ Won(GameOf(r), clamped[r])
             won == [row EXCEPT !.wins = @ + 1, !.gameCooldowns[GameOf(r)] = at[r] + Cooldown]
  <2>1. row \in Save /\ GameOf(r) \in Games /\ at[r] + Cooldown \in Nat /\ pays \in BOOLEAN /\ cools \in BOOLEAN
    BY <1>6, SMTT(30) DEF Evaluate, GameOf, Row
  <2>2. won \in Save
    <3> HIDE DEF row
    <3>. QED
      BY <2>1, WinRow, Zenon
  <2>3. /\ pc[r] = "lock" /\ holder[UserOf[r]] = None
        /\ cooling' = [cooling EXCEPT ![r] = cools]
        /\ earned' = [earned EXCEPT ![r] = pays]
        /\ holder' = [holder EXCEPT ![UserOf[r]] = r]
        /\ loaded' = [loaded EXCEPT ![r] = IF pays THEN won ELSE row]
        /\ pc' = [pc EXCEPT ![r] = "put"]
        /\ UNCHANGED <<clock, save, at, sessions, game, sid, clamped, newBest>>
    BY <1>6, Zenon DEF Evaluate, WithUserLock
  <2> HIDE DEF won, row, pays, cools
  <2>. QED
    BY <2>1, <2>2, <2>3
<1>7. CASE PutFinish(r)
  BY <1>7 DEF PutFinish, PutSave
<1>8. CASE GetMinigameBests(r)
  BY <1>8 DEF GetMinigameBests
<1>9. CASE FinishMinigameSession(r)
  <2> DEFINE new == [sessions[sid[r]] EXCEPT !.score = clamped[r]]
  <2>1. sid[r] \in Requests /\ sessions[sid[r]] \in Row /\ clamped[r] \in Nat /\ pc[r] = "finish"
    BY <1>9 DEF FinishMinigameSession
  <2>2. new \in Row /\ new.user = sessions[sid[r]].user
    BY <2>1, SessionFields, Zenon
  <2>3. sessions' = [sessions EXCEPT ![sid[r]] = new]
    BY <1>9, Zenon DEF FinishMinigameSession
  <2> HIDE DEF new
  <2>4. /\ holder' = [holder EXCEPT ![UserOf[r]] = IF @ = r THEN None ELSE @]
        /\ pc' = [pc EXCEPT ![r] = "done"]
        /\ newBest' = [newBest EXCEPT ![r] = @ /\ ~ cooling[r]]
        /\ UNCHANGED <<clock, save, at, loaded, game, sid, clamped, cooling, earned>>
    BY <1>9 DEF FinishMinigameSession, Release
  <2>. QED
    BY <2>1, <2>2, <2>3, <2>4
<1>10. CASE RejectGame(r)
  BY <1>10 DEF RejectGame, Reject, Release
<1>. QED
  BY <1>1, <1>2, <1>3, <1>4, <1>5, <1>6, <1>7, <1>8, <1>9, <1>10 DEF GameStep

LEMMA ShapeBoardStep ==
    ASSUME Shape, NEW r \in Requests, BoardStep(r), UNCHANGED gameVars
    PROVE  Shape'
<1> USE UserAssumption, NoneAssumption, GameAssumption
    DEF TypeOK, RequestsTypeOK, StepsOK, Steps, Locked, Goto, TakeNow, Shape, Unopened, Redeems, Holds
<1>1. ASSUME NEW hide \in BOOLEAN, SetLeaderboardOptOut(r, hide) PROVE Shape'
  BY <1>1 DEF SetLeaderboardOptOut
<1>2. CASE ApplyOptOut(r)
  <2> DEFINE flagged == [save[UserOf[r]] EXCEPT !.leaderboardOptOut = (pc[r] = "hide")]
  <2>1. flagged \in Save
    <3>1. (pc[r] = "hide") \in BOOLEAN /\ save[UserOf[r]] \in Save
      OBVIOUS
    <3>. QED
      BY <3>1, SaveFields, Zenon
  <2>2. /\ pc[r] \in {"hide", "show"} /\ holder[UserOf[r]] = None
        /\ holder' = [holder EXCEPT ![UserOf[r]] = r]
        /\ loaded' = [loaded EXCEPT ![r] = flagged]
        /\ pc' = [pc EXCEPT ![r] = "putFlag"]
        /\ UNCHANGED <<clock, save, at, boardVars>>
    BY <1>2, Zenon DEF ApplyOptOut, WithUserLock
  <2> HIDE DEF flagged
  <2>. QED
    BY <2>1, <2>2
<1>3. CASE PutFlag(r)
  BY <1>3 DEF PutFlag, PutSave, Release
<1>4. CASE InvalidateLeaderboards(r)
  BY <1>4 DEF InvalidateLeaderboards
<1>5. CASE GetLeaderboards(r)
  BY <1>5 DEF GetLeaderboards
<1>6. CASE ReadCache(r)
  BY <1>6, SMTT(30) DEF ReadCache, Fresh
<1>7. CASE ReadSaves(r)
  BY <1>7 DEF ReadSaves, Visible
<1>8. CASE ListLeaderboard(r)
  BY <1>8 DEF ListLeaderboard, Visible
<1>9. CASE Store(r)
  BY <1>9 DEF Store
<1>10. CASE RejectBoard(r)
  BY <1>10 DEF RejectBoard, Reject, Release
<1>. QED
  BY <1>1, <1>2, <1>3, <1>4, <1>5, <1>6, <1>7, <1>8, <1>9, <1>10 DEF BoardStep

LEMMA ShapeStep == Shape /\ [Next]_vars => Shape'
<1> SUFFICES ASSUME Shape, [Next]_vars PROVE Shape'
  OBVIOUS
<1>1. CASE Tick /\ UNCHANGED <<gameVars, boardVars>>
  BY <1>1 DEF Tick, TypeOK, RequestsTypeOK, StepsOK, Shape, Unopened, Redeems, Holds
<1>2. CASE UNCHANGED vars
  BY <1>2 DEF vars, TypeOK, RequestsTypeOK, StepsOK, Shape, Unopened, Redeems, Holds
<1>. QED
  BY <1>1, <1>2, ShapeGameStep, ShapeBoardStep DEF Next

\* Every variable keeps its type.
THEOREM TypeCorrect == Spec => []TypeOK
<1>1. Spec => []Shape
  BY ShapeInit, ShapeStep, PTL DEF Spec
<1>2. Shape => TypeOK
  BY DEF Shape
<1>. QED
  BY <1>1, <1>2, PTL

\* A redeemed session stays redeemed by its request, for the same game, at the
\* time and with the score its finish took.
LEMMA RedeemedKeeps ==
    ASSUME Shape, [Next]_vars, NEW q \in Requests, sid[q] # None
    PROVE  /\ sid'[q] = sid[q] /\ GameOf(q)' = GameOf(q)
           /\ at'[q] = at[q] /\ clamped'[q] = clamped[q]
<1> USE NoneAssumption DEF Shape, TypeOK, RequestsTypeOK, Redeems, Unopened, GameOf, TakeNow
<1>1. ASSUME NEW r \in Requests, GameStep(r)
      PROVE  sid'[q] = sid[q] /\ GameOf(q)' = GameOf(q) /\ at'[q] = at[q] /\ clamped'[q] = clamped[q]
  <2>1. CASE CreateMinigameSession(r)
    <3>1. sid[q] # r
      BY <2>1, GameAssumption DEF CreateMinigameSession
    <3>. QED
      BY <2>1, <3>1 DEF CreateMinigameSession
  <2>2. CASE FinishMinigameSession(r)
    <3> DEFINE new == [sessions[sid[r]] EXCEPT !.score = clamped[r]]
    <3>1. sid[r] \in Requests /\ sessions[sid[r]] \in Row /\ clamped[r] \in Nat
      BY <2>2 DEF FinishMinigameSession
    <3>2. new.game = sessions[sid[r]].game
      BY <3>1, SessionFields, Zenon
    <3>3. sessions' = [sessions EXCEPT ![sid[r]] = new]
      BY <2>2, Zenon DEF FinishMinigameSession
    <3> HIDE DEF new
    <3>. QED
      BY <2>2, <3>1, <3>2, <3>3 DEF FinishMinigameSession
  <2>3. CASE Evaluate(r)
    <3>1. UNCHANGED <<sid, sessions, at, clamped>>
      BY <2>3, Zenon DEF Evaluate, WithUserLock
    <3>. QED
      BY <3>1
  <2>. QED
    BY <1>1, <2>1, <2>2, <2>3
       DEF GameStep, Start, CheckCooldown, GetOpenMinigameSession, Finish, PutFinish,
           GetMinigameBests, RejectGame, Reject
<1>2. ASSUME NEW r \in Requests, BoardStep(r), UNCHANGED gameVars
      PROVE  sid'[q] = sid[q] /\ GameOf(q)' = GameOf(q) /\ at'[q] = at[q] /\ clamped'[q] = clamped[q]
  <2>1. CASE ApplyOptOut(r)
    <3>1. at' = at
      BY <2>1, Zenon DEF ApplyOptOut, WithUserLock
    <3>. QED
      BY <1>2, <3>1
  <2>. QED
    BY <1>2, <2>1
       DEF BoardStep, SetLeaderboardOptOut, PutFlag, InvalidateLeaderboards, GetLeaderboards,
           ReadCache, ReadSaves, ListLeaderboard, Store, RejectBoard, Reject
<1>. QED
  BY <1>1, <1>2 DEF Next, Tick, vars

-----------------------------------------------------------------------------

(***************************************************************************)
(* One win per cooldown.                                                   *)
(***************************************************************************)
Earners == \A q \in Requests : earned[q] => sid[q] # None /\ pc[q] \in {"put", "bests", "finish", "done"}

\* What a request is about to write over the row is the row, and its own win.
Carries ==
    \A q \in Requests :
        /\ pc[q] = "put" =>
              /\ loaded[q].wins = save[UserOf[q]].wins + (IF earned[q] THEN 1 ELSE 0)
              /\ \A g \in Games :
                    IF earned[q] /\ g = GameOf(q)
                    THEN save[UserOf[q]].gameCooldowns[g] <= at[q] /\ loaded[q].gameCooldowns[g] = at[q] + Cooldown
                    ELSE loaded[q].gameCooldowns[g] = save[UserOf[q]].gameCooldowns[g]
        /\ pc[q] = "putFlag" =>
              /\ loaded[q].wins = save[UserOf[q]].wins
              /\ loaded[q].gameCooldowns = save[UserOf[q]].gameCooldowns

\* The cooldown on record is no earlier than that of any paid win.
Dated == \A q \in Requests : Paid(q) => at[q] + Cooldown <= save[UserOf[q]].gameCooldowns[GameOf(q)]

PaidBy(u) == {q \in Requests : UserOf[q] = u /\ Paid(q)}

Apart ==
    \A r, q \in Requests :
        r # q /\ Paid(r) /\ Paid(q) /\ UserOf[r] = UserOf[q] /\ GameOf(r) = GameOf(q) =>
            at[r] + Cooldown <= at[q] \/ at[q] + Cooldown <= at[r]

Counted == \A u \in Users : save[u].wins = Cardinality(PaidBy(u))

WinInv == Shape /\ Earners /\ Carries /\ Dated /\ Apart /\ Counted

\* A step that pays nobody, writes no row and loads none.
LEMMA QuietStep ==
    ASSUME WinInv, Shape', [Next]_vars, save' = save,
           \A q \in Requests : pc'[q] \in {"put", "putFlag"} =>
               pc'[q] = pc[q] /\ loaded'[q] = loaded[q] /\ earned'[q] = earned[q],
           \A q \in Requests : earned'[q] => earned[q] /\ pc'[q] \in {"put", "bests", "finish", "done"},
           \A q \in Requests : Paid(q)' = Paid(q)
    PROVE  WinInv'
<1> USE DEF WinInv
<1>1. \A q \in Requests : sid[q] # None => sid'[q] = sid[q] /\ GameOf(q)' = GameOf(q) /\ at'[q] = at[q]
  BY RedeemedKeeps
<1>2. \A q \in Requests : Paid(q) => sid[q] # None
  BY DEF Paid, Earners
<1>3. Earners'
  BY <1>1 DEF Earners
<1>4. Carries'
  <2>1. \A q \in Requests : pc'[q] = "put" => sid[q] # None
    BY DEF Shape, Redeems
  <2>. QED
    BY <1>1, <2>1 DEF Carries
<1>5. Dated'
  BY <1>1, <1>2 DEF Dated
<1>6. Apart'
  BY <1>1, <1>2 DEF Apart
<1>7. Counted'
  <2>1. \A u \in Users : PaidBy(u)' = PaidBy(u)
    BY DEF PaidBy
  <2>. QED
    BY <2>1 DEF Counted
<1>. QED
  BY <1>3, <1>4, <1>5, <1>6, <1>7

LEMMA WinEvaluate ==
    ASSUME WinInv, Shape', NEW r \in Requests, Evaluate(r), UNCHANGED boardVars, [Next]_vars
    PROVE  WinInv'
<1> USE UserAssumption, NoneAssumption, GameAssumption DEF WinInv, Shape, TypeOK, RequestsTypeOK, StepsOK
<1> DEFINE row == save[UserOf[r]]
           pays == ~ (at[r] < row.gameCooldowns[GameOf(r)]) /\ Won(GameOf(r), clamped[r])
           won == [row EXCEPT !.wins = @ + 1, !.gameCooldowns[GameOf(r)] = at[r] + Cooldown]
<1>1. row \in Save /\ GameOf(r) \in Games /\ at[r] + Cooldown \in Nat /\ pays \in BOOLEAN
  <2>1. pc[r] = "lock"
    BY Zenon DEF Evaluate
  <2>2. sid[r] # None /\ sessions[sid[r]] # None
    BY <2>1, Zenon DEF Redeems
  <2>3. sessions[sid[r]] \in Row
    BY <2>2, Zenon
  <2>4. GameOf(r) \in Games
    BY <2>3, Zenon DEF GameOf, Row
  <2>5. row \in Save /\ at[r] \in Nat
    BY Zenon
  <2>6. at[r] + Cooldown \in Nat
    BY <2>5
  <2>. QED
    BY <2>4, <2>5, <2>6, Zenon
<1>2. /\ won.wins = row.wins + 1
      /\ won.gameCooldowns = [row.gameCooldowns EXCEPT ![GameOf(r)] = at[r] + Cooldown]
  <2> HIDE DEF row
  <2>. QED
    BY <1>1, WinRow, ZenonT(60)
<1>3. /\ pc[r] = "lock"
      /\ earned' = [earned EXCEPT ![r] = pays]
      /\ loaded' = [loaded EXCEPT ![r] = IF pays THEN won ELSE row]
      /\ pc' = [pc EXCEPT ![r] = "put"]
      /\ UNCHANGED <<save, at, sessions, sid>>
  BY Zenon DEF Evaluate, WithUserLock, Goto
<1>4. pays => row.gameCooldowns[GameOf(r)] <= at[r]
  BY <1>1 DEF Save
<1>5. row.gameCooldowns \in [Games -> Nat] /\ row.wins \in Nat
  BY <1>1 DEF Save
<1> HIDE DEF won, pays
<1>6. ~ Paid(r) /\ \A q \in Requests : Paid(q)' = Paid(q)
  BY <1>1, <1>3 DEF Paid, Earners
<1>7. Earners'
  BY <1>1, <1>3 DEF Earners, Redeems
<1>8. Carries'
  <2>1. ASSUME NEW q \in Requests, q # r
        PROVE  pc'[q] = pc[q] /\ loaded'[q] = loaded[q] /\ earned'[q] = earned[q]
    BY <1>3, <2>1
  <2>2. /\ loaded'[r].wins = row.wins + (IF pays THEN 1 ELSE 0)
        /\ \A g \in Games :
              IF pays /\ g = GameOf(r)
              THEN row.gameCooldowns[g] <= at[r] /\ loaded'[r].gameCooldowns[g] = at[r] + Cooldown
              ELSE loaded'[r].gameCooldowns[g] = row.gameCooldowns[g]
    <3>1. CASE pays
      BY <3>1, <1>2, <1>3, <1>4, <1>5
    <3>2. CASE ~pays
      BY <3>2, <1>3, <1>5
    <3>. QED
      BY <3>1, <3>2
  <2>3. \A q \in Requests : GameOf(q)' = GameOf(q)
    BY <1>3 DEF GameOf
  <2>4. earned'[r] = pays /\ pc'[r] = "put"
    BY <1>3
  <2>. QED
    BY <1>3, <2>1, <2>2, <2>3, <2>4 DEF Carries
<1>9. Dated' /\ Apart'
  BY <1>3, <1>6 DEF Dated, Apart, GameOf
<1>10. Counted'
  <2>1. \A u \in Users : PaidBy(u)' = PaidBy(u)
    BY <1>6 DEF PaidBy
  <2>. QED
    BY <1>3, <2>1 DEF Counted
<1>. QED
  BY <1>7, <1>8, <1>9, <1>10

LEMMA WinPut ==
    ASSUME WinInv, Shape', NEW r \in Requests, PutFinish(r), UNCHANGED boardVars, [Next]_vars
    PROVE  WinInv'
<1> USE UserAssumption, NoneAssumption, GameAssumption DEF WinInv, Shape, TypeOK, RequestsTypeOK, StepsOK
<1> DEFINE u == UserOf[r]
<1>1. /\ pc[r] = "put" /\ pc' = [pc EXCEPT ![r] = "bests"]
      /\ save' = [save EXCEPT ![u] = loaded[r]]
      /\ UNCHANGED <<at, loaded, sessions, sid, earned>>
  BY DEF PutFinish, PutSave, Goto
<1>2. \A q \in Requests : GameOf(q)' = GameOf(q)
  BY <1>1 DEF GameOf
<1>3. \A q \in Requests : q # r /\ UserOf[q] = u => pc[q] \notin {"put", "putFlag"}
  BY <1>1 DEF Holds, Locked
<1>4. /\ u \in Users /\ save'[u] = loaded[r]
      /\ \A w \in Users : w # u => save'[w] = save[w]
  BY <1>1
<1>5. ~ Paid(r) /\ (Paid(r)' <=> earned[r]) /\ \A q \in Requests : q # r => Paid(q)' = Paid(q)
  BY <1>1 DEF Paid
<1>6. \A q \in Requests : Paid(q)' => sid[q] # None
  BY <1>1 DEF Paid, Earners
<1>7. Earners'
  BY <1>1 DEF Earners
<1>8. Carries'
  BY <1>1, <1>2, <1>3, <1>4 DEF Carries
<1>9. \A q \in Requests : sid[q] # None => GameOf(q) \in Games
  BY DEF Redeems, Row, GameOf
<1>10. \A g \in Games : /\ save[u].gameCooldowns[g] \in Nat /\ loaded[r].gameCooldowns[g] \in Nat
                        /\ save[u].gameCooldowns[g] <= loaded[r].gameCooldowns[g]
  <2>1. save[u].gameCooldowns \in [Games -> Nat] /\ loaded[r].gameCooldowns \in [Games -> Nat]
    BY DEF Save
  <2>2. at[r] \in Nat /\ Cooldown \in Nat
    OBVIOUS
  <2>. QED
    BY <1>1, <2>1, <2>2, SMTT(30) DEF Carries
<1>11. earned[r] => loaded[r].gameCooldowns[GameOf(r)] = at[r] + Cooldown /\ save[u].gameCooldowns[GameOf(r)] <= at[r]
  BY <1>1, <1>6, <1>9, <1>5 DEF Carries
<1>12. Dated'
  <2>1. ASSUME NEW q \in Requests, Paid(q)'
        PROVE  at[q] + Cooldown <= save'[UserOf[q]].gameCooldowns[GameOf(q)]
    <3>1. CASE q = r
      BY <3>1, <2>1, <1>4, <1>5, <1>11
    <3>2. CASE q # r /\ UserOf[q] = u
      <4>1. at[q] + Cooldown <= save[u].gameCooldowns[GameOf(q)]
        BY <3>2, <2>1, <1>5 DEF Dated
      <4>2. GameOf(q) \in Games /\ at[q] + Cooldown \in Nat
        BY <2>1, <1>6, <1>9
      <4>. QED
        BY <3>2, <4>1, <4>2, <1>4, <1>10
    <3>3. CASE q # r /\ UserOf[q] # u
      BY <3>3, <2>1, <1>4, <1>5 DEF Dated
    <3>. QED
      BY <3>1, <3>2, <3>3
  <2>. QED
    BY <2>1, <1>1, <1>2 DEF Dated
<1>13. Apart'
  <2>1. ASSUME NEW q \in Requests, q # r, Paid(q), earned[r], UserOf[q] = u, GameOf(q) = GameOf(r)
        PROVE  at[q] + Cooldown <= at[r]
    <3>1. at[q] + Cooldown <= save[u].gameCooldowns[GameOf(r)]
      BY <2>1 DEF Dated
    <3>2. GameOf(r) \in Games /\ at[q] + Cooldown \in Nat /\ at[r] \in Nat
      BY <2>1, <1>5, <1>6, <1>9
    <3>. QED
      BY <3>1, <3>2, <2>1, <1>10, <1>11
  <2>. QED
    BY <2>1, <1>1, <1>2, <1>5 DEF Apart
<1>14. Counted'
  <2>1. IsFiniteSet(PaidBy(u)) /\ r \notin PaidBy(u)
    BY <1>5, FS_Subset DEF PaidBy
  <2>2. PaidBy(u)' = IF earned[r] THEN PaidBy(u) \cup {r} ELSE PaidBy(u)
    BY <1>5 DEF PaidBy
  <2>3. \A w \in Users : w # u => PaidBy(w)' = PaidBy(w)
    BY <1>5, ZenonT(60) DEF PaidBy
  <2>4. Cardinality(PaidBy(u) \cup {r}) = Cardinality(PaidBy(u)) + 1
    BY <2>1, FS_AddElement
  <2>5. loaded[r].wins = save[u].wins + (IF earned[r] THEN 1 ELSE 0) /\ save[u].wins \in Nat
    BY <1>1 DEF Carries, Save
  <2>6. save'[u].wins = Cardinality(PaidBy(u)')
    <3>1. save[u].wins = Cardinality(PaidBy(u))
      BY DEF Counted
    <3>2. CASE earned[r]
      BY <3>1, <3>2, <1>4, <2>2, <2>4, <2>5
    <3>3. CASE ~earned[r]
      BY <3>1, <3>3, <1>4, <2>2, <2>5
    <3>. QED
      BY <3>2, <3>3
  <2>. QED
    BY <2>3, <2>6, <1>4 DEF Counted
<1>. QED
  BY <1>7, <1>8, <1>12, <1>13, <1>14

\* The opt-out writes the save back with another flag and nothing else.
LEMMA WinFlag ==
    ASSUME WinInv, Shape', NEW r \in Requests, ApplyOptOut(r) \/ PutFlag(r), UNCHANGED gameVars, [Next]_vars
    PROVE  WinInv'
<1> USE UserAssumption, NoneAssumption, GameAssumption DEF WinInv, Shape, TypeOK, RequestsTypeOK, StepsOK
<1>1. CASE ApplyOptOut(r)
  <2> DEFINE row == save[UserOf[r]]
             flagged == [row EXCEPT !.leaderboardOptOut = (pc[r] = "hide")]
  <2>1. flagged.wins = row.wins /\ flagged.gameCooldowns = row.gameCooldowns
    <3>1. (pc[r] = "hide") \in BOOLEAN /\ save[UserOf[r]] \in Save
      OBVIOUS
    <3>. QED
      BY <3>1, SaveFields, Zenon
  <2>2. /\ pc[r] \in {"hide", "show"}
        /\ loaded' = [loaded EXCEPT ![r] = flagged]
        /\ pc' = [pc EXCEPT ![r] = "putFlag"]
        /\ UNCHANGED <<save, at>>
    BY <1>1, Zenon DEF ApplyOptOut, WithUserLock, Goto
  <2> HIDE DEF flagged
  <2>3. ~ earned[r]
    BY <2>2 DEF Earners
  <2>4. \A q \in Requests : Paid(q)' = Paid(q) /\ GameOf(q)' = GameOf(q)
    BY <2>2, <2>3 DEF Paid, GameOf
  <2>5. Earners'
    BY <2>2, <2>3 DEF Earners
  <2>6. Carries'
    <3>1. ASSUME NEW q \in Requests, q # r
          PROVE  pc'[q] = pc[q] /\ loaded'[q] = loaded[q]
      BY <2>2, <3>1
    <3>2. loaded'[r] = flagged /\ pc'[r] = "putFlag"
      BY <2>2
    <3>. QED
      BY <2>1, <2>2, <2>4, <3>1, <3>2 DEF Carries
  <2>7. Dated' /\ Apart'
    BY <2>2, <2>4 DEF Dated, Apart
  <2>8. Counted'
    <3>1. \A u \in Users : PaidBy(u)' = PaidBy(u)
      BY <2>4 DEF PaidBy
    <3>. QED
      BY <2>2, <3>1 DEF Counted
  <2>. QED
    BY <2>5, <2>6, <2>7, <2>8
<1>2. CASE PutFlag(r)
  <2>1. /\ pc[r] = "putFlag" /\ pc' = [pc EXCEPT ![r] = "invalidate"]
        /\ save' = [save EXCEPT ![UserOf[r]] = loaded[r]]
        /\ UNCHANGED <<at, loaded>>
    BY <1>2 DEF PutFlag, PutSave, Goto
  <2>2. \A u \in Users : save'[u].wins = save[u].wins /\ save'[u].gameCooldowns = save[u].gameCooldowns
    BY <2>1 DEF Carries
  <2>3. ~ earned[r]
    BY <2>1 DEF Earners
  <2>4. \A q \in Requests : Paid(q)' = Paid(q) /\ GameOf(q)' = GameOf(q)
    BY <2>1, <2>3 DEF Paid, GameOf
  <2>5. Earners'
    BY <2>1, <2>3 DEF Earners
  <2>6. Carries'
    BY <2>1, <2>2, <2>4 DEF Carries
  <2>7. Dated' /\ Apart'
    BY <2>1, <2>2, <2>4 DEF Dated, Apart
  <2>8. Counted'
    <3>1. \A u \in Users : PaidBy(u)' = PaidBy(u)
      BY <2>4 DEF PaidBy
    <3>. QED
      BY <2>2, <3>1 DEF Counted
  <2>. QED
    BY <2>5, <2>6, <2>7, <2>8
<1>. QED
  BY <1>1, <1>2

LEMMA WinInit == Init => WinInv
<1> SUFFICES ASSUME Init PROVE WinInv
  OBVIOUS
<1>1. Shape
  BY ShapeInit
<1>2. Earners /\ Carries /\ Dated /\ Apart
  BY DEF Init, InitRequests, InitGames, Earners, Carries, Dated, Apart, Paid
<1>3. Counted
  <2>1. \A u \in Users : PaidBy(u) = {}
    BY DEF Init, InitGames, PaidBy, Paid
  <2>2. \A u \in Users : save[u].wins = 0
    BY DEF Init, InitRequests, NewSave
  <2>. QED
    BY <2>1, <2>2, FS_EmptySet DEF Counted
<1>. QED
  BY <1>1, <1>2, <1>3 DEF WinInv

LEMMA WinStep == WinInv /\ [Next]_vars => WinInv'
<1> SUFFICES ASSUME WinInv, [Next]_vars PROVE WinInv'
  OBVIOUS
<1>1. Shape'
  BY ShapeStep DEF WinInv
<1> USE DEF WinInv, Shape, TypeOK, RequestsTypeOK, StepsOK, Goto, TakeNow, Paid, Earners
<1>2. ASSUME NEW r \in Requests, GameStep(r), UNCHANGED boardVars PROVE WinInv'
  <2>1. CASE Evaluate(r)
    BY <1>1, <1>2, <2>1, WinEvaluate
  <2>2. CASE PutFinish(r)
    BY <1>1, <1>2, <2>2, WinPut
  <2>3. CASE Start(r) \/ CheckCooldown(r) \/ GetOpenMinigameSession(r) \/ CreateMinigameSession(r)
    <3>1. \E there \in {"start", "open", "create", "done"} :
             /\ pc' = [pc EXCEPT ![r] = there]
             /\ UNCHANGED <<save, loaded, earned>>
             /\ pc[r] \notin {"put", "bests", "finish", "done"}
      BY <2>3 DEF Start, CheckCooldown, GetOpenMinigameSession, CreateMinigameSession
    <3>2. ~ earned[r]
      BY <3>1
    <3>. QED
      BY <1>1, <1>2, <3>1, <3>2, QuietStep
  <2>4. ASSUME NEW s \in Requests, NEW metric \in Metrics, Finish(r, s, metric) PROVE WinInv'
    BY <1>1, <2>4, QuietStep DEF Finish
  <2>5. CASE GetMinigameBests(r) \/ FinishMinigameSession(r)
    <3>1. \E there \in {"finish", "done"} :
             /\ pc' = [pc EXCEPT ![r] = there]
             /\ UNCHANGED <<save, loaded, earned>>
             /\ pc[r] \in {"bests", "finish"}
      BY <2>5 DEF GetMinigameBests, FinishMinigameSession
    <3>. QED
      BY <1>1, <1>2, <3>1, QuietStep
  <2>6. CASE RejectGame(r)
    BY <1>1, <2>6, QuietStep, ZenonT(60) DEF RejectGame, Reject
  <2>. QED
    BY <1>2, <2>1, <2>2, <2>3, <2>4, <2>5, <2>6 DEF GameStep
<1>3. ASSUME NEW r \in Requests, BoardStep(r), UNCHANGED gameVars PROVE WinInv'
  <2>1. CASE ApplyOptOut(r) \/ PutFlag(r)
    BY <1>1, <1>3, <2>1, WinFlag
  <2>2. CASE ~ (ApplyOptOut(r) \/ PutFlag(r))
    <3>1. \E there \in {"hide", "show", "cached", "saves", "event", "store", "done"} :
             /\ pc' = [pc EXCEPT ![r] = there]
             /\ save' = save /\ loaded' = loaded
             /\ pc[r] \notin {"put", "bests", "finish", "done"}
      BY <1>3, <2>2
         DEF BoardStep, SetLeaderboardOptOut, InvalidateLeaderboards, GetLeaderboards, ReadCache,
             ReadSaves, ListLeaderboard, Store, RejectBoard, Reject
    <3>2. ~ earned[r]
      BY <3>1
    <3>. QED
      BY <1>1, <1>3, <3>1, <3>2, QuietStep
  <2>. QED
    BY <2>1, <2>2
<1>4. CASE Tick /\ UNCHANGED <<gameVars, boardVars>>
  BY <1>1, <1>4, QuietStep DEF Tick
<1>5. CASE UNCHANGED vars
  BY <1>1, <1>5, QuietStep DEF vars
<1>. QED
  BY <1>2, <1>3, <1>4, <1>5 DEF Next

\* Two wins of one game that pay are a cooldown apart, and the save holds as
\* many wins as were paid.
THEOREM WinsPayOncePerCooldown == Spec => []OneWinPerCooldown
<1>1. Spec => []WinInv
  BY WinInit, WinStep, PTL DEF Spec
<1>2. WinInv => OneWinPerCooldown
  BY DEF WinInv, Apart, Counted, PaidBy, OneWinPerCooldown
<1>. QED
  BY <1>1, <1>2, PTL

-----------------------------------------------------------------------------

(***************************************************************************)
(* A cooldown is that of a paid win.                                       *)
(***************************************************************************)
Covered(u, g) ==
    save[u].gameCooldowns[g] > 0 =>
        \E q \in Requests : /\ Paid(q) /\ UserOf[q] = u /\ GameOf(q) = g
                           /\ save[u].gameCooldowns[g] = at[q] + Cooldown

Cooled ==
    \A q \in Requests :
        cooling[q] => sid[q] # None /\ pc[q] \in {"put", "bests", "finish", "done"} /\ Withheld(q)

CoolInv == WinInv /\ (\A u \in Users, g \in Games : Covered(u, g)) /\ Cooled

LEMMA CoolInit == Init => CoolInv
<1> SUFFICES ASSUME Init PROVE CoolInv
  OBVIOUS
<1>1. WinInv
  BY WinInit
<1>2. \A u \in Users, g \in Games : save[u].gameCooldowns[g] = 0
  BY DEF Init, InitRequests, NewSave
<1>3. Cooled
  BY DEF Init, InitGames, Cooled
<1>. QED
  BY <1>1, <1>2, <1>3 DEF CoolInv, Covered

LEMMA PaidStays ==
    ASSUME WinInv, [Next]_vars, NEW q \in Requests, Paid(q)
    PROVE  Paid(q)' /\ GameOf(q)' = GameOf(q) /\ at'[q] = at[q]
<1> USE DEF WinInv, Shape, TypeOK, RequestsTypeOK, StepsOK
<1>1. GameOf(q)' = GameOf(q) /\ at'[q] = at[q]
  BY RedeemedKeeps DEF Earners, Paid
<1>2. ASSUME NEW r \in Requests, GameStep(r) PROVE Paid(q)'
  <2>1. CASE Evaluate(r)
    <3>1. pc[r] = "lock" /\ pc' = [pc EXCEPT ![r] = "put"] /\ \A p \in Requests \ {r} : earned'[p] = earned[p]
      BY <2>1, Zenon DEF Evaluate, WithUserLock, Goto
    <3>. QED
      BY <3>1 DEF Paid
  <2>. QED
    BY <1>2, <2>1
       DEF GameStep, Start, CheckCooldown, GetOpenMinigameSession, CreateMinigameSession, Finish,
           PutFinish, GetMinigameBests, FinishMinigameSession, RejectGame, Reject, Paid, Goto
<1>3. ASSUME NEW r \in Requests, BoardStep(r), UNCHANGED gameVars PROVE Paid(q)'
  <2>1. CASE ApplyOptOut(r)
    <3>1. pc[r] \in {"hide", "show"} /\ pc' = [pc EXCEPT ![r] = "putFlag"]
      BY <2>1, Zenon DEF ApplyOptOut, WithUserLock, Goto
    <3>. QED
      BY <1>3, <3>1 DEF Paid
  <2>. QED
    BY <1>3, <2>1
       DEF BoardStep, SetLeaderboardOptOut, PutFlag, InvalidateLeaderboards, GetLeaderboards,
           ReadCache, ReadSaves, ListLeaderboard, Store, RejectBoard, Reject, Paid, Goto
<1>. QED
  BY <1>1, <1>2, <1>3 DEF Next, Tick, vars, Paid

\* A row's cooldown is written by a win as it becomes paid, and by nothing else.
LEMMA CooldownWritten ==
    ASSUME WinInv, [Next]_vars, NEW u \in Users, NEW g \in Games
    PROVE  \/ save'[u].gameCooldowns[g] = save[u].gameCooldowns[g]
           \/ \E q \in Requests : /\ Paid(q)' /\ UserOf[q] = u /\ GameOf(q)' = g
                                 /\ save'[u].gameCooldowns[g] = at'[q] + Cooldown
<1> USE DEF WinInv, Shape, TypeOK, RequestsTypeOK, StepsOK
<1>1. ASSUME NEW r \in Requests, PutFinish(r)
      PROVE  \/ save'[u].gameCooldowns[g] = save[u].gameCooldowns[g]
             \/ /\ Paid(r)' /\ UserOf[r] = u /\ GameOf(r)' = g
                /\ save'[u].gameCooldowns[g] = at'[r] + Cooldown
  <2>1. /\ pc[r] = "put" /\ pc' = [pc EXCEPT ![r] = "bests"]
        /\ save' = [save EXCEPT ![UserOf[r]] = loaded[r]]
        /\ UNCHANGED <<at, sessions, sid, earned>>
    BY <1>1 DEF PutFinish, PutSave, Goto
  <2>2. CASE UserOf[r] = u /\ earned[r] /\ g = GameOf(r)
    <3>1. loaded[r].gameCooldowns[g] = at[r] + Cooldown
      BY <2>1, <2>2 DEF Carries
    <3>. QED
      BY <2>1, <2>2, <3>1 DEF Paid, GameOf
  <2>3. CASE ~ (UserOf[r] = u /\ earned[r] /\ g = GameOf(r))
    BY <2>1, <2>3, UserAssumption DEF Carries
  <2>. QED
    BY <2>2, <2>3
<1>2. ASSUME NEW r \in Requests, PutFlag(r)
      PROVE  save'[u].gameCooldowns[g] = save[u].gameCooldowns[g]
  <2>1. pc[r] = "putFlag" /\ save' = [save EXCEPT ![UserOf[r]] = loaded[r]]
    BY <1>2 DEF PutFlag, PutSave
  <2>. QED
    BY <2>1, UserAssumption DEF Carries
<1>3. ASSUME NEW r \in Requests, GameStep(r), ~ PutFinish(r) PROVE save' = save
  <2>1. CASE Evaluate(r)
    BY <2>1, Zenon DEF Evaluate, WithUserLock
  <2>. QED
    BY <1>3, <2>1
       DEF GameStep, Start, CheckCooldown, GetOpenMinigameSession, CreateMinigameSession, Finish,
           GetMinigameBests, FinishMinigameSession, RejectGame, Reject
<1>4. ASSUME NEW r \in Requests, BoardStep(r), ~ PutFlag(r) PROVE save' = save
  <2>1. CASE ApplyOptOut(r)
    BY <2>1, Zenon DEF ApplyOptOut, WithUserLock
  <2>. QED
    BY <1>4, <2>1
       DEF BoardStep, SetLeaderboardOptOut, InvalidateLeaderboards, GetLeaderboards,
           ReadCache, ReadSaves, ListLeaderboard, Store, RejectBoard, Reject
<1>. QED
  BY <1>1, <1>2, <1>3, <1>4 DEF Next, Tick, vars

\* A request is found to be cooling when it reads the row, and stays so.
LEMMA CoolingIs ==
    ASSUME WinInv, Cooled, [Next]_vars, NEW q \in Requests
    PROVE  \/ cooling'[q] = cooling[q] /\ (cooling[q] => pc'[q] \in {"put", "bests", "finish", "done"})
           \/ /\ pc[q] = "lock" /\ pc'[q] = "put" /\ UNCHANGED <<save, at, sid, sessions>>
              /\ cooling'[q] => at[q] < save[UserOf[q]].gameCooldowns[GameOf(q)]
<1> USE DEF WinInv, Shape, TypeOK, RequestsTypeOK, StepsOK, Cooled, Goto
<1>1. ASSUME NEW r \in Requests, Evaluate(r)
      PROVE  /\ pc[r] = "lock" /\ pc' = [pc EXCEPT ![r] = "put"] /\ UNCHANGED <<save, at, sid, sessions>>
             /\ cooling' = [cooling EXCEPT ![r] = at[r] < save[UserOf[r]].gameCooldowns[GameOf(r)]]
  BY <1>1, Zenon DEF Evaluate, WithUserLock
<1>2. ASSUME NEW r \in Requests, GameStep(r), ~ Evaluate(r)
      PROVE  cooling' = cooling /\ (cooling[q] => pc'[q] \in {"put", "bests", "finish", "done"})
  BY <1>2 DEF GameStep, Start, CheckCooldown, GetOpenMinigameSession, CreateMinigameSession, Finish,
              PutFinish, GetMinigameBests, FinishMinigameSession, RejectGame, Reject
<1>3. ASSUME NEW r \in Requests, BoardStep(r), UNCHANGED gameVars
      PROVE  cooling' = cooling /\ (cooling[q] => pc'[q] \in {"put", "bests", "finish", "done"})
  <2>1. CASE ApplyOptOut(r)
    <3>1. pc[r] \in {"hide", "show"} /\ pc' = [pc EXCEPT ![r] = "putFlag"]
      BY <2>1, Zenon DEF ApplyOptOut, WithUserLock
    <3>. QED
      BY <1>3, <3>1
  <2>. QED
    BY <1>3, <2>1
       DEF BoardStep, SetLeaderboardOptOut, PutFlag, InvalidateLeaderboards, GetLeaderboards,
           ReadCache, ReadSaves, ListLeaderboard, Store, RejectBoard, Reject
<1>. QED
  BY <1>1, <1>2, <1>3 DEF Next, Tick, vars

LEMMA CoolStep == CoolInv /\ [Next]_vars => CoolInv'
<1> SUFFICES ASSUME CoolInv, [Next]_vars PROVE CoolInv'
  OBVIOUS
<1> USE DEF CoolInv
<1>1. WinInv'
  BY WinStep
<1>2. ASSUME NEW u \in Users, NEW g \in Games PROVE Covered(u, g)'
  <2>1. CASE save'[u].gameCooldowns[g] = save[u].gameCooldowns[g]
    BY <2>1, PaidStays DEF Covered
  <2>. QED
    BY <2>1, CooldownWritten DEF Covered
<1>3. Cooled'
  <2> SUFFICES ASSUME NEW q \in Requests, cooling'[q]
               PROVE  sid'[q] # None /\ pc'[q] \in {"put", "bests", "finish", "done"} /\ Withheld(q)'
    BY DEF Cooled
  <2>1. CASE cooling[q]
    <3>1. sid[q] # None /\ Withheld(q) /\ pc'[q] \in {"put", "bests", "finish", "done"}
      BY <2>1, CoolingIs DEF Cooled
    <3>2. sid'[q] = sid[q] /\ GameOf(q)' = GameOf(q) /\ at'[q] = at[q]
      BY <3>1, RedeemedKeeps DEF WinInv
    <3>. QED
      BY <3>1, <3>2, PaidStays DEF Withheld
  <2>2. CASE ~ cooling[q]
    <3>1. /\ pc[q] = "lock" /\ pc'[q] = "put" /\ UNCHANGED <<save, at, sid, sessions>>
          /\ at[q] < save[UserOf[q]].gameCooldowns[GameOf(q)]
      BY <2>2, CoolingIs
    <3>2. UserOf[q] \in Users /\ sid[q] # None /\ GameOf(q) \in Games /\ GameOf(q)' = GameOf(q)
      BY <3>1, UserAssumption DEF WinInv, Shape, Redeems, GameOf, Row
    <3>3. save[UserOf[q]].gameCooldowns[GameOf(q)] \in Nat /\ at[q] \in Nat
      BY <3>2 DEF WinInv, Shape, TypeOK, RequestsTypeOK, Save
    <3>4. PICK p \in Requests : /\ Paid(p) /\ UserOf[p] = UserOf[q] /\ GameOf(p) = GameOf(q)
                                /\ save[UserOf[q]].gameCooldowns[GameOf(q)] = at[p] + Cooldown
      BY <3>1, <3>2, <3>3 DEF Covered
    <3>5. Paid(p)' /\ GameOf(p)' = GameOf(p) /\ at'[p] = at[p]
      BY <3>4, PaidStays
    <3>. QED
      BY <3>1, <3>2, <3>4, <3>5 DEF Withheld
  <2>. QED
    BY <2>1, <2>2
<1>. QED
  BY <1>1, <1>2, <1>3

-----------------------------------------------------------------------------

(***************************************************************************)
(* Every record was announced, or withheld in a cooldown.                  *)
(***************************************************************************)
Announces(q, u, g, score) ==
    /\ sid[q] # None /\ UserOf[q] = u /\ GameOf(q) = g
    /\ clamped[q] >= score /\ (newBest[q] \/ Withheld(q)) /\ pc[q] = "done"

StillAnnounces(q, u, g, score) ==
    /\ sid'[q] # None /\ UserOf[q] = u /\ GameOf(q)' = g
    /\ clamped'[q] >= score /\ (newBest'[q] \/ Withheld(q)') /\ pc'[q] = "done"

\* A score on record has an announcement at least as high.
Recorded ==
    \A s \in Requests :
        sessions[s] # None /\ sessions[s].score # None /\ sessions[s].score > 0 =>
            \E q \in Requests : Announces(q, sessions[s].user, sessions[s].game, sessions[s].score)

\* So will one that is about to be recorded without being announced.
Unbeaten ==
    \A r \in Requests :
        pc[r] = "finish" /\ clamped[r] > 0 /\ ~ newBest[r] =>
            \E q \in Requests : Announces(q, UserOf[r], GameOf(r), clamped[r])

BestInv == CoolInv /\ Recorded /\ Unbeaten

LEMMA BestInit == Init => BestInv
BY CoolInit DEF Init, InitRequests, InitGames, BestInv, Recorded, Unbeaten

\* Nothing is done by a request that is done.
LEMMA DoneStays ==
    ASSUME Shape, [Next]_vars, NEW q \in Requests, pc[q] = "done"
    PROVE  pc'[q] = "done" /\ newBest'[q] = newBest[q]
<1> USE DEF Shape, TypeOK, RequestsTypeOK, StepsOK, Goto
<1>1. ASSUME NEW r \in Requests, GameStep(r)
      PROVE  pc'[q] = "done" /\ newBest'[q] = newBest[q]
  <2>1. CASE Evaluate(r)
    <3>1. pc[r] = "lock" /\ pc' = [pc EXCEPT ![r] = "put"] /\ newBest' = newBest
      BY <2>1, Zenon DEF Evaluate, WithUserLock, Goto
    <3>. QED
      BY <3>1
  <2>2. CASE FinishMinigameSession(r)
    <3>1. pc[r] = "finish" /\ pc' = [pc EXCEPT ![r] = "done"] /\ \A p \in Requests \ {r} : newBest'[p] = newBest[p]
      BY <2>2, Zenon DEF FinishMinigameSession, Goto
    <3>. QED
      BY <3>1
  <2>. QED
    BY <1>1, <2>1, <2>2
       DEF GameStep, Start, CheckCooldown, GetOpenMinigameSession, CreateMinigameSession, Finish,
           PutFinish, GetMinigameBests, RejectGame, Reject
<1>2. ASSUME NEW r \in Requests, BoardStep(r), UNCHANGED gameVars
      PROVE  pc'[q] = "done" /\ newBest'[q] = newBest[q]
  <2>1. CASE ApplyOptOut(r)
    <3>1. pc[r] # "done" /\ pc' = [pc EXCEPT ![r] = "putFlag"]
      BY <2>1, Zenon DEF ApplyOptOut, WithUserLock, Goto
    <3>. QED
      BY <1>2, <3>1
  <2>. QED
    BY <1>2, <2>1
       DEF BoardStep, SetLeaderboardOptOut, PutFlag, InvalidateLeaderboards, GetLeaderboards,
           ReadCache, ReadSaves, ListLeaderboard, Store, RejectBoard, Reject
<1>. QED
  BY <1>1, <1>2 DEF Next, Tick, vars

LEMMA AnnouncementStays ==
    ASSUME CoolInv, [Next]_vars, NEW q \in Requests, NEW u, NEW g, NEW score, Announces(q, u, g, score)
    PROVE  StillAnnounces(q, u, g, score)
<1>1. /\ pc'[q] = "done" /\ newBest'[q] = newBest[q]
      /\ sid'[q] = sid[q] /\ GameOf(q)' = GameOf(q) /\ clamped'[q] = clamped[q]
  BY DoneStays, RedeemedKeeps DEF Announces, CoolInv, WinInv
<1>2. Withheld(q) => Withheld(q)'
  <2>1. cooling[q] => cooling'[q]
    BY CoolingIs DEF Announces, CoolInv
  <2>2. CoolInv'
    BY CoolStep
  <2>. QED
    BY <2>1, <2>2 DEF Withheld, CoolInv, Cooled
<1>. QED
  BY <1>1, <1>2 DEF Announces, StillAnnounces

\* A step that records no score and lets none be recorded.
LEMMA BestQuiet ==
    ASSUME BestInv, CoolInv', [Next]_vars,
           \A s \in Requests : sessions'[s] = sessions[s] \/ sessions'[s].score = None,
           \A r \in Requests : pc'[r] = "finish" => pc[r] = "finish" /\ newBest'[r] = newBest[r]
    PROVE  BestInv'
<1> USE DEF BestInv
<1>0. Shape
  BY DEF CoolInv, WinInv
<1>1. Recorded'
  <2> SUFFICES ASSUME NEW s \in Requests,
                      sessions'[s] # None /\ sessions'[s].score # None /\ sessions'[s].score > 0
               PROVE  \E q \in Requests :
                         StillAnnounces(q, sessions'[s].user, sessions'[s].game, sessions'[s].score)
    BY DEF Recorded, Announces, StillAnnounces
  <2>1. sessions'[s] = sessions[s]
    OBVIOUS
  <2>2. PICK q \in Requests : Announces(q, sessions[s].user, sessions[s].game, sessions[s].score)
    BY <2>1 DEF Recorded
  <2>. QED
    BY <2>1, <2>2, AnnouncementStays
<1>2. Unbeaten'
  <2> SUFFICES ASSUME NEW r \in Requests, pc'[r] = "finish", clamped'[r] > 0, ~ newBest'[r]
               PROVE  \E q \in Requests : StillAnnounces(q, UserOf[r], GameOf(r)', clamped'[r])
    BY DEF Unbeaten, Announces, StillAnnounces
  <2>1. sid[r] # None
    BY <1>0 DEF Shape, Redeems
  <2>2. GameOf(r)' = GameOf(r) /\ clamped'[r] = clamped[r]
    BY <1>0, <2>1, RedeemedKeeps
  <2>3. PICK q \in Requests : Announces(q, UserOf[r], GameOf(r), clamped[r])
    BY <2>2 DEF Unbeaten
  <2>. QED
    BY <2>2, <2>3, AnnouncementStays
<1>. QED
  BY <1>1, <1>2

\* The bests are read: the score beats them all, or one of them was announced.
LEMMA BestRead ==
    ASSUME BestInv, CoolInv', [Next]_vars, NEW r \in Requests, GetMinigameBests(r)
    PROVE  BestInv'
<1> USE DEF BestInv
<1>0. Shape
  BY DEF CoolInv, WinInv
<1>1. /\ pc[r] = "bests" /\ pc' = [pc EXCEPT ![r] = "finish"]
      /\ newBest' = [newBest EXCEPT ![r] =
            clamped[r] > 0 /\ \A best \in Scores(UserOf[r], GameOf(r)) : clamped[r] > best]
      /\ UNCHANGED <<sessions, sid, clamped>>
  BY DEF GetMinigameBests, Goto
<1>2. Recorded'
  <2> SUFFICES ASSUME NEW s \in Requests,
                      sessions[s] # None /\ sessions[s].score # None /\ sessions[s].score > 0
               PROVE  \E q \in Requests :
                         StillAnnounces(q, sessions[s].user, sessions[s].game, sessions[s].score)
    BY <1>1 DEF Recorded, Announces, StillAnnounces
  <2>. QED
    BY AnnouncementStays DEF Recorded
<1>3. Unbeaten'
  <2> SUFFICES ASSUME NEW p \in Requests, pc'[p] = "finish", clamped[p] > 0, ~ newBest'[p]
               PROVE  \E q \in Requests : StillAnnounces(q, UserOf[p], GameOf(p), clamped[p])
    BY <1>1 DEF Unbeaten, Announces, StillAnnounces, GameOf
  <2>1. CASE p # r
    BY <1>0, <1>1, <2>1, AnnouncementStays DEF Unbeaten, Shape, StepsOK, TypeOK
  <2>2. CASE p = r
    <3>1. PICK best \in Scores(UserOf[r], GameOf(r)) : ~ (clamped[r] > best)
      BY <1>0, <1>1, <2>2 DEF Shape, TypeOK
    <3>2. PICK s \in Requests : /\ sessions[s] # None /\ sessions[s].user = UserOf[r]
                                /\ sessions[s].game = GameOf(r) /\ sessions[s].score = best /\ best # None
      BY <3>1 DEF Scores, Rows
    <3>3. best \in Nat /\ clamped[r] \in Nat /\ best >= clamped[r]
      BY <1>0, <3>1, <3>2 DEF Shape, TypeOK, Row
    <3>4. PICK q \in Requests : Announces(q, UserOf[r], GameOf(r), best)
      BY <2>2, <3>2, <3>3 DEF Recorded
    <3>5. Announces(q, UserOf[r], GameOf(r), clamped[r])
      BY <1>0, <3>3, <3>4 DEF Announces, Shape, TypeOK
    <3>. QED
      BY <2>2, <3>5, AnnouncementStays
  <2>. QED
    BY <2>1, <2>2
<1>. QED
  BY <1>2, <1>3

\* The score is recorded: announced now, or by an earlier finish.
LEMMA BestFinish ==
    ASSUME BestInv, CoolInv', [Next]_vars, NEW r \in Requests, FinishMinigameSession(r)
    PROVE  BestInv'
<1> USE DEF BestInv, Shape, TypeOK, RequestsTypeOK, StepsOK
<1>0. Shape
  BY DEF CoolInv, WinInv
<1> DEFINE x == sid[r]
           new == [sessions[x] EXCEPT !.score = clamped[r]]
<1>1. x \in Requests /\ sessions[x] \in Row /\ sessions[x].user = UserOf[r] /\ clamped[r] \in Nat
  BY <1>0, NoneAssumption DEF FinishMinigameSession, Redeems
<1>2. new.user = UserOf[r] /\ new.game = GameOf(r) /\ new.score = clamped[r]
  BY <1>1, SessionFields, Zenon DEF GameOf
<1>3. sessions' = [sessions EXCEPT ![x] = new]
  BY Zenon DEF FinishMinigameSession
<1> HIDE DEF new
<1>4. /\ pc[r] = "finish" /\ pc' = [pc EXCEPT ![r] = "done"]
      /\ newBest' = [newBest EXCEPT ![r] = @ /\ ~ cooling[r]]
      /\ UNCHANGED <<sid, clamped, cooling>>
  BY DEF FinishMinigameSession, Goto
<1>5. clamped[r] > 0 => \E q \in Requests : StillAnnounces(q, UserOf[r], GameOf(r), clamped[r])
  <2>0. sid[r] # None /\ GameOf(r)' = GameOf(r) /\ pc'[r] = "done"
    BY <1>0, <1>4, RedeemedKeeps DEF Redeems
  <2>1. CASE cooling[r]
    <3>1. Withheld(r)'
      BY <1>4, <2>1 DEF CoolInv, Cooled
    <3>. QED
      BY <1>1, <1>4, <2>0, <3>1 DEF StillAnnounces
  <2>2. CASE newBest[r] /\ ~ cooling[r]
    BY <1>0, <1>1, <1>4, <2>0, <2>2 DEF StillAnnounces
  <2>3. CASE ~ newBest[r]
    BY <1>4, <2>3, AnnouncementStays DEF Unbeaten
  <2>. QED
    BY <2>1, <2>2, <2>3
<1>6. Recorded'
  <2> SUFFICES ASSUME NEW s \in Requests,
                      sessions'[s] # None /\ sessions'[s].score # None /\ sessions'[s].score > 0
               PROVE  \E q \in Requests :
                         StillAnnounces(q, sessions'[s].user, sessions'[s].game, sessions'[s].score)
    BY DEF Recorded, Announces, StillAnnounces
  <2>1. CASE s = x
    BY <1>0, <1>1, <1>2, <1>3, <1>5, <2>1
  <2>2. CASE s # x
    BY <1>1, <1>3, <2>2, AnnouncementStays DEF Recorded
  <2>. QED
    BY <2>1, <2>2
<1>7. Unbeaten'
  <2> SUFFICES ASSUME NEW p \in Requests, pc'[p] = "finish", clamped[p] > 0, ~ newBest[p], p # r
               PROVE  \E q \in Requests : StillAnnounces(q, UserOf[p], GameOf(p)', clamped[p])
    BY <1>0, <1>4 DEF Unbeaten, Announces, StillAnnounces
  <2>1. pc[p] = "finish" /\ sid[p] # None
    BY <1>0, <1>4 DEF Redeems
  <2>2. GameOf(p)' = GameOf(p)
    BY <1>0, <2>1, RedeemedKeeps
  <2>. QED
    BY <2>1, <2>2, AnnouncementStays DEF Unbeaten
<1>. QED
  BY <1>6, <1>7

LEMMA BestStep == BestInv /\ [Next]_vars => BestInv'
<1> SUFFICES ASSUME BestInv, [Next]_vars PROVE BestInv'
  OBVIOUS
<1>1. CoolInv'
  BY CoolStep DEF BestInv
<1>0. Shape
  BY DEF BestInv, CoolInv, WinInv
<1> USE <1>0 DEF Shape, TypeOK, RequestsTypeOK, StepsOK
<1>2. ASSUME NEW r \in Requests, GameStep(r) PROVE BestInv'
  <2>1. CASE GetMinigameBests(r)
    BY <1>1, <2>1, BestRead
  <2>2. CASE FinishMinigameSession(r)
    BY <1>1, <2>2, BestFinish
  <2>3. CASE CreateMinigameSession(r)
    <3>1. /\ \A s \in Requests : sessions'[s] = sessions[s] \/ sessions'[s].score = None
          /\ pc' = [pc EXCEPT ![r] = "done"] /\ newBest' = newBest
      BY <2>3 DEF CreateMinigameSession, Goto
    <3>. QED
      BY <1>1, <3>1, BestQuiet
  <2>4. CASE Evaluate(r)
    <3>1. sessions' = sessions /\ pc' = [pc EXCEPT ![r] = "put"] /\ newBest' = newBest
      BY <2>4, Zenon DEF Evaluate, WithUserLock, Goto
    <3>. QED
      BY <1>1, <3>1, BestQuiet
  <2>5. CASE RejectGame(r)
    BY <1>1, <2>5, BestQuiet DEF RejectGame, Reject, Goto
  <2>6. ASSUME NEW s \in Requests, NEW metric \in Metrics, Finish(r, s, metric) PROVE BestInv'
    BY <1>1, <2>6, BestQuiet DEF Finish, Goto
  <2>7. CASE Start(r) \/ CheckCooldown(r) \/ GetOpenMinigameSession(r) \/ PutFinish(r)
    <3>1. \E there \in {"start", "open", "create", "bests", "done"} : pc' = [pc EXCEPT ![r] = there]
      BY <2>7 DEF Start, CheckCooldown, GetOpenMinigameSession, PutFinish, Goto
    <3>2. sessions' = sessions /\ newBest' = newBest
      BY <2>7 DEF Start, CheckCooldown, GetOpenMinigameSession, PutFinish
    <3>. QED
      BY <1>1, <3>1, <3>2, BestQuiet
  <2>. QED
    BY <1>2, <2>1, <2>2, <2>3, <2>4, <2>5, <2>6, <2>7 DEF GameStep
<1>3. ASSUME NEW r \in Requests, BoardStep(r), UNCHANGED gameVars PROVE BestInv'
  <2>1. \E there \in Steps \ {"finish"} : pc' = [pc EXCEPT ![r] = there]
    <3>1. CASE ApplyOptOut(r)
      BY <3>1, Zenon DEF ApplyOptOut, WithUserLock, Goto, Steps, Locked
    <3>2. CASE ~ ApplyOptOut(r)
      BY <1>3, <3>2
         DEF BoardStep, SetLeaderboardOptOut, PutFlag, InvalidateLeaderboards, GetLeaderboards,
             ReadCache, ReadSaves, ListLeaderboard, Store, RejectBoard, Reject, Goto, Steps, Locked
    <3>. QED
      BY <3>1, <3>2
  <2>. QED
    BY <1>1, <1>3, <2>1, BestQuiet
<1>4. CASE (Tick /\ UNCHANGED <<gameVars, boardVars>>) \/ UNCHANGED vars
  BY <1>1, <1>4, BestQuiet DEF Tick, vars
<1>. QED
  BY <1>2, <1>3, <1>4 DEF Next

\* A player's recorded best, or a higher score of theirs, was announced to them
\* as a record, unless it was reached within a cooldown of a paid win (api.js
\* answers that finish 429, without newBest).
THEOREM RecordsAreAnnounced == Spec => []BestWasAnnounced
<1>1. Spec => []BestInv
  BY BestInit, BestStep, PTL DEF Spec
<1>2. BestInv => BestWasAnnounced
  <2> SUFFICES ASSUME BestInv, NEW u \in Users, NEW g \in Games, NEW best \in Scores(u, g), best > 0
               PROVE  \E r \in Requests : /\ sid[r] # None /\ UserOf[r] = u /\ GameOf(r) = g
                                          /\ clamped[r] >= best /\ (newBest[r] \/ Withheld(r))
    BY DEF BestWasAnnounced
  <2>1. PICK s \in Requests : /\ sessions[s] # None /\ sessions[s].user = u /\ sessions[s].game = g
                              /\ sessions[s].score = best /\ best # None
    BY DEF Scores, Rows
  <2>. QED
    BY <2>1 DEF BestInv, Recorded, Announces
<1>. QED
  BY <1>1, <1>2, PTL

-----------------------------------------------------------------------------

(***************************************************************************)
(* The opt-out.                                                            *)
(***************************************************************************)

\* A board, under way or cached, was begun before any player on it opted out.
BoardsOlder ==
    /\ \A q \in Requests : pc[q] \in {"event", "store"} =>
          \A u \in built[q] : optOut[u] => at[q] <= hiddenSince[u]
    /\ cache # None => \A u \in cache.players : optOut[u] => cache.generatedAt <= hiddenSince[u]

TimesPass ==
    /\ \A q \in Requests : at[q] <= clock
    /\ cache # None => cache.generatedAt <= clock

Unanswered == \A q \in Requests : pc[q] # "done" => answer[q] = {}

HideInv == Shape /\ BoardsOlder /\ TimesPass /\ Unanswered

LEMMA HideInit == Init => HideInv
BY ShapeInit DEF Init, InitRequests, InitBoards, HideInv, BoardsOlder, TimesPass, Unanswered

LEMMA HideStep == HideInv /\ [Next]_vars => HideInv'
<1> SUFFICES ASSUME HideInv, [Next]_vars PROVE HideInv'
  OBVIOUS
<1>1. Shape'
  BY ShapeStep DEF HideInv
<1> USE UserAssumption
    DEF HideInv, Shape, TypeOK, RequestsTypeOK, StepsOK, Goto, TakeNow, BoardsOlder, TimesPass, Unanswered
<1>2. ASSUME NEW r \in Requests, GameStep(r), UNCHANGED boardVars PROVE HideInv'
  <2>1. /\ clock' = clock
        /\ at' = at \/ (at' = [at EXCEPT ![r] = clock] /\ pc[r] = "idle")
        /\ \E there \in Steps \ {"event", "store"} : pc' = [pc EXCEPT ![r] = there] /\ pc[r] # "done"
    <3>1. CASE Evaluate(r)
      BY <3>1, Zenon DEF Evaluate, WithUserLock, Steps, Locked
    <3>2. CASE ~ Evaluate(r)
      BY <1>2, <3>2
         DEF GameStep, Start, CheckCooldown, GetOpenMinigameSession, CreateMinigameSession, Finish,
             PutFinish, GetMinigameBests, FinishMinigameSession, RejectGame, Reject, Steps, Locked
    <3>. QED
      BY <3>1, <3>2
  <2>. QED
    BY <1>1, <1>2, <2>1
<1>3. ASSUME NEW r \in Requests, BoardStep(r), UNCHANGED gameVars PROVE HideInv'
  <2>1. ASSUME NEW hide \in BOOLEAN, SetLeaderboardOptOut(r, hide) PROVE HideInv'
    <3>1. \A u \in Users : optOut'[u] => (optOut[u] /\ hiddenSince'[u] = hiddenSince[u]) \/ hiddenSince'[u] = clock
      BY <2>1 DEF SetLeaderboardOptOut
    <3>2. /\ pc[r] = "idle" /\ \E there \in {"hide", "show"} : pc' = [pc EXCEPT ![r] = there]
          /\ UNCHANGED <<clock, at, built, cache, answer>>
      BY <2>1 DEF SetLeaderboardOptOut
    <3>3. cache # None => cache.players \subseteq Users
      OBVIOUS
    <3>4. \A q \in Requests : built[q] \subseteq Users
      OBVIOUS
    <3>5. BoardsOlder'
      BY <3>1, <3>2, <3>3, <3>4
    <3>6. TimesPass' /\ Unanswered'
      BY <3>2
    <3>. QED
      BY <1>1, <3>5, <3>6
  <2>2. CASE ApplyOptOut(r)
    <3>1. /\ pc[r] \in {"hide", "show"} /\ pc' = [pc EXCEPT ![r] = "putFlag"]
          /\ UNCHANGED <<clock, at, boardVars>>
      BY <2>2, Zenon DEF ApplyOptOut, WithUserLock
    <3>. QED
      BY <1>1, <3>1
  <2>3. CASE PutFlag(r) \/ InvalidateLeaderboards(r) \/ GetLeaderboards(r)
    <3>1. CASE PutFlag(r)
      BY <1>1, <3>1 DEF PutFlag
    <3>2. CASE InvalidateLeaderboards(r)
      BY <1>1, <3>2 DEF InvalidateLeaderboards
    <3>3. CASE GetLeaderboards(r)
      BY <1>1, <3>3 DEF GetLeaderboards
    <3>. QED
      BY <2>3, <3>1, <3>2, <3>3
  <2>4. CASE ReadCache(r)
    BY <1>1, <2>4 DEF ReadCache
  <2>5. CASE ReadSaves(r)
    BY <1>1, <2>5 DEF ReadSaves, Visible
  <2>6. CASE ListLeaderboard(r)
    BY <1>1, <2>6 DEF ListLeaderboard, Visible
  <2>7. CASE Store(r)
    BY <1>1, <2>7 DEF Store
  <2>8. CASE RejectBoard(r)
    BY <1>1, <2>8 DEF RejectBoard, Reject
  <2>. QED
    BY <1>3, <2>1, <2>2, <2>3, <2>4, <2>5, <2>6, <2>7, <2>8 DEF BoardStep
<1>4. CASE Tick /\ UNCHANGED <<gameVars, boardVars>>
  BY <1>1, <1>4 DEF Tick
<1>5. CASE UNCHANGED vars
  BY <1>1, <1>5 DEF vars
<1>. QED
  BY <1>2, <1>3, <1>4, <1>5 DEF Next

\* A player is gone from what the cache serves one TTL after they opted out.
THEOREM OptOutHides == Spec => HiddenAfterTtl
<1>1. Spec => []HideInv
  BY HideInit, HideStep, PTL DEF Spec
<1> DEFINE Step == \A r \in Requests : pc[r] = "cached" /\ pc'[r] = "done" =>
                       \A u \in answer'[r] : optOut[u] => at[r] < hiddenSince[u] + Ttl
<1>2. HideInv /\ [Next]_vars => [Step]_<<requestVars, boardVars>>
  <2> SUFFICES ASSUME HideInv, [Next]_vars, NEW r \in Requests, pc[r] = "cached", pc'[r] = "done",
                      NEW u \in answer'[r], optOut[u]
               PROVE  at[r] < hiddenSince[u] + Ttl
    OBVIOUS
  <2> USE DEF HideInv, Shape, TypeOK, RequestsTypeOK, StepsOK, Goto
  <2>1. answer'[r] # {} /\ answer[r] = {}
    BY DEF Unanswered
  <2>2. PICK q \in Requests : BoardStep(q)
    BY <2>1 DEF Next, Tick, vars
  <2>3. ReadCache(q) \/ Store(q)
    BY <2>1, <2>2
       DEF BoardStep, SetLeaderboardOptOut, ApplyOptOut, PutFlag, InvalidateLeaderboards,
           GetLeaderboards, ReadSaves, ListLeaderboard, RejectBoard
  <2>4. Fresh(r) /\ answer'[r] = cache.players
    BY <2>1, <2>3 DEF ReadCache, Store
  <2>5. cache # None /\ at[r] < cache.generatedAt + Ttl
    BY <2>4 DEF Fresh
  <2>. QED
    BY <2>4, <2>5, TtlAssumption DEF BoardsOlder
<1>. QED
  BY <1>1, <1>2, PTL DEF Spec, HiddenAfterTtl
=============================================================================
