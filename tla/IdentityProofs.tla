---------------------------- MODULE IdentityProofs ----------------------------
(***************************************************************************)
(* For any number of players, logins, restarts and username changes: a     *)
(* credential opens the player's own save, two first logins of one player  *)
(* do not fail each other, and a chosen username survives every login.     *)
(* Then, of the gates before the cutover (Cutover): what they clear boots, *)
(* logs in and lands on the right save.                                    *)
(***************************************************************************)
EXTENDS Identity, Cutover, TLAPS

(***************************************************************************)
(* The inductive invariant, of one player and of one login.                *)
(***************************************************************************)

PlayerOk(p) ==
    /\ identity[p] # "absent" => username[p] # None
    /\ identity[p] \in {"absent", "null"} \/ (identity[p] = "st" /\ mapped[p])
    /\ session[p] \in {None, "ext"}
    /\ jwt[p] \/ session[p] # None => identity[p] # "absent"
    /\ chosen[p] # None => custom[p] /\ username[p] = chosen[p]

OwnName(p) == username[p] # None => ~ TakenByOther(username[p], p)

Known == {"existing", "update", "rename", "update2", "link", "create", "raced", "record", "session"}
Renaming == {"rename", "update2", "suffix", "insert2"}

LoginOk(l) ==
    /\ pc[l] \in Known => identity[Player[l]] # "absent"
    /\ pc[l] = "adopt" => username[Player[l]] # None
    /\ pc[l] \in {"raced", "record", "session"} => mapped[Player[l]]
    /\ pc[l] \in {"create", "raced", "record"} => record[l] = "st"
    /\ got[l] = "ext" => mapped[Player[l]]
    /\ pc[l] \in {"rename", "update2"} => chosen[Player[l]] = None
    /\ pc[l] = "update" /\ chosen[Player[l]] # None => wanted[l] = username[Player[l]]
    /\ pc[l] \in Renaming => clashed[l]
    /\ pc[l] = "failed" => faulted[l] \/ clashed[l]

PlayerInv == \A p \in Players : PlayerOk(p) /\ OwnName(p)
LoginInv == \A l \in Logins : LoginOk(l)

(***************************************************************************)
(* Types.                                                                  *)
(***************************************************************************)

DbTypes ==
    /\ username \in [Players -> Nat \cup {None}]
    /\ custom \in [Players -> BOOLEAN]
    /\ identity \in [Players -> {"absent", "null", "st", "ext"}]
    /\ mapped \in [Players -> BOOLEAN]
    /\ chosen \in [Players -> Nat \cup {None}]

Stage == {"idle", "lock", "resolve", "find", "existing", "update", "rename",
          "update2", "insert", "adopt", "suffix", "insert2", "link", "create",
          "raced", "record", "session", "done", "failed"}

LoginTypes ==
    /\ pc \in [Logins -> Stage]
    /\ got \in [Logins -> {"st", "ext"}]
    /\ wanted \in [Logins -> Nat]
    /\ candidate \in [Logins -> Nat]
    /\ record \in [Logins -> {"st", "ext"}]
    /\ clashed \in [Logins -> BOOLEAN]
    /\ faulted \in [Logins -> BOOLEAN]

ProcessTypes ==
    /\ mode \in Modes \cup {None}
    /\ holder \in [Players -> Logins \cup {None}]
    /\ jwt \in [Players -> BOOLEAN]
    /\ session \in [Players -> {None, "st", "ext"}]

LEMMA TypeParts == TypeOK <=> DbTypes /\ LoginTypes /\ ProcessTypes
BY Zenon DEF TypeOK, DbTypes, LoginTypes, ProcessTypes, Stage

LEMMA Assumptions ==
    /\ \A l \in Logins : Player[l] \in Players /\ Supplied[l] \in Nat
    /\ Chosen \subseteq Nat
    /\ None \notin Nat /\ None # "st" /\ None # "ext"
BY LoginAssumption, NoneAssumption

\* A step by the kind of what takes it.
LoginStep(l) == TryAgain(l) \/ PassportCallback(l) \/ SignInUp(l) \/ Proceed(l) \/ Fail(l)

LEMMA NextCases ==
    Next <=> \/ \E l \in Logins : LoginStep(l)
             \/ \E m \in Modes, e \in Environments, c \in Cores : Restart(m, e, c)
             \/ \E p \in Players : Logout(p) \/ \E name \in Chosen : SetUsername(p, name)
BY DEF Next, LoginStep

LEMMA TypeInit == Init => TypeOK
<1> SUFFICES ASSUME Init PROVE TypeOK
  OBVIOUS
<1>1. username \in [Players -> Nat \cup {None}]
  BY Assumptions DEF Init
<1>2. chosen \in [Players -> Nat \cup {None}]
  BY <1>1 DEF Init
<1>3. DbTypes
  BY <1>1, <1>2 DEF Init, DbTypes
<1>4. LoginTypes
  BY DEF Init, LoginTypes, Stage
<1>5. ProcessTypes
  BY DEF Init, ProcessTypes
<1>. QED
  BY <1>3, <1>4, <1>5, TypeParts

\* Who a login step writes: the player's own row, identity and mapping.
LEMMA DbTypesStep ==
    ASSUME DbTypes, LoginTypes, Next PROVE DbTypes'
<1>1. CASE UNCHANGED <<dbVars, mapped, chosen>>
  BY <1>1 DEF DbTypes, dbVars
<1>2. ASSUME NEW l \in Logins, UpdateUser(l) \/ Retry(l) PROVE DbTypes'
  <2>1. \/ username' = username
        \/ username' = [username EXCEPT ![Player[l]] = wanted[l]]
        \/ username' = [username EXCEPT ![Player[l]] = candidate[l]]
    BY <1>2 DEF UpdateUser, Retry
  <2>2. identity' = identity \/ identity' = [identity EXCEPT ![Player[l]] = IF pc[l] = "insert2" THEN "null" ELSE @]
    BY <1>2 DEF UpdateUser, Retry
  <2>3. username' \in [Players -> Nat \cup {None}]
    BY <2>1, Assumptions DEF DbTypes, LoginTypes
  <2>4. identity' \in [Players -> {"absent", "null", "st", "ext"}]
    BY <2>2, Assumptions DEF DbTypes
  <2>5. UNCHANGED <<custom, mapped, chosen>>
    BY <1>2 DEF UpdateUser, Retry
  <2>. QED
    BY <2>3, <2>4, <2>5 DEF DbTypes
<1>3. ASSUME NEW l \in Logins, InsertUserAndIdentity(l) PROVE DbTypes'
  BY <1>3, Assumptions DEF DbTypes, LoginTypes, InsertUserAndIdentity
<1>4. ASSUME NEW l \in Logins, AdoptWinner(l) PROVE DbTypes'
  BY <1>4, Assumptions DEF DbTypes, LoginTypes, AdoptWinner
<1>5. ASSUME NEW l \in Logins, CreateUserIdMapping(l) PROVE DbTypes'
  BY <1>5, Assumptions DEF DbTypes, CreateUserIdMapping, dbVars
<1>6. ASSUME NEW l \in Logins, SetSupertokensUserId(l) PROVE DbTypes'
  BY <1>6, Assumptions DEF DbTypes, LoginTypes, SetSupertokensUserId
<1>7. ASSUME NEW p \in Players, NEW name \in Chosen, SetUsername(p, name) PROVE DbTypes'
  BY <1>7, Assumptions DEF DbTypes, SetUsername
<1>. QED
  BY <1>1, <1>2, <1>3, <1>4, <1>5, <1>6, <1>7 DEF Next, Proceed, TryAgain, PassportCallback, SignInUp,
     WithUserLock, ResolveExternalUserId, FindIdentity, ReadExisting, FindAvailableUsername,
     GetUserIdMapping, Raced, CreateSession, Fail, Restart, Logout

LEMMA LoginTypesStep ==
    ASSUME DbTypes, LoginTypes, PlayerInv, LoginInv, Next PROVE LoginTypes'
<1> USE Assumptions DEF LoginTypes, Stage, Goto, Upserted, Release, dbVars, loginVars, browserVars
<1>1. ASSUME NEW l \in Logins, TryAgain(l) \/ PassportCallback(l) \/ SignInUp(l) PROVE LoginTypes'
  BY <1>1 DEF TryAgain, PassportCallback, SignInUp
<1>2. ASSUME NEW l \in Logins, WithUserLock(l) \/ FindIdentity(l) PROVE LoginTypes'
  BY <1>2 DEF WithUserLock, FindIdentity
<1>3. ASSUME NEW l \in Logins, ResolveExternalUserId(l) PROVE LoginTypes'
  BY <1>3 DEF ResolveExternalUserId
<1>4. ASSUME NEW l \in Logins, ReadExisting(l) PROVE LoginTypes'
  <2>1. username[Player[l]] \in Nat
    BY <1>4 DEF ReadExisting, PlayerInv, PlayerOk, LoginInv, LoginOk, Known, DbTypes
  <2>. QED
    BY <1>4, <2>1 DEF ReadExisting
<1>5. ASSUME NEW l \in Logins, UpdateUser(l) PROVE LoginTypes'
  BY <1>5 DEF UpdateUser
<1>6. ASSUME NEW l \in Logins, InsertUserAndIdentity(l) PROVE LoginTypes'
  BY <1>6, ZenonT(60) DEF InsertUserAndIdentity
<1>7. ASSUME NEW l \in Logins, AdoptWinner(l) PROVE LoginTypes'
  BY <1>7 DEF AdoptWinner
<1>8. ASSUME NEW l \in Logins, FindAvailableUsername(l) PROVE LoginTypes'
  <2>1. (IF candidate[l] = wanted[l] THEN Suffixed(wanted[l], 2) ELSE candidate[l] + 1) \in Nat
    BY DEF Suffixed
  <2>. QED
    BY <1>8, <2>1 DEF FindAvailableUsername
<1>9. ASSUME NEW l \in Logins, Retry(l) PROVE LoginTypes'
  BY <1>9 DEF Retry
<1>10. ASSUME NEW l \in Logins, GetUserIdMapping(l) PROVE LoginTypes'
  BY <1>10 DEF GetUserIdMapping
<1>11. ASSUME NEW l \in Logins, CreateUserIdMapping(l) PROVE LoginTypes'
  BY <1>11 DEF CreateUserIdMapping
<1>12. ASSUME NEW l \in Logins, Raced(l) \/ SetSupertokensUserId(l) \/ CreateSession(l) PROVE LoginTypes'
  BY <1>12 DEF Raced, SetSupertokensUserId, CreateSession
<1>13. ASSUME NEW l \in Logins, Fail(l) PROVE LoginTypes'
  BY <1>13 DEF Fail
<1>14. ASSUME NEW m \in Modes, NEW e \in Environments, NEW c \in Cores, Restart(m, e, c) PROVE LoginTypes'
  <2>1. faulted' \in [Logins -> BOOLEAN]
    BY <1>14, Zenon DEF Restart
  <2>. QED
    BY <1>14, <2>1 DEF Restart
<1>15. ASSUME NEW p \in Players, Logout(p) \/ \E name \in Chosen : SetUsername(p, name) PROVE LoginTypes'
  BY <1>15 DEF Logout, SetUsername
<1>. QED
  BY <1>1, <1>2, <1>3, <1>4, <1>5, <1>6, <1>7, <1>8, <1>9, <1>10, <1>11, <1>12, <1>13, <1>14, <1>15
     DEF Next, Proceed

LEMMA UpsertedTypes ==
    ASSUME ProcessTypes, NEW l \in Logins, Upserted(l)
    PROVE  jwt' \in [Players -> BOOLEAN] /\ holder' \in [Players -> Logins \cup {None}]
BY DEF Upserted, Release, ProcessTypes

LEMMA ProcessTypesStep ==
    ASSUME ProcessTypes, DbTypes, LoginTypes, Next PROVE ProcessTypes'
<1> USE Assumptions DEF ProcessTypes, Release, dbVars, loginVars, browserVars
<1>1. ASSUME NEW l \in Logins, TryAgain(l) \/ PassportCallback(l) \/ SignInUp(l) \/ FindIdentity(l)
             \/ ReadExisting(l) \/ FindAvailableUsername(l) \/ GetUserIdMapping(l)
             \/ CreateUserIdMapping(l) \/ Raced(l) \/ SetSupertokensUserId(l)
      PROVE  ProcessTypes'
  BY <1>1 DEF TryAgain, PassportCallback, SignInUp, FindIdentity, ReadExisting, FindAvailableUsername,
     GetUserIdMapping, CreateUserIdMapping, Raced, SetSupertokensUserId
<1>2. ASSUME NEW l \in Logins, WithUserLock(l) \/ ResolveExternalUserId(l) \/ Fail(l) PROVE ProcessTypes'
  BY <1>2 DEF WithUserLock, ResolveExternalUserId, Fail
<1>3. ASSUME NEW l \in Logins, UpdateUser(l) \/ InsertUserAndIdentity(l) \/ AdoptWinner(l) \/ Retry(l)
      PROVE  ProcessTypes'
  <2>1. UNCHANGED <<mode, session>> /\ (UNCHANGED <<jwt, holder>> \/ Upserted(l) \/ (UNCHANGED jwt /\ Release(l)))
    BY <1>3 DEF UpdateUser, InsertUserAndIdentity, AdoptWinner, Retry
  <2>. QED
    BY <2>1, UpsertedTypes
<1>4. ASSUME NEW l \in Logins, CreateSession(l) PROVE ProcessTypes'
  BY <1>4 DEF CreateSession
<1>5. ASSUME NEW m \in Modes, NEW e \in Environments, NEW c \in Cores, Restart(m, e, c) PROVE ProcessTypes'
  <2>1. mode' \in Modes \cup {None}
    BY <1>5, Zenon DEF Restart
  <2>. QED
    BY <1>5, <2>1 DEF Restart
<1>6. ASSUME NEW p \in Players, Logout(p) \/ \E name \in Chosen : SetUsername(p, name) PROVE ProcessTypes'
  BY <1>6 DEF Logout, SetUsername
<1>. QED
  BY <1>1, <1>2, <1>3, <1>4, <1>5, <1>6 DEF Next, Proceed

LEMMA TypeStep == TypeOK /\ PlayerInv /\ LoginInv /\ Next => TypeOK'
BY TypeParts, DbTypesStep, LoginTypesStep, ProcessTypesStep, Zenon
   DEF TypeOK, DbTypes, LoginTypes, ProcessTypes, Stage

(***************************************************************************)
(* The players.                                                            *)
(***************************************************************************)

\* What the writes of a player's row, identity and mapping leave to others.
OthersOf(p) ==
    \A q \in Players \ {p} :
        /\ username'[q] = username[q] /\ custom'[q] = custom[q] /\ identity'[q] = identity[q]
        /\ mapped'[q] = mapped[q] /\ chosen'[q] = chosen[q]
        /\ jwt'[q] = jwt[q] /\ session'[q] = session[q]

\* A name is written only when it is nobody else's.
NameWrite(p) ==
    \/ username' = username
    \/ \E n \in Nat : ~ TakenByOther(n, p) /\ username' = [username EXCEPT ![p] = n]

LEMMA NamesStayApart ==
    ASSUME DbTypes, \A q \in Players : OwnName(q), NEW p \in Players, NameWrite(p), NEW q \in Players
    PROVE  OwnName(q)'
BY Assumptions DEF NameWrite, OwnName, TakenByOther, DbTypes

LEMMA LoginStepFrame ==
    ASSUME TypeOK, NEW l \in Logins, LoginStep(l)
    PROVE  OthersOf(Player[l]) /\ UNCHANGED <<custom, chosen>>
<1>T. DbTypes /\ LoginTypes /\ ProcessTypes
  BY TypeParts
<1> USE <1>T, Assumptions DEF DbTypes, ProcessTypes, OthersOf, Upserted, Release, Goto, dbVars, loginVars, browserVars
<1>1. CASE TryAgain(l) \/ PassportCallback(l) \/ SignInUp(l) \/ WithUserLock(l) \/ ResolveExternalUserId(l)
           \/ FindIdentity(l) \/ ReadExisting(l) \/ FindAvailableUsername(l) \/ GetUserIdMapping(l)
           \/ Raced(l) \/ Fail(l)
  BY <1>1 DEF TryAgain, PassportCallback, SignInUp, WithUserLock, ResolveExternalUserId, FindIdentity,
     ReadExisting, FindAvailableUsername, GetUserIdMapping, Raced, Fail
<1>2. CASE UpdateUser(l)
  BY <1>2 DEF UpdateUser
<1>3. CASE InsertUserAndIdentity(l)
  BY <1>3 DEF InsertUserAndIdentity
<1>4. CASE AdoptWinner(l)
  BY <1>4 DEF AdoptWinner
<1>5. CASE Retry(l)
  BY <1>5 DEF Retry
<1>6. CASE CreateUserIdMapping(l) \/ SetSupertokensUserId(l) \/ CreateSession(l)
  BY <1>6 DEF CreateUserIdMapping, SetSupertokensUserId, CreateSession
<1>. QED
  BY <1>1, <1>2, <1>3, <1>4, <1>5, <1>6 DEF LoginStep, Proceed

\* A login's writes of its player's row.
LEMMA LoginPlayerStep ==
    ASSUME TypeOK, PlayerInv, LoginInv, NEW l \in Logins, LoginStep(l)
    PROVE  PlayerOk(Player[l])' /\ NameWrite(Player[l])
<1> DEFINE p == Player[l]
<1>T. DbTypes /\ LoginTypes /\ ProcessTypes
  BY TypeParts
<1>P. p \in Players /\ PlayerOk(p) /\ OwnName(p) /\ LoginOk(l)
  BY Assumptions DEF PlayerInv, LoginInv
<1> USE Assumptions DEF DbTypes, LoginTypes, ProcessTypes, NameWrite
<1>1. CASE UNCHANGED <<dbVars, mapped, chosen, browserVars>>
  BY <1>1, <1>P DEF PlayerOk, dbVars, browserVars
<1>U. ASSUME Upserted(l) \/ UNCHANGED jwt, identity'[p] # "absent" PROVE jwt'[p] => identity'[p] # "absent"
  BY <1>U
<1>2. CASE UpdateUser(l)
  <2>1. UNCHANGED <<custom, identity, mapped, session, chosen>> /\ identity[p] # "absent" /\ pc[l] = "update"
    BY <1>2, <1>P DEF UpdateUser, LoginOk, Known
  <2>2. chosen[p] # None => wanted[l] = username[p]
    BY <2>1, <1>P DEF LoginOk
  <2>3. \/ username' = username
        \/ ~ TakenByOther(wanted[l], p) /\ username' = [username EXCEPT ![p] = wanted[l]]
    BY <1>2 DEF UpdateUser
  <2>. QED
    BY <2>1, <2>2, <2>3, <1>P, <1>T DEF PlayerOk
<1>3. CASE InsertUserAndIdentity(l)
  <2>1. UNCHANGED <<custom, mapped, session, chosen>>
    BY <1>3 DEF InsertUserAndIdentity
  <2>2. \/ UNCHANGED <<username, identity, jwt>>
        \/ /\ username[p] = None /\ ~ TakenByOther(wanted[l], p)
           /\ username' = [username EXCEPT ![p] = wanted[l]]
           /\ identity' = [identity EXCEPT ![p] = "null"]
    BY <1>3 DEF InsertUserAndIdentity
  <2>. QED
    BY <2>1, <2>2, <1>P, <1>T DEF PlayerOk
<1>4. CASE AdoptWinner(l)
  <2>1. UNCHANGED <<username, custom, mapped, session, chosen>> /\ username[p] # None
    BY <1>4, <1>P DEF AdoptWinner, LoginOk
  <2>2. identity'[p] = IF identity[p] = "absent" THEN "null" ELSE identity[p]
    BY <1>4, <1>P, <1>T DEF AdoptWinner
  <2>. QED
    BY <2>1, <2>2, <1>P, <1>T DEF PlayerOk
<1>5. CASE Retry(l)
  <2>1. UNCHANGED <<custom, mapped, session, chosen>>
    BY <1>5 DEF Retry
  <2>2. CASE UNCHANGED <<username, identity, jwt>>
    BY <2>1, <2>2, <1>P DEF PlayerOk
  <2>3. CASE /\ pc[l] = "update2" /\ ~ TakenByOther(candidate[l], p)
             /\ username' = [username EXCEPT ![p] = candidate[l]] /\ identity'[p] = identity[p]
    BY <2>1, <2>3, <1>P, <1>T, ZenonT(60) DEF PlayerOk, LoginOk, Known
  <2>4. CASE /\ pc[l] = "insert2" /\ ~ TakenByOther(candidate[l], p) /\ username[p] = None
             /\ username' = [username EXCEPT ![p] = candidate[l]] /\ identity'[p] = "null"
    BY <2>1, <2>4, <1>P, <1>T DEF PlayerOk
  <2>. QED
    BY <1>5, <2>2, <2>3, <2>4, <1>P, <1>T DEF Retry
<1>6. CASE CreateUserIdMapping(l)
  BY <1>6, <1>P, <1>T DEF CreateUserIdMapping, PlayerOk, dbVars, browserVars
<1>7. CASE SetSupertokensUserId(l)
  <2>1. UNCHANGED <<username, custom, mapped, session, jwt, chosen>> /\ record[l] = "st" /\ mapped[p]
    BY <1>7, <1>P DEF SetSupertokensUserId, LoginOk, browserVars
  <2>2. identity'[p] = IF identity[p] = "absent" THEN identity[p] ELSE record[l]
    BY <1>7, <1>P, <1>T DEF SetSupertokensUserId
  <2>. QED
    BY <2>1, <2>2, <1>P, <1>T DEF PlayerOk
<1>8. CASE CreateSession(l)
  <2>1. UNCHANGED <<dbVars, mapped, jwt, chosen>> /\ mapped[p] /\ identity[p] # "absent"
    BY <1>8, <1>P DEF CreateSession, LoginOk, Known
  <2>2. session'[p] = "ext"
    BY <1>8, <2>1, <1>P, <1>T DEF CreateSession
  <2>. QED
    BY <2>1, <2>2, <1>P DEF PlayerOk, dbVars
<1>. QED
  BY <1>1, <1>2, <1>3, <1>4, <1>5, <1>6, <1>7, <1>8 DEF LoginStep, Proceed, TryAgain, PassportCallback,
     SignInUp, WithUserLock, ResolveExternalUserId, FindIdentity, ReadExisting, FindAvailableUsername,
     GetUserIdMapping, Raced, Fail

LEMMA PlayerStep == TypeOK /\ PlayerInv /\ LoginInv /\ Next => PlayerInv'
<1> SUFFICES ASSUME TypeOK, PlayerInv, LoginInv, Next, NEW q \in Players PROVE PlayerOk(q)' /\ OwnName(q)'
  BY DEF PlayerInv
<1>T. DbTypes /\ LoginTypes /\ ProcessTypes
  BY TypeParts
<1>P. \A r \in Players : PlayerOk(r) /\ OwnName(r)
  BY DEF PlayerInv
<1>1. ASSUME NEW l \in Logins, LoginStep(l) PROVE PlayerOk(q)' /\ OwnName(q)'
  <2>1. CASE q = Player[l]
    BY <1>1, <2>1, <1>T, <1>P, LoginPlayerStep, NamesStayApart
  <2>2. CASE q # Player[l]
    <3>1. OwnName(q)'
      BY <1>1, <1>T, <1>P, Assumptions, LoginPlayerStep, NamesStayApart
    <3>2. PlayerOk(q)'
      BY <1>1, <2>2, <1>P, LoginStepFrame DEF OthersOf, PlayerOk
    <3>. QED
      BY <3>1, <3>2
  <2>. QED
    BY <2>1, <2>2
<1>2. ASSUME NEW m \in Modes, NEW e \in Environments, NEW c \in Cores, Restart(m, e, c)
      PROVE  PlayerOk(q)' /\ OwnName(q)'
  BY <1>2, <1>P DEF Restart, PlayerOk, OwnName, TakenByOther, dbVars, browserVars
<1>3. ASSUME NEW p \in Players, Logout(p) PROVE PlayerOk(q)' /\ OwnName(q)'
  <2>1. UNCHANGED <<dbVars, mapped, chosen>>
    BY <1>3 DEF Logout
  <2>2. (jwt'[q] => jwt[q]) /\ session'[q] \in {session[q], None}
    BY <1>3, <1>T DEF Logout, ProcessTypes
  <2>. QED
    BY <2>1, <2>2, <1>P DEF PlayerOk, OwnName, TakenByOther, dbVars
<1>4. ASSUME NEW p \in Players, NEW name \in Chosen, SetUsername(p, name) PROVE PlayerOk(q)' /\ OwnName(q)'
  <2>1. NameWrite(p)
    BY <1>4, Assumptions DEF NameWrite, SetUsername
  <2>2. UNCHANGED <<identity, mapped, jwt, session>>
    BY <1>4 DEF SetUsername, browserVars
  <2>3. IF q = p THEN username'[q] = name /\ custom'[q] /\ chosen'[q] \in {None, name}
        ELSE username'[q] = username[q] /\ custom'[q] = custom[q] /\ chosen'[q] = chosen[q]
    BY <1>4, <1>T DEF SetUsername, DbTypes
  <2>4. PlayerOk(q)'
    BY <2>2, <2>3, <1>P, Assumptions DEF PlayerOk
  <2>. QED
    BY <2>1, <2>4, <1>T, <1>P, NamesStayApart
<1>. QED
  BY <1>1, <1>2, <1>3, <1>4, NextCases

(***************************************************************************)
(* The logins.                                                             *)
(***************************************************************************)

\* No step takes a row, an identity or a mapping away.
Grown(p) ==
    /\ identity[p] # "absent" => identity'[p] # "absent"
    /\ username[p] # None => username'[p] # None
    /\ mapped[p] => mapped'[p]

LEMMA PlayersGrow ==
    ASSUME TypeOK, Next, NEW p \in Players PROVE Grown(p)
<1>T. DbTypes /\ LoginTypes
  BY TypeParts
<1> USE <1>T, Assumptions DEF Grown, DbTypes, LoginTypes
<1>1. CASE UNCHANGED <<dbVars, mapped>>
  BY <1>1 DEF dbVars
<1>2. ASSUME NEW l \in Logins, UpdateUser(l) \/ InsertUserAndIdentity(l) \/ Retry(l) PROVE Grown(p)
  <2>1. \/ username' = username
        \/ \E n \in Nat : username' = [username EXCEPT ![Player[l]] = n]
    BY <1>2 DEF UpdateUser, InsertUserAndIdentity, Retry
  <2>2. identity' = identity \/ identity'[p] \in {identity[p], "null"}
    BY <1>2 DEF UpdateUser, InsertUserAndIdentity, Retry
  <2>3. mapped' = mapped
    BY <1>2 DEF UpdateUser, InsertUserAndIdentity, Retry
  <2>. QED
    BY <2>1, <2>2, <2>3
<1>3. ASSUME NEW l \in Logins, AdoptWinner(l) \/ CreateUserIdMapping(l) \/ SetSupertokensUserId(l) PROVE Grown(p)
  BY <1>3 DEF AdoptWinner, CreateUserIdMapping, SetSupertokensUserId, dbVars
<1>4. ASSUME NEW r \in Players, NEW name \in Chosen, SetUsername(r, name) PROVE Grown(p)
  BY <1>4 DEF SetUsername
<1>. QED
  BY <1>1, <1>2, <1>3, <1>4 DEF Next, Proceed, TryAgain, PassportCallback, SignInUp, WithUserLock,
     ResolveExternalUserId, FindIdentity, ReadExisting, FindAvailableUsername, GetUserIdMapping, Raced,
     CreateSession, Fail, Restart, Logout

KeptLogin(l) ==
    /\ pc'[l] = pc[l] /\ got'[l] = got[l] /\ wanted'[l] = wanted[l] /\ record'[l] = record[l]
    /\ clashed'[l] = clashed[l] /\ faulted'[l] = faulted[l]

LEMMA OtherLoginsKept ==
    ASSUME TypeOK, NEW l \in Logins, LoginStep(l), NEW k \in Logins, k # l PROVE KeptLogin(k)
<1>T. LoginTypes
  BY TypeParts
<1> USE <1>T DEF LoginTypes, KeptLogin, Goto, Upserted, Release, loginVars
<1>1. CASE TryAgain(l) \/ PassportCallback(l) \/ SignInUp(l) \/ WithUserLock(l) \/ Fail(l)
  BY <1>1 DEF TryAgain, PassportCallback, SignInUp, WithUserLock, Fail
<1>2. CASE ResolveExternalUserId(l) \/ FindIdentity(l) \/ ReadExisting(l)
  BY <1>2 DEF ResolveExternalUserId, FindIdentity, ReadExisting
<1>3. CASE UpdateUser(l)
  BY <1>3 DEF UpdateUser
<1>4. CASE InsertUserAndIdentity(l)
  BY <1>4 DEF InsertUserAndIdentity
<1>5. CASE AdoptWinner(l) \/ FindAvailableUsername(l)
  BY <1>5 DEF AdoptWinner, FindAvailableUsername
<1>6. CASE Retry(l)
  BY <1>6 DEF Retry
<1>7. CASE GetUserIdMapping(l) \/ CreateUserIdMapping(l) \/ Raced(l) \/ SetSupertokensUserId(l) \/ CreateSession(l)
  BY <1>7 DEF GetUserIdMapping, CreateUserIdMapping, Raced, SetSupertokensUserId, CreateSession
<1>. QED
  BY <1>1, <1>2, <1>3, <1>4, <1>5, <1>6, <1>7 DEF LoginStep, Proceed

\* A login that stays where it is, while names are changed by others.
LEMMA KeptLoginOk ==
    ASSUME NEW k \in Logins, LoginOk(k), KeptLogin(k), Grown(Player[k]),
           PlayerOk(Player[k]), PlayerOk(Player[k])', chosen'[Player[k]] = chosen[Player[k]]
    PROVE  LoginOk(k)'
BY DEF LoginOk, KeptLogin, Grown, PlayerOk, Known, Renaming

\* The login that takes the step.
LEMMA OwnLoginStep ==
    ASSUME TypeOK, PlayerInv, LoginInv, PlayerInv', Next, NEW l \in Logins, LoginStep(l) PROVE LoginOk(l)'
<1> DEFINE p == Player[l]
<1>T. DbTypes /\ LoginTypes /\ ProcessTypes
  BY TypeParts
<1>P. p \in Players /\ PlayerOk(p) /\ OwnName(p) /\ LoginOk(l) /\ PlayerOk(p)' /\ Grown(p)
  BY Assumptions, PlayersGrow DEF PlayerInv, LoginInv
<1>F. UNCHANGED <<custom, chosen>>
  BY LoginStepFrame
<1> USE <1>T, <1>P, <1>F DEF LoginTypes, Goto, Known, Renaming, Grown, dbVars, loginVars, browserVars
<1>1. CASE TryAgain(l) \/ PassportCallback(l) \/ WithUserLock(l) \/ FindIdentity(l)
  BY <1>1 DEF TryAgain, PassportCallback, WithUserLock, FindIdentity, LoginOk
<1>2. CASE SignInUp(l)
  BY <1>2 DEF SignInUp, LoginOk
<1>3. CASE ResolveExternalUserId(l)
  BY <1>3 DEF ResolveExternalUserId, LoginOk
<1>4. CASE ReadExisting(l)
  <2>1. chosen[p] # None => wanted'[l] = username[p]
    BY <1>4 DEF ReadExisting, PlayerOk
  <2>2. UNCHANGED <<username, identity, mapped, got, record, clashed, faulted>> /\ pc[l] = "existing" /\ pc'[l] = "update"
    BY <1>4 DEF ReadExisting
  <2>. QED
    BY <2>1, <2>2 DEF LoginOk
<1>5. CASE UpdateUser(l)
  <2>1. UNCHANGED <<mapped, got, record, faulted>> /\ pc[l] = "update" /\ identity' = identity
    BY <1>5 DEF UpdateUser
  <2>2. CASE TakenByOther(wanted[l], p)
    <3>1. chosen[p] = None
      BY <2>1, <2>2, Assumptions DEF LoginOk, PlayerOk, OwnName
    <3>2. pc'[l] = "rename" /\ clashed'[l]
      BY <1>5, <2>2 DEF UpdateUser
    <3>. QED
      BY <2>1, <3>1, <3>2 DEF LoginOk
  <2>3. CASE ~ TakenByOther(wanted[l], p)
    <3>1. pc'[l] \in {"link", "done"}
      BY <1>5, <2>3 DEF UpdateUser, Upserted
    <3>. QED
      BY <2>1, <3>1 DEF LoginOk
  <2>. QED
    BY <2>2, <2>3
<1>6. CASE InsertUserAndIdentity(l)
  <2>1. UNCHANGED <<mapped, got, record, faulted>>
    BY <1>6 DEF InsertUserAndIdentity
  <2>2. \/ pc'[l] = "adopt" /\ username[p] # None
        \/ pc'[l] = "suffix" /\ clashed'[l]
        \/ pc'[l] \in {"link", "done"} /\ identity'[p] = "null"
    BY <1>6, Assumptions DEF InsertUserAndIdentity, Upserted, DbTypes
  <2>. QED
    BY <2>1, <2>2 DEF LoginOk
<1>7. CASE AdoptWinner(l)
  <2>1. UNCHANGED <<mapped, got, record, faulted>> /\ pc'[l] \in {"link", "done"}
    BY <1>7 DEF AdoptWinner, Upserted
  <2>2. identity'[p] # "absent"
    BY <1>7, Assumptions DEF AdoptWinner, DbTypes
  <2>. QED
    BY <2>1, <2>2 DEF LoginOk
<1>8. CASE FindAvailableUsername(l)
  <2>1. UNCHANGED <<dbVars, mapped, got, record, wanted, clashed, faulted>> /\ pc[l] \in {"rename", "suffix"}
    BY <1>8 DEF FindAvailableUsername
  <2>2. pc'[l] \in {pc[l], IF pc[l] = "rename" THEN "update2" ELSE "insert2"}
    BY <1>8 DEF FindAvailableUsername
  <2>. QED
    BY <2>1, <2>2 DEF LoginOk
<1>9. CASE Retry(l)
  <2>1. UNCHANGED <<mapped, got, record, clashed, faulted>> /\ pc[l] \in {"update2", "insert2"}
    BY <1>9 DEF Retry
  <2>2. \/ pc'[l] = "failed"
        \/ pc'[l] \in {"link", "done"} /\ identity'[p] # "absent"
    BY <1>9, Assumptions DEF Retry, Upserted, DbTypes, LoginOk
  <2>. QED
    BY <2>1, <2>2 DEF LoginOk
<1>10. CASE GetUserIdMapping(l)
  <2>1. UNCHANGED <<dbVars, mapped, got, clashed, faulted>> /\ pc[l] = "link"
    BY <1>10 DEF GetUserIdMapping
  <2>2. record'[l] = "st"
    BY <1>10 DEF GetUserIdMapping, LoginOk
  <2>3. IF mapped[p] THEN pc'[l] = "record" ELSE pc'[l] = "create"
    BY <1>10 DEF GetUserIdMapping
  <2>. QED
    BY <2>1, <2>2, <2>3 DEF LoginOk
<1>11. CASE CreateUserIdMapping(l)
  <2>1. UNCHANGED <<dbVars, got, record, clashed, faulted>> /\ pc[l] = "create" /\ pc'[l] \in {"raced", "record"}
    BY <1>11 DEF CreateUserIdMapping
  <2>2. mapped'[p]
    BY <1>11 DEF CreateUserIdMapping, DbTypes
  <2>. QED
    BY <2>1, <2>2 DEF LoginOk
<1>12. CASE Raced(l) \/ SetSupertokensUserId(l) \/ CreateSession(l)
  BY <1>12 DEF Raced, SetSupertokensUserId, CreateSession, LoginOk
<1>13. CASE Fail(l)
  BY <1>13 DEF Fail, LoginOk
<1>. QED
  BY <1>1, <1>2, <1>3, <1>4, <1>5, <1>6, <1>7, <1>8, <1>9, <1>10, <1>11, <1>12, <1>13 DEF LoginStep, Proceed

LEMMA LoginInvStep == TypeOK /\ PlayerInv /\ LoginInv /\ Next => LoginInv'
<1> SUFFICES ASSUME TypeOK, PlayerInv, LoginInv, Next, NEW k \in Logins PROVE LoginOk(k)'
  BY DEF LoginInv
<1>T. DbTypes /\ LoginTypes /\ ProcessTypes
  BY TypeParts
<1>P. PlayerInv'
  BY PlayerStep
<1>K. Player[k] \in Players /\ PlayerOk(Player[k]) /\ PlayerOk(Player[k])' /\ Grown(Player[k]) /\ LoginOk(k)
  BY <1>P, Assumptions, PlayersGrow DEF PlayerInv, LoginInv
<1>1. ASSUME NEW l \in Logins, LoginStep(l) PROVE LoginOk(k)'
  <2>1. CASE k = l
    BY <1>1, <1>P, <2>1, OwnLoginStep
  <2>2. CASE k # l
    BY <1>1, <1>K, <2>2, OtherLoginsKept, LoginStepFrame, KeptLoginOk
  <2>. QED
    BY <2>1, <2>2
<1>2. ASSUME NEW m \in Modes, NEW e \in Environments, NEW c \in Cores, Restart(m, e, c) PROVE LoginOk(k)'
  <2>1. UNCHANGED <<dbVars, mapped, chosen, got, wanted, record, clashed>>
    BY <1>2 DEF Restart, loginVars
  <2>2. CASE InFlight(k)
    <3>1. pc'[k] = "failed" /\ faulted'[k]
      BY <1>2, <2>2, Zenon DEF Restart
    <3>. QED
      BY <2>1, <3>1, <1>K DEF LoginOk, Known, Renaming
  <2>3. CASE ~ InFlight(k)
    <3>1. pc'[k] = pc[k] /\ (faulted[k] => faulted'[k])
      BY <1>2, <2>3, Zenon DEF Restart
    <3>. QED
      BY <2>1, <3>1, <1>K DEF LoginOk, Known, Renaming, dbVars
  <2>. QED
    BY <2>2, <2>3
<1>3. ASSUME NEW p \in Players, Logout(p) PROVE LoginOk(k)'
  BY <1>3, <1>K, KeptLoginOk DEF Logout, KeptLogin, loginVars
<1>4. ASSUME NEW p \in Players, NEW name \in Chosen, SetUsername(p, name) PROVE LoginOk(k)'
  <2>1. KeptLogin(k)
    BY <1>4 DEF SetUsername, KeptLogin, loginVars
  <2>2. CASE Player[k] # p
    BY <1>4, <1>T, <1>K, <2>1, <2>2, KeptLoginOk DEF SetUsername, DbTypes
  <2>3. CASE Player[k] = p /\ ~ Reading(p)
    <3>1. pc[k] \notin {"update", "rename", "update2"}
      BY <2>3 DEF Reading
    <3>. QED
      BY <2>1, <3>1, <1>K DEF LoginOk, KeptLogin, Grown, Known, Renaming
  <2>4. CASE Player[k] = p /\ Reading(p)
    <3>1. chosen'[p] = None
      BY <1>4, <1>T, <2>4 DEF SetUsername, DbTypes
    <3>. QED
      BY <2>1, <2>4, <3>1, <1>K DEF LoginOk, KeptLogin, Grown, Known, Renaming
  <2>. QED
    BY <2>2, <2>3, <2>4
<1>. QED
  BY <1>1, <1>2, <1>3, <1>4, NextCases

(***************************************************************************)
(* The theorems.                                                           *)
(***************************************************************************)

Inv == TypeOK /\ PlayerInv /\ LoginInv

LEMMA InvInit == Init => Inv
<1> SUFFICES ASSUME Init PROVE Inv
  OBVIOUS
<1>1. PlayerInv
  <2> SUFFICES ASSUME NEW p \in Players PROVE PlayerOk(p) /\ OwnName(p)
    BY DEF PlayerInv
  <2>1. OwnName(p)
    BY DEF Init, OwnName, TakenByOther
  <2>2. identity[p] \in {"absent", "null"} /\ session[p] = None /\ ~ jwt[p]
    BY DEF Init
  <2>3. identity[p] # "absent" => username[p] # None
    BY DEF Init
  <2>4. chosen[p] # None => custom[p] /\ username[p] = chosen[p]
    BY DEF Init
  <2>. QED
    BY <2>1, <2>2, <2>3, <2>4 DEF PlayerOk
<1>2. LoginInv
  BY Assumptions DEF Init, LoginInv, LoginOk, Known, Renaming
<1>. QED
  BY <1>1, <1>2, TypeInit DEF Inv

LEMMA InvStep == Inv /\ [Next]_vars => Inv'
<1>1. CASE Next
  BY <1>1, TypeStep, PlayerStep, LoginInvStep DEF Inv
<1>2. CASE UNCHANGED vars
  <2>. SUFFICES ASSUME Inv, UNCHANGED vars PROVE Inv'
    BY <1>2
  <2>. USE DEF Inv, vars, dbVars, loginVars, browserVars
  <2>1. TypeOK'
    BY DEF TypeOK
  <2>2. PlayerInv'
    BY DEF PlayerInv, PlayerOk, OwnName, TakenByOther
  <2>3. LoginInv'
    BY DEF LoginInv, LoginOk, Known, Renaming
  <2>. QED
    BY <2>1, <2>2, <2>3
<1>. QED
  BY <1>1, <1>2

\* Every variable keeps its type.
THEOREM TypeCorrect == Spec => []TypeOK
<1>1. Inv => TypeOK
  BY DEF Inv
<1>. QED
  BY <1>1, InvInit, InvStep, PTL DEF Spec

\* A credential that this process can read opens the player's own save, and
\* the identity behind it is one the next login finds.
THEOREM CredentialsOpenTheSave == Spec => []SessionOpensTheSave
<1>1. Inv => SessionOpensTheSave
  <2> SUFFICES ASSUME Inv, NEW p \in Players, jwt[p] \/ (session[p] # None /\ IsSuperTokensEnabled(mode))
               PROVE  RequireAuth(p) = "ext" /\ username[p] # None /\ IdentityFinds(p)
    BY DEF SessionOpensTheSave
  <2>1. PlayerOk(p)
    BY DEF Inv, PlayerInv
  <2>2. username[p] # None /\ IdentityFinds(p)
    BY <2>1 DEF PlayerOk, IdentityFinds
  <2>3. RequireAuth(p) = "ext"
    BY <2>1, <2>2, Assumptions DEF RequireAuth, UserFromSuperTokens, PlayerOk
  <2>. QED
    BY <2>2, <2>3
<1>. QED
  BY <1>1, InvInit, InvStep, PTL DEF Spec

\* A login fails because a call failed or its name was another player's,
\* never because the player was logging in twice at once.
THEOREM RacesFailNobody == Spec => []RaceFailsNobody
<1>1. Inv => RaceFailsNobody
  BY DEF Inv, LoginInv, LoginOk, RaceFailsNobody
<1>. QED
  BY <1>1, InvInit, InvStep, PTL DEF Spec

\* A chosen username survives every login that had not read the row before.
THEOREM ChosenNamesStay == Spec => []ChosenNameKept
<1>1. Inv => ChosenNameKept
  BY DEF Inv, PlayerInv, PlayerOk, ChosenNameKept
<1>. QED
  BY <1>1, InvInit, InvStep, PTL DEF Spec

-----------------------------------------------------------------------------
(***************************************************************************)
(* The gates before AUTH_MODE=dual (Cutover).  What the preflight has      *)
(* learnt so far: of each check that did not fail, the fact about the      *)
(* deployment that the boot will ask for again.                            *)
(***************************************************************************)

Mid == {"reachable", "anonymous", "protocol", "key", "database"}
AfterReachable == {"anonymous", "protocol", "key", "database", "done"}
AfterAnonymous == {"protocol", "key", "database", "done"}
AfterProtocol == {"key", "database", "done"}
AfterKey == {"database", "done"}

\* The core answered, and none of the checks that need it was cut short.
Reached == check["uri"] # "FAIL" /\ check["reachable"] # "FAIL"

\* The environment's own checks.
EnvironmentKnown ==
    check["uri"] # "FAIL" =>
        /\ "SUPERTOKENS_CONNECTION_URI" \in given
        /\ check["origin"] # "FAIL" => ResolvePublicOrigin(given)
        /\ check["providers"] # "FAIL" => BuildProviders(given) # {}

ReachableKnown == at \in AfterReachable /\ Reached => core.health = "up"

AnonymousKnown ==
    at \in AfterAnonymous /\ Reached /\ check["anonymous"] # "FAIL" =>
        ProbeAuthedEndpoint(core, None) # 200

ProtocolKnown ==
    at \in AfterProtocol /\ Reached =>
        /\ check["protocol"] # "FAIL" => Offered(core) = {} \/ Offered(core) \cap CdiSupported # {}
        /\ check["protocol"] \notin {"FAIL", "WARN"} => Offered(core) \cap CdiSupported # {}

KeyKnown ==
    at \in AfterKey /\ Reached =>
        /\ check["key"] # "FAIL" => "SUPERTOKENS_API_KEY" \in given \/ IsLoopback(given)
        /\ check["key"] \notin {"FAIL", "WARN"} => ProbeAuthedEndpoint(core, ApiKey(given)) = 200

PreflightTypes ==
    /\ at \in Mid \cup {"idle", "done"}
    /\ check \in [Checks -> {"none", "PASS", "WARN", "FAIL"}]
    /\ valid \in BOOLEAN
    /\ at \in Mid => check["uri"] = "PASS"
    /\ at \in AfterReachable \ {"done"} => check["reachable"] = "PASS"

\* While valid, what the checks found still describes the deployment.
PreflightInv ==
    /\ PreflightTypes
    /\ valid => /\ env = given
                /\ at # "idle"
                /\ EnvironmentKnown /\ ReachableKnown /\ AnonymousKnown /\ ProtocolKnown /\ KeyKnown


\* A check answers with one of its results, and for a reason of its own only
\* when the core is down.
LEMMA RequestResult ==
    ASSUME PreflightTypes, NEW name \in Mid \ {"database"}, NEW next \in AfterReachable,
           NEW status \in {"PASS", "WARN", "FAIL"}, NEW onThrow \in {"WARN", "FAIL"},
           Request(name, status, onThrow, next)
    PROVE  /\ at = name
           /\ check' \in [Checks -> {"none", "PASS", "WARN", "FAIL"}]
           /\ \A c \in Checks \ {name} : check'[c] = check[c]
           /\ check'[name] \in {status, onThrow}
           /\ valid' \in BOOLEAN /\ (valid' => valid)
           /\ valid' /\ core.health # "down" => check'[name] = status
           /\ check'[name] # onThrow => core.health # "down"
           /\ at' = IF check'["reachable"] = "PASS" THEN next ELSE "done"
           /\ UNCHANGED <<env, core, given>>
<1> USE DEF Request, deploymentVars
<1>1. name \in Checks
  BY DEF Mid, Checks
<1>2. \E r \in {status, onThrow} : check' = [check EXCEPT ![name] = r]
  OBVIOUS
<1>3. /\ check' \in [Checks -> {"none", "PASS", "WARN", "FAIL"}]
      /\ \A c \in Checks \ {name} : check'[c] = check[c]
      /\ check'[name] \in {status, onThrow}
  BY <1>1, <1>2 DEF PreflightTypes
<1>4. \/ core.health # "down" /\ check'[name] = status /\ valid' = valid
      \/ check'[name] = onThrow /\ valid' = (valid /\ core.health = "down")
  BY <1>1 DEF PreflightTypes
<1>5. valid' = valid \/ valid' = (valid /\ core.health = "down")
  BY <1>4
<1>6. valid' \in BOOLEAN /\ (valid' => valid)
  <2>1. CASE valid' = valid
    BY <2>1, Zenon DEF PreflightTypes
  <2>2. CASE valid' = (valid /\ core.health = "down")
    BY <2>2, Zenon DEF PreflightTypes
  <2>. QED
    BY <1>5, <2>1, <2>2
<1>. QED
  BY <1>3, <1>4, <1>6

LEMMA PreflightInit == CutoverInit => PreflightInv
BY DEF CutoverInit, PreflightInv, PreflightTypes, NotRun, Checks, Mid, AfterReachable

LEMMA EnvironmentStep ==
    ASSUME PreflightInv, CheckEnvironment PROVE PreflightInv'
<1> USE DEF CheckEnvironment, NotRun, Checks, deploymentVars
<1>1. PreflightTypes'
  BY DEF PreflightTypes, Mid, AfterReachable, PassOr
<1>2. EnvironmentKnown'
  BY DEF EnvironmentKnown, PassOr
<1>3. ReachableKnown' /\ AnonymousKnown' /\ ProtocolKnown' /\ KeyKnown'
  BY DEF ReachableKnown, AnonymousKnown, ProtocolKnown, KeyKnown, Reached,
         AfterReachable, AfterAnonymous, AfterProtocol, AfterKey
<1>. QED
  BY <1>1, <1>2, <1>3 DEF PreflightInv

LEMMA ReachableStep ==
    ASSUME PreflightInv, CheckReachable PROVE PreflightInv'
<1> DEFINE status == PassOr("FAIL", core.health = "up")
<1>1. status \in {"PASS", "WARN", "FAIL"}
  BY DEF PassOr
<1>2. /\ at = "reachable"
      /\ check' \in [Checks -> {"none", "PASS", "WARN", "FAIL"}]
      /\ \A c \in Checks \ {"reachable"} : check'[c] = check[c]
      /\ check'["reachable"] \in {status, "FAIL"}
      /\ valid' \in BOOLEAN /\ (valid' => valid)
      /\ at' = IF check'["reachable"] = "PASS" THEN "anonymous" ELSE "done"
      /\ UNCHANGED <<env, core, given>>
  BY <1>1, RequestResult DEF CheckReachable, PreflightInv, Mid, AfterReachable
<1>3. PreflightTypes'
  BY <1>2, <1>1 DEF PreflightInv, PreflightTypes, Mid, AfterReachable, Checks
<1>4. EnvironmentKnown => EnvironmentKnown'
  BY <1>2 DEF EnvironmentKnown, Checks
<1>5. ReachableKnown'
  BY <1>2 DEF ReachableKnown, Reached, PassOr, Checks
<1>6. AnonymousKnown' /\ ProtocolKnown' /\ KeyKnown'
  BY <1>2 DEF AnonymousKnown, ProtocolKnown, KeyKnown, Reached, PassOr, Checks,
              AfterAnonymous, AfterProtocol, AfterKey
<1>. QED
  BY <1>2, <1>3, <1>4, <1>5, <1>6 DEF PreflightInv


LEMMA AnonymousStep ==
    ASSUME PreflightInv, CheckAnonymous PROVE PreflightInv'
<1> DEFINE anon == ProbeAuthedEndpoint(core, None)
           status == IF IsRefused(anon) THEN "PASS" ELSE IF anon = 200 THEN "FAIL" ELSE "WARN"
<1>1. status \in {"PASS", "WARN", "FAIL"} /\ (status # "FAIL" => anon # 200)
  BY DEF IsRefused
<1> HIDE DEF anon, status
<1>2. Request("anonymous", status, "WARN", "protocol")
  BY DEF CheckAnonymous, anon, status
<1>3. /\ at = "anonymous"
      /\ check' \in [Checks -> {"none", "PASS", "WARN", "FAIL"}]
      /\ \A c \in Checks \ {"anonymous"} : check'[c] = check[c]
      /\ valid' \in BOOLEAN /\ (valid' => valid)
      /\ valid' /\ core.health # "down" => check'["anonymous"] = status
      /\ at' = IF check'["reachable"] = "PASS" THEN "protocol" ELSE "done"
      /\ UNCHANGED <<env, core, given>>
  BY <1>1, <1>2, RequestResult DEF PreflightInv, Mid, AfterReachable
<1>4. PreflightTypes' /\ at' = "protocol"
  BY <1>3 DEF PreflightInv, PreflightTypes, Mid, AfterReachable, Checks
<1>5. UNCHANGED Reached
  BY <1>3 DEF Reached, Checks
<1>6. /\ EnvironmentKnown => EnvironmentKnown'
      /\ ReachableKnown => ReachableKnown'
      /\ ProtocolKnown' /\ KeyKnown'
  BY <1>3, <1>4, <1>5 DEF EnvironmentKnown, ReachableKnown, ProtocolKnown, KeyKnown, Checks,
              AfterReachable, AfterProtocol, AfterKey
<1>7. ReachableKnown /\ valid' => AnonymousKnown'
  BY <1>1, <1>3, <1>4, <1>5 DEF AnonymousKnown, ReachableKnown, AfterReachable, anon
<1>. QED
  BY <1>3, <1>4, <1>6, <1>7 DEF PreflightInv

LEMMA ProtocolStep ==
    ASSUME PreflightInv, CheckProtocol PROVE PreflightInv'
<1> DEFINE status == IF Offered(core) = {} THEN "WARN" ELSE PassOr("FAIL", Offered(core) \cap CdiSupported # {})
<1>1. /\ status \in {"PASS", "WARN", "FAIL"}
      /\ status # "FAIL" => Offered(core) = {} \/ Offered(core) \cap CdiSupported # {}
      /\ status \notin {"FAIL", "WARN"} => Offered(core) \cap CdiSupported # {}
  BY DEF PassOr
<1> HIDE DEF status
<1>2. Request("protocol", status, "WARN", "key")
  BY DEF CheckProtocol, status
<1>3. /\ at = "protocol"
      /\ check' \in [Checks -> {"none", "PASS", "WARN", "FAIL"}]
      /\ \A c \in Checks \ {"protocol"} : check'[c] = check[c]
      /\ valid' \in BOOLEAN /\ (valid' => valid)
      /\ valid' /\ core.health # "down" => check'["protocol"] = status
      /\ at' = IF check'["reachable"] = "PASS" THEN "key" ELSE "done"
      /\ UNCHANGED <<env, core, given>>
  BY <1>1, <1>2, RequestResult DEF PreflightInv, Mid, AfterReachable
<1>4. PreflightTypes' /\ at' = "key"
  BY <1>3 DEF PreflightInv, PreflightTypes, Mid, AfterReachable, Checks
<1>5. UNCHANGED Reached
  BY <1>3 DEF Reached, Checks
<1>6. /\ EnvironmentKnown => EnvironmentKnown'
      /\ ReachableKnown => ReachableKnown'
      /\ AnonymousKnown => AnonymousKnown'
      /\ KeyKnown'
  BY <1>3, <1>4, <1>5 DEF EnvironmentKnown, ReachableKnown, AnonymousKnown, KeyKnown, Checks,
              AfterReachable, AfterAnonymous, AfterKey
<1>7. ReachableKnown /\ valid' => ProtocolKnown'
  BY <1>1, <1>3, <1>4, <1>5 DEF ProtocolKnown, ReachableKnown, AfterReachable
<1>. QED
  BY <1>3, <1>4, <1>6, <1>7 DEF PreflightInv

LEMMA KeyStep ==
    ASSUME PreflightInv, KeyIsMissing \/ CheckKey PROVE PreflightInv'
<1> DEFINE authed == ProbeAuthedEndpoint(core, ApiKey(given))
           status == IF authed = 200 THEN "PASS" ELSE IF IsRefused(authed) THEN "FAIL" ELSE "WARN"
<1>1. /\ status \in {"PASS", "WARN", "FAIL"}
      /\ status \notin {"FAIL", "WARN"} => authed = 200
  OBVIOUS
<1> HIDE DEF authed, status
<1>2. /\ at = "key"
      /\ check' \in [Checks -> {"none", "PASS", "WARN", "FAIL"}]
      /\ \A c \in Checks \ {"key"} : check'[c] = check[c]
      /\ valid' \in BOOLEAN /\ (valid' => valid)
      /\ at' \in {"database", "done"}
      /\ UNCHANGED <<env, core, given>>
      /\ check'["key"] # "FAIL" => "SUPERTOKENS_API_KEY" \in given \/ IsLoopback(given)
      /\ valid' /\ core.health # "down" /\ check'["key"] \notin {"FAIL", "WARN"} => authed = 200
  <2>1. CASE KeyIsMissing
    BY <2>1 DEF KeyIsMissing, PreflightInv, PreflightTypes, Checks, deploymentVars
  <2>2. CASE CheckKey
    <3>1. Request("key", status, "WARN", "database") /\ ApiKey(given) # None
      BY <2>2 DEF CheckKey, authed, status
    <3>2. "SUPERTOKENS_API_KEY" \in given
      BY <3>1 DEF ApiKey
    <3>. QED
      BY <1>1, <3>1, <3>2, RequestResult DEF PreflightInv, Mid, AfterReachable
  <2>. QED
    BY <2>1, <2>2
<1>3. PreflightTypes'
  BY <1>2 DEF PreflightInv, PreflightTypes, Mid, AfterReachable, Checks
<1>4. UNCHANGED Reached
  BY <1>2 DEF Reached, Checks
<1>5. /\ EnvironmentKnown => EnvironmentKnown'
      /\ ReachableKnown => ReachableKnown'
      /\ AnonymousKnown => AnonymousKnown'
      /\ ProtocolKnown => ProtocolKnown'
  BY <1>2, <1>4 DEF EnvironmentKnown, ReachableKnown, AnonymousKnown, ProtocolKnown, Checks,
              AfterReachable, AfterAnonymous, AfterProtocol
<1>6. ReachableKnown /\ valid' => KeyKnown'
  BY <1>2, <1>4 DEF KeyKnown, ReachableKnown, AfterReachable, authed
<1>. QED
  BY <1>2, <1>3, <1>5, <1>6 DEF PreflightInv, PreflightTypes

LEMMA DatabaseStep ==
    ASSUME PreflightInv, CheckOwnDatabase \/ NoDatabaseToCheck PROVE PreflightInv'
<1>1. /\ at = "database" /\ at' = "done"
      /\ check' \in [Checks -> {"none", "PASS", "WARN", "FAIL"}]
      /\ \A c \in Checks \ {"database"} : check'[c] = check[c]
      /\ UNCHANGED <<env, core, given>>
  BY DEF CheckOwnDatabase, NoDatabaseToCheck, PreflightInv, PreflightTypes, Checks, PassOr, deploymentVars
<1>2. valid' \in BOOLEAN /\ (valid' => valid)
  <2>1. CASE valid' = valid
    BY <2>1, Zenon DEF PreflightInv, PreflightTypes
  <2>2. CASE valid' = (valid /\ ~ db["postgres"].present)
    BY <2>2, Zenon DEF PreflightInv, PreflightTypes
  <2>. QED
    BY <2>1, <2>2, Zenon DEF CheckOwnDatabase, NoDatabaseToCheck
<1>3. PreflightTypes'
  BY <1>1, <1>2 DEF PreflightInv, PreflightTypes, Mid, AfterReachable, Checks
<1>4. UNCHANGED Reached
  BY <1>1 DEF Reached, Checks
<1>5. /\ EnvironmentKnown => EnvironmentKnown'
      /\ ReachableKnown => ReachableKnown'
      /\ AnonymousKnown => AnonymousKnown'
      /\ ProtocolKnown => ProtocolKnown'
      /\ KeyKnown => KeyKnown'
  BY <1>1, <1>4 DEF EnvironmentKnown, ReachableKnown, AnonymousKnown, ProtocolKnown, KeyKnown, Checks,
              AfterReachable, AfterAnonymous, AfterProtocol, AfterKey
<1>. QED
  BY <1>1, <1>2, <1>3, <1>5 DEF PreflightInv

LEMMA PreflightStep == PreflightInv /\ [CutoverNext]_cutoverVars => PreflightInv'
<1> SUFFICES ASSUME PreflightInv, [CutoverNext]_cutoverVars PROVE PreflightInv'
  OBVIOUS
<1>1. CASE Preflight
  BY <1>1, EnvironmentStep, ReachableStep, AnonymousStep, ProtocolStep, KeyStep, DatabaseStep
     DEF Preflight
<1>2. CASE UNCHANGED <<deploymentVars, preflightVars>>
  BY <1>2 DEF PreflightInv, PreflightTypes, EnvironmentKnown, ReachableKnown, AnonymousKnown,
              ProtocolKnown, KeyKnown, Reached, deploymentVars, preflightVars
<1>3. ASSUME NEW e, NEW c, ChangeDeployment(e, c) PROVE PreflightInv'
  BY <1>3 DEF ChangeDeployment, PreflightInv, PreflightTypes
<1>4. ASSUME NEW s, NEW d, Restore(s, d) PROVE PreflightInv'
  <2>1. valid' \in BOOLEAN /\ (valid' => valid)
    <3>1. valid' = (valid /\ (s = "postgres" => d.present = db[s].present))
      BY <1>4 DEF Restore
    <3>. QED
      BY <3>1, Zenon DEF PreflightInv, PreflightTypes
  <2>. QED
    BY <1>4, <2>1 DEF Restore, PreflightInv, PreflightTypes, EnvironmentKnown, ReachableKnown, AnonymousKnown,
              ProtocolKnown, KeyKnown, Reached, deploymentVars
<1>. QED
  BY <1>1, <1>2, <1>3, <1>4 DEF CutoverNext, Audit, Boot, PassportLogin, SuperTokensLogin, cutoverVars,
     deploymentVars, preflightVars


\* What the preflight cleared, and what it found without a warning.
LEMMA ClearedDeployment ==
    ASSUME PreflightInv, StillAsChecked
    PROVE  /\ env = given /\ core.health = "up"
           /\ \A m \in Modes : InitSuperTokens(m, env, core)
           /\ "WARN" \notin {check[c] : c \in Checks} =>
                  /\ Offered(core) \cap CdiSupported # {}
                  /\ ProbeAuthedEndpoint(core, ApiKey(env)) = 200
<1>1. /\ at = "done" /\ valid
      /\ \A c \in Checks : check[c] # "FAIL"
  BY DEF StillAsChecked, PreflightPassed
<1>2. env = given /\ EnvironmentKnown /\ ReachableKnown /\ AnonymousKnown /\ ProtocolKnown /\ KeyKnown
  BY <1>1 DEF PreflightInv
<1>3. Reached /\ core.health = "up"
  BY <1>1, <1>2 DEF Reached, ReachableKnown, Checks, AfterReachable
<1>4. ProbeAuthedEndpoint(core, None) # 200
  BY <1>1, <1>2, <1>3 DEF AnonymousKnown, Checks, AfterAnonymous
<1>5. /\ Offered(core) = {} \/ Offered(core) \cap CdiSupported # {}
      /\ check["protocol"] # "WARN" => Offered(core) \cap CdiSupported # {}
  BY <1>1, <1>2, <1>3 DEF ProtocolKnown, Checks, AfterProtocol
<1>6. /\ "SUPERTOKENS_API_KEY" \in env \/ IsLoopback(env)
      /\ check["key"] # "WARN" => ProbeAuthedEndpoint(core, ApiKey(env)) = 200
  BY <1>1, <1>2, <1>3 DEF KeyKnown, Checks, AfterKey
<1>7. "SUPERTOKENS_CONNECTION_URI" \in env /\ ResolvePublicOrigin(env) /\ BuildProviders(env) # {}
  BY <1>1, <1>2 DEF EnvironmentKnown, Checks
<1>8. \A m \in Modes : InitSuperTokens(m, env, core)
  BY <1>4, <1>5, <1>6, <1>7 DEF InitSuperTokens, AssertCoreRejectsAnonymous, AssertCoreSpeaksOurProtocol
<1>9. "WARN" \notin {check[c] : c \in Checks} => check["protocol"] # "WARN" /\ check["key"] # "WARN"
  BY DEF Checks
<1>. QED
  BY <1>2, <1>3, <1>5, <1>6, <1>8, <1>9

\* A core that is up and lets a key through either has no keys or this one.
LEMMA LetThrough ==
    ASSUME NEW key, core.health = "up", ProbeAuthedEndpoint(core, key) = 200
    PROVE  core.keys = {} \/ key \in core.keys
<1> DEFINE known == {i \in DOMAIN AuthedEndpoints : Answer(core, AuthedEndpoints[i], key) # 404}
           first == CHOOSE i \in known : \A j \in known : i <= j
<1>1. Answer(core, AuthedEndpoints[first], key) = 200
  BY CutoverAssumption DEF ProbeAuthedEndpoint
<1> HIDE DEF known, first
<1>2. \A path : Answer(core, path, key) =
               IF path # core.path THEN 404
               ELSE IF core.keys = {} \/ key \in core.keys THEN 200 ELSE 401
  BY DEF Answer
<1>. QED
  BY <1>1, <1>2


(***************************************************************************)
(* The databases, and what the audit has seen of one.                      *)
(***************************************************************************)

Sources == {"postgres", "sqlite"}

DbInv == db \in [Sources -> Database]

\* Every login of a database that was cleared, now and since, lands on its own
\* row, and there was one to compare; no boot has anything to add to it.
AuditInv ==
    exit = "cleared" /\ audited # None =>
        /\ audited \in Sources
        /\ db[audited].present /\ db[audited].split
        /\ \E l \in Accounts : db[audited].identity[l] # None
        /\ \A l \in Accounts : db[audited].identity[l] # None =>
               db[audited].identity[l] = l /\ l \in db[audited].users

\* What a first login leaves of a database.
LEMMA Joining ==
    ASSUME DbInv, NEW s \in Sources, NEW l \in Accounts, UpsertUser(s, l)
    PROVE  /\ DbInv'
           /\ \A r \in Sources \ {s} : db'[r] = db[r]
           /\ db'[s].present = db[s].present /\ db'[s].split = db[s].split
           /\ db'[s].users = db[s].users \cup {l}
           /\ db'[s].identity = [db[s].identity EXCEPT ![l] = l]
<1>1. db[s] \in Database
  BY DEF DbInv
<1>2. db' = [db EXCEPT ![s] = [db[s] EXCEPT !.users = @ \cup {l}, !.identity[l] = l]]
  BY <1>1 DEF UpsertUser, DbInv
<1>. QED
  BY <1>1, <1>2 DEF DbInv, Database

\* A boot leaves databases, of which the one it opens is there and split; one
\* that already was is replaced only when it has no rows.
LEMMA Booted ==
    ASSUME DbInv, NEW m \in Modes, Boot(m)
    PROVE  /\ DbInv'
           /\ \A s \in Sources : db[s].present => db'[s].present
           /\ \A s \in Sources : db[s].present /\ db[s].split => db'[s] = db[s] \/ db[s] = NoRows
<1>1. NoRows \in Database /\ NoRows.present
  BY DEF NoRows, Database
<1>2. ASSUME NEW d \in Database
      PROVE  /\ ApplySchema(d) \in Database /\ ApplySchema(d).present
             /\ d.present /\ d.split => ApplySchema(d) = d
  <2>1. CASE ~ d.present
    BY <1>1, <2>1 DEF ApplySchema
  <2>2. CASE d.present /\ d.split
    BY <2>2 DEF ApplySchema
  <2>3. CASE d.present /\ ~ d.split
    <3>1. ApplySchema(d) = [d EXCEPT !.split = TRUE,
                             !.identity = [l \in Accounts |-> IF l \in d.users THEN l ELSE None]]
      BY <2>3 DEF ApplySchema
    <3>. QED
      BY <2>3, <3>1 DEF Database
  <2>. QED
    BY <2>1, <2>2, <2>3
<1>3. /\ \A s \in Sources : db[s] \in Database
      /\ DOMAIN db = Sources /\ Source(env) \in Sources
  BY DEF DbInv, Source, Sources
<1>4. /\ DOMAIN db' = Sources
      /\ \A s \in Sources :
            \/ db'[s] = db[s] \/ db'[s] = ApplySchema(db[s])
            \/ /\ ApplySchema(db[s]) = NoRows
               /\ db'[s] = NoRows \/ db'[s] = ApplySchema(db["sqlite"])
      /\ db' = [s \in Sources |-> db'[s]]
  BY <1>3 DEF Boot, OpenDatabase, DatabaseRefused, MayCopy, DbInv
<1>5. db["sqlite"] \in Database
  BY <1>3 DEF Sources
<1>6. \A s \in Sources : db'[s] \in Database
  BY <1>1, <1>2, <1>3, <1>4, <1>5
<1>. QED
  BY <1>1, <1>2, <1>3, <1>4, <1>5, <1>6 DEF DbInv

LEMMA DbInit == CutoverInit => DbInv
BY CutoverAssumption DEF CutoverInit, DbInv, Sources

LEMMA DbStep == DbInv /\ [CutoverNext]_cutoverVars => DbInv'
<1> SUFFICES ASSUME DbInv, [CutoverNext]_cutoverVars PROVE DbInv'
  OBVIOUS
<1>1. ASSUME NEW l \in Accounts, PassportLogin(l) \/ SuperTokensLogin(l) PROVE DbInv'
  BY <1>1, Joining DEF PassportLogin, SuperTokensLogin, Source, Sources
<1>2. ASSUME NEW s \in Sources, NEW d \in Databases, Restore(s, d) PROVE DbInv'
  BY <1>2, CutoverAssumption DEF Restore, DbInv
<1>3. CASE UNCHANGED db
  BY <1>3 DEF DbInv
<1>4. Preflight => UNCHANGED db
  BY DEF Preflight, CheckEnvironment, CheckReachable, CheckAnonymous, CheckProtocol, CheckKey,
         KeyIsMissing, CheckOwnDatabase, NoDatabaseToCheck, Request
<1>5. DOMAIN db = Sources
  BY DEF DbInv
<1>. QED
  BY <1>1, <1>2, <1>3, <1>4, <1>5, Booted DEF CutoverNext, Audit, ChangeDeployment, cutoverVars

\* The own-database check passes only when Postgres answers it, and valid ends
\* when Postgres comes or goes.
DatabaseInv == valid /\ check["database"] = "PASS" => db["postgres"].present

LEMMA DatabaseInit == CutoverInit => DatabaseInv
BY DEF CutoverInit, DatabaseInv

LEMMA DatabaseInvStep == PreflightInv /\ DbInv /\ DatabaseInv /\ [CutoverNext]_cutoverVars => DatabaseInv'
<1> SUFFICES ASSUME PreflightInv, DbInv, DatabaseInv, [CutoverNext]_cutoverVars PROVE DatabaseInv'
  OBVIOUS
<1> USE DEF DatabaseInv
<1>1. CASE CheckEnvironment
  BY <1>1 DEF CheckEnvironment, NotRun, Checks
<1>2. ASSUME NEW name \in Mid \ {"database"}, NEW status, NEW onThrow, NEW next,
             Request(name, status, onThrow, next)
      PROVE  DatabaseInv'
  <2>1. check'["database"] = check["database"] /\ db' = db
    BY <1>2 DEF Request, PreflightInv, PreflightTypes, Mid, Checks
  <2>2. valid' = valid \/ valid' = (valid /\ core.health = "down")
    BY <1>2 DEF Request
  <2>. QED
    BY <2>1, <2>2
<1>3. CASE CheckReachable \/ CheckAnonymous \/ CheckProtocol \/ CheckKey
  BY <1>2, <1>3 DEF CheckReachable, CheckAnonymous, CheckProtocol, CheckKey, Mid
<1>4. CASE KeyIsMissing
  BY <1>4 DEF KeyIsMissing, PreflightInv, PreflightTypes, Checks
<1>5. CASE CheckOwnDatabase
  BY <1>5 DEF CheckOwnDatabase, PreflightInv, PreflightTypes, Checks
<1>6. ASSUME NEW l \in Accounts, PassportLogin(l) \/ SuperTokensLogin(l) PROVE DatabaseInv'
  <2>1. Source(serving) \in Sources /\ UpsertUser(Source(serving), l)
    BY <1>6 DEF PassportLogin, SuperTokensLogin, Source, Sources
  <2>2. db'["postgres"].present = db["postgres"].present
    BY <2>1, Joining DEF Sources
  <2>. QED
    BY <1>6, <2>2 DEF PassportLogin, SuperTokensLogin, preflightVars
<1>7. ASSUME NEW m \in Modes, Boot(m) PROVE DatabaseInv'
  <2>1. db["postgres"].present => db'["postgres"].present
    BY <1>7, Booted DEF Sources
  <2>. QED
    BY <1>7, <2>1 DEF Boot, preflightVars
<1>8. ASSUME NEW s \in Sources, NEW d \in Databases, Restore(s, d) PROVE DatabaseInv'
  BY <1>8 DEF Restore, DbInv, Sources
<1>9. ASSUME NEW e, NEW c, ChangeDeployment(e, c) PROVE DatabaseInv'
  BY <1>9 DEF ChangeDeployment
<1>10. CASE UNCHANGED <<db, preflightVars>>
  BY <1>10 DEF preflightVars
<1>11. CASE NoDatabaseToCheck
  BY <1>11 DEF NoDatabaseToCheck
<1>12. DOMAIN db = Sources
  BY DEF DbInv
<1>. QED
  BY <1>1, <1>3, <1>4, <1>5, <1>6, <1>7, <1>8, <1>9, <1>10, <1>11, <1>12
     DEF CutoverNext, Preflight, Audit, cutoverVars

\* A boot in dual or supertokens that the preflight cleared is not refused, by
\* the core or by the database, if the preflight reached that database.
THEOREM ClearedBoots == CutoverSpec => ClearedBootIsNotRefused
<1>1. PreflightInv /\ DbInv /\ DatabaseInv /\ [CutoverNext]_cutoverVars =>
        [\A m \in Modes : Boot(m) /\ StillAsChecked /\ DatabaseAnswered => authMode' = m]_cutoverVars
  <2> SUFFICES ASSUME PreflightInv, DatabaseInv, NEW m \in Modes, Boot(m), StillAsChecked, DatabaseAnswered
               PROVE  authMode' = m
    OBVIOUS
  <2>1. ~ DatabaseRefused(Source(env))
    BY DEF DatabaseRefused, DatabaseAnswered, DatabaseInv, StillAsChecked, Source
  <2>. QED
    BY <2>1, ClearedDeployment DEF Boot, BuildApp
<1>. QED
  BY <1>1, PreflightInit, PreflightStep, DbInit, DbStep, DatabaseInit, DatabaseInvStep, PTL
     DEF CutoverSpec, ClearedBootIsNotRefused

LEMMA AuditInit == CutoverInit => AuditInv
BY DEF CutoverInit, AuditInv

\* The audit itself: a database that passes holds matches only.
LEMMA Passes ==
    ASSUME NEW d \in Database, Summarise(AuditStoredIdentities(d))
    PROVE  /\ \E l \in Accounts : d.identity[l] # None
           /\ \A l \in Accounts : d.identity[l] # None => d.identity[l] = l /\ l \in d.users
<1> DEFINE Row(l) == [login |-> l, user |-> d.identity[l], exists |-> d.identity[l] \in d.users]
<1>1. AuditStoredIdentities(d) =
        {ClassifyIdentityRow(Row(l)) : l \in {k \in Accounts : d.identity[k] # None}}
  BY DEF AuditStoredIdentities, AuditRows
<1>2. \E l \in Accounts : d.identity[l] # None
  BY <1>1 DEF Summarise
<1>3. ASSUME NEW l \in Accounts, d.identity[l] # None
      PROVE  d.identity[l] = l /\ l \in d.users
  <2>1. ClassifyIdentityRow(Row(l)) = "match"
    BY <1>1, <1>3 DEF Summarise
  <2>. QED
    BY <2>1 DEF ClassifyIdentityRow
<1>. QED
  BY <1>2, <1>3

LEMMA AuditStep == DbInv /\ AuditInv /\ [CutoverNext]_cutoverVars => AuditInv'
<1> SUFFICES ASSUME DbInv, AuditInv, [CutoverNext]_cutoverVars PROVE AuditInv'
  OBVIOUS
<1>1. CASE Audit
  <2>1. Source(env) \in Sources /\ audited' = Source(env) /\ db' = db
    BY <1>1 DEF Audit, Source, Sources
  <2>2. exit' = "cleared" => Summarise(AuditStoredIdentities(db[Source(env)]))
    BY <1>1 DEF Audit
  <2>3. db[Source(env)] \in Database
    BY <2>1 DEF DbInv
  <2>4. exit' = "cleared" => db[Source(env)].present /\ db[Source(env)].split
    BY <1>1 DEF Audit, ReadAllIdentities
  <2>. QED
    BY <2>1, <2>2, <2>3, <2>4, Passes DEF AuditInv
<1>2. ASSUME NEW l \in Accounts, PassportLogin(l) \/ SuperTokensLogin(l) PROVE AuditInv'
  <2> DEFINE s == Source(serving)
  <2>1. s \in Sources /\ UpsertUser(s, l) /\ UNCHANGED auditVars
    BY <1>2 DEF PassportLogin, SuperTokensLogin, Source, Sources
  <2> HIDE DEF s
  <2>2. /\ \A r \in Sources \ {s} : db'[r] = db[r]
        /\ db'[s].users = db[s].users \cup {l}
        /\ db'[s].present = db[s].present /\ db'[s].split = db[s].split
        /\ db'[s].identity = [db[s].identity EXCEPT ![l] = l]
    BY <2>1, Joining
  <2>3. db[s].identity \in [Accounts -> Accounts \cup {None}]
    BY <2>1 DEF DbInv, Database
  <2>4. \A k \in Accounts : db'[s].identity[k] = IF k = l THEN l ELSE db[s].identity[k]
    BY <2>2, <2>3
  <2>5. l # None
    BY CutoverAssumption
  <2> SUFFICES ASSUME exit = "cleared", audited # None PROVE AuditInv'
    BY <2>1 DEF AuditInv, auditVars
  <2>6. /\ audited' = audited /\ audited \in Sources
        /\ db[audited].present /\ db[audited].split
        /\ \E k \in Accounts : db[audited].identity[k] # None
        /\ \A k \in Accounts : db[audited].identity[k] # None =>
               db[audited].identity[k] = k /\ k \in db[audited].users
    BY <2>1 DEF AuditInv, auditVars
  <2>7. CASE audited = s
    BY <2>2, <2>4, <2>5, <2>6, <2>7 DEF AuditInv
  <2>8. CASE audited # s
    BY <2>2, <2>6, <2>8 DEF AuditInv
  <2>. QED
    BY <2>7, <2>8
<1>3. ASSUME NEW s \in Sources, NEW d \in Databases, Restore(s, d) PROVE AuditInv'
  BY <1>3 DEF Restore, AuditInv, DbInv
<1>4. CASE UNCHANGED <<db, auditVars>>
  BY <1>4 DEF AuditInv, auditVars
<1>5. Preflight => UNCHANGED <<db, auditVars>>
  BY DEF Preflight, CheckEnvironment, CheckReachable, CheckAnonymous, CheckProtocol, CheckKey,
         KeyIsMissing, CheckOwnDatabase, NoDatabaseToCheck, Request
<1>6. DOMAIN db = Sources
  BY DEF DbInv
<1>7. ASSUME NEW m \in Modes, Boot(m) PROVE AuditInv'
  <2>1. UNCHANGED auditVars
    BY <1>7 DEF Boot
  <2> SUFFICES ASSUME exit = "cleared", audited # None PROVE AuditInv'
    BY <2>1 DEF AuditInv, auditVars
  <2>2. /\ audited \in Sources /\ db[audited].present /\ db[audited].split
        /\ db[audited] # NoRows
    BY DEF AuditInv, NoRows
  <2>3. db'[audited] = db[audited]
    BY <1>7, <2>2, Booted
  <2>. QED
    BY <2>1, <2>3 DEF AuditInv, auditVars
<1>. QED
  BY <1>1, <1>2, <1>3, <1>4, <1>5, <1>6, <1>7 DEF CutoverNext, ChangeDeployment, cutoverVars

\* Past a preflight without a warning, no login fails at the core.
THEOREM CleanPreflightServes == CutoverSpec => []CleanPreflightLogsIn
<1>1. PreflightInv /\ DbInv => CleanPreflightLogsIn
  <2> SUFFICES ASSUME PreflightInv, DbInv, serving = env, StillAsChecked,
                      "WARN" \notin {check[c] : c \in Checks}, NEW l \in Accounts
               PROVE  LandsOn(l) # "failed"
    BY DEF CleanPreflightLogsIn
  <2>1. core.keys = {} \/ ApiKey(env) \in core.keys
    BY ClearedDeployment, LetThrough
  <2>2. CoreServes(serving)
    BY <2>1, ClearedDeployment DEF CoreServes, Offered
  <2>3. db[Source(serving)].identity[l] \in Accounts \cup {None}
    BY DEF DbInv, Source, Sources, Database
  <2>. QED
    BY <2>2, <2>3, CutoverAssumption DEF LandsOn
<1>. QED
  BY <1>1, PreflightInit, PreflightStep, DbInit, DbStep, PTL DEF CutoverSpec

\* Past an audit that cleared the database, every login lands on its own row.
THEOREM AuditKeepsSaves == CutoverSpec => []ClearedAuditKeepsSaves
<1>1. DbInv /\ AuditInv => ClearedAuditKeepsSaves
  BY CutoverAssumption DEF DbInv, AuditInv, ClearedAuditKeepsSaves, LandsOn, Sources
<1>. QED
  BY <1>1, DbInit, DbStep, AuditInit, AuditStep, PTL DEF CutoverSpec

=============================================================================
