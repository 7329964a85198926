------------------------------ MODULE Identity ------------------------------
(***************************************************************************)
(* Logging in on Postgres: the passport strategies and the SuperTokens     *)
(* signInUp override bring one player onto one row of users, one row of    *)
(* identities and one user id mapping in the SuperTokens core; requireAuth *)
(* then resolves the browser's credentials to that player.                 *)
(*                                                                         *)
(* A login is a sequence of awaits; one statement or core call is one      *)
(* action, and logins, username changes, failures and restarts in another  *)
(* AUTH_MODE interleave.  A username is a number; Suffixed(n, k) is the    *)
(* name n with -k appended.                                                *)
(***************************************************************************)
EXTENDS SuperTokensBoot

CONSTANTS
    Players, Logins, Player, Flows,
    Supplied,      \* the username the provider gives a login
    Chosen,        \* the usernames a player may set
    Environments,  \* what the environment of a restart sets
    Cores,         \* what the core answers at a restart
    MaxRestarts,   \* bound: restarts, each with some AUTH_MODE
    MaxChoices,    \* bound: username changes
    MaxTries       \* bound: logins made once more

ASSUME LoginAssumption ==
    /\ Player \in [Logins -> Players]
    /\ Flows \in [Logins -> SUBSET {"passport", "supertokens"}]
    /\ Supplied \in [Logins -> Nat]
    /\ Chosen \subseteq Nat
ASSUME BoundAssumption == MaxRestarts \in Nat /\ MaxChoices \in Nat /\ MaxTries \in Nat
ASSUME NoneAssumption == None \notin Nat \cup {"st", "ext"}

VARIABLES
    username,   \* users: the name of each row, None without one
    custom,     \* users.custom_username
    identity,   \* identities: "absent", "null", or the recorded id: "st" or "ext"
    mapped,     \* the core maps the player's own id onto users.id
    mode,       \* AUTH_MODE of the running process
    holder,     \* the login whose fn runs under withUserLock of a player
    pc, got, wanted, candidate, record,   \* of each login
    jwt, session,                         \* the credentials of a player's browser
    restarts, choices, tries,
    clashed,    \* the login's first write found its name taken by another player
    faulted,    \* a call of the login failed, or the process died
    chosen      \* the name a player set, while no login of theirs had read the row

dbVars == <<username, custom, identity>>
browserVars == <<jwt, session>>
loginVars == <<got, wanted, candidate, record>>
vars == <<dbVars, mapped, mode, holder, pc, loginVars, browserVars,
          restarts, choices, tries, clashed, faulted, chosen>>

Suffixed(name, k) == 10 * name + k

\* The unique index on lower(username), as every write meets it.
TakenByOther(name, p) == \E q \in Players \ {p} : username[q] = name
Taken(name) == \E q \in Players : username[q] = name

-----------------------------------------------------------------------------

\* The rows a database can start from: new players, players known to one
\* stack, a player the core has mapped, and one restored without its identity.
Init ==
    /\ username \in [Players -> {None} \cup Chosen]
    /\ \A p, q \in Players : username[p] = username[q] => p = q \/ username[p] = None
    /\ custom \in [Players -> BOOLEAN]
    /\ identity \in [Players -> {"absent", "null"}]
    /\ \A p \in Players :
         /\ username[p] = None => ~ custom[p] /\ identity[p] = "absent"
         /\ custom[p] => identity[p] # "absent"
    /\ mapped = [p \in Players |-> FALSE]
    /\ mode \in Modes
    /\ holder = [p \in Players |-> None]
    /\ pc = [l \in Logins |-> "idle"]
    /\ got = [l \in Logins |-> "st"]
    /\ wanted = [l \in Logins |-> 0]
    /\ candidate = [l \in Logins |-> 0]
    /\ record = [l \in Logins |-> "st"]
    /\ jwt = [p \in Players |-> FALSE]
    /\ session = [p \in Players |-> None]
    /\ restarts = 0
    /\ choices = 0
    /\ tries = 0
    /\ clashed = [l \in Logins |-> FALSE]
    /\ faulted = [l \in Logins |-> FALSE]
    /\ chosen = [p \in Players |-> IF custom[p] THEN username[p] ELSE None]

Goto(l, there) == pc' = [pc EXCEPT ![l] = there]

\* The player tries again, with the same stack.
TryAgain(l) ==
    /\ pc[l] \in {"done", "failed"}
    /\ tries < MaxTries
    /\ tries' = tries + 1
    /\ Goto(l, "idle")
    /\ clashed' = [clashed EXCEPT ![l] = FALSE]
    /\ faulted' = [faulted EXCEPT ![l] = FALSE]
    /\ UNCHANGED <<dbVars, mapped, mode, holder, loginVars, browserVars,
                   restarts, choices, chosen>>

\* A passport callback: the strategy calls upsertUser under no lock.
PassportCallback(l) ==
    /\ pc[l] = "idle"
    /\ "passport" \in Flows[l] /\ IsPassportEnabled(mode)
    /\ Goto(l, "find")
    /\ UNCHANGED <<dbVars, mapped, mode, holder, loginVars, browserVars,
                   restarts, choices, tries, clashed, faulted, chosen>>

\* signInUp: the core finds or creates its own user, and answers with the
\* mapped id when there is a mapping.
SignInUp(l) ==
    /\ pc[l] = "idle"
    /\ "supertokens" \in Flows[l] /\ IsSuperTokensEnabled(mode)
    /\ got' = [got EXCEPT ![l] = IF mapped[Player[l]] THEN "ext" ELSE "st"]
    /\ Goto(l, "lock")
    /\ UNCHANGED <<dbVars, mapped, mode, holder, wanted, candidate, record, browserVars,
                   restarts, choices, tries, clashed, faulted, chosen>>

WithUserLock(l) ==
    /\ pc[l] = "lock"
    /\ holder[Player[l]] = None
    /\ holder' = [holder EXCEPT ![Player[l]] = l]
    /\ Goto(l, "resolve")
    /\ UNCHANGED <<dbVars, mapped, mode, loginVars, browserVars,
                   restarts, choices, tries, clashed, faulted, chosen>>

Release(l) == holder' = [holder EXCEPT ![Player[l]] = IF @ = l THEN None ELSE @]

\* resolveExternalUserId: a known identity is not written to.
ResolveExternalUserId(l) ==
    /\ pc[l] = "resolve"
    /\ IF identity[Player[l]] # "absent"
       THEN Goto(l, "link") /\ Release(l)
       ELSE Goto(l, "find") /\ UNCHANGED holder
    /\ UNCHANGED <<dbVars, mapped, mode, loginVars, browserVars,
                   restarts, choices, tries, clashed, faulted, chosen>>

\* upsertUser, first statement.
FindIdentity(l) ==
    /\ pc[l] = "find"
    /\ Goto(l, IF identity[Player[l]] = "absent" THEN "insert" ELSE "existing")
    /\ wanted' = [wanted EXCEPT ![l] = Supplied[l]]
    /\ UNCHANGED <<dbVars, mapped, mode, holder, got, candidate, record, browserVars,
                   restarts, choices, tries, clashed, faulted, chosen>>

\* Mutant. The provider's name replaces a custom one.
ReadProfile(l) ==
    /\ pc[l] = "existing"
    /\ wanted' = [wanted EXCEPT ![l] = Supplied[l]]
    /\ Goto(l, "update")
    /\ UNCHANGED <<dbVars, mapped, mode, holder, got, candidate, record, browserVars,
                   restarts, choices, tries, clashed, faulted, chosen>>

\* The row is read: a custom username is kept, the provider's replaces others.
ReadExisting(l) ==
    /\ pc[l] = "existing"
    /\ wanted' = [wanted EXCEPT ![l] = IF custom[Player[l]] THEN username[Player[l]]
                                       ELSE Supplied[l]]
    /\ Goto(l, "update")
    /\ UNCHANGED <<dbVars, mapped, mode, holder, got, candidate, record, browserVars,
                   restarts, choices, tries, clashed, faulted, chosen>>

\* What upsertUser returns to: the override, which holds the lock, goes on to the
\* core; the callback answers with a JWT cookie.
Upserted(l) ==
    IF holder[Player[l]] = l
    THEN Goto(l, "link") /\ Release(l) /\ UNCHANGED jwt
    ELSE Goto(l, "done") /\ jwt' = [jwt EXCEPT ![Player[l]] = TRUE] /\ UNCHANGED holder

\* The UPDATE of a returning player's row, or 23505.
UpdateUser(l) ==
    /\ pc[l] = "update"
    /\ IF TakenByOther(wanted[l], Player[l])
       THEN /\ clashed' = [clashed EXCEPT ![l] = TRUE]
            /\ candidate' = [candidate EXCEPT ![l] = wanted[l]]
            /\ Goto(l, "rename")
            /\ UNCHANGED <<username, holder, jwt>>
       ELSE /\ username' = [username EXCEPT ![Player[l]] = wanted[l]]
            /\ Upserted(l)
            /\ UNCHANGED <<clashed, candidate>>
    /\ UNCHANGED <<custom, identity, mapped, mode, got, wanted, record, session,
                   restarts, choices, tries, faulted, chosen>>

\* Mutant. Any refusal of the insert is read as a username collision.
InsertMisread(l) ==
    /\ pc[l] = "insert"
    /\ IF username[Player[l]] # None \/ TakenByOther(wanted[l], Player[l])
       THEN /\ candidate' = [candidate EXCEPT ![l] = wanted[l]]
            /\ clashed' = [clashed EXCEPT ![l] = TakenByOther(wanted[l], Player[l])]
            /\ Goto(l, "suffix")
            /\ UNCHANGED <<username, identity, holder, jwt>>
       ELSE /\ username' = [username EXCEPT ![Player[l]] = wanted[l]]
            /\ identity' = [identity EXCEPT ![Player[l]] = "null"]
            /\ Upserted(l)
            /\ UNCHANGED <<candidate, clashed>>
    /\ UNCHANGED <<custom, mapped, mode, got, wanted, record, session,
                   restarts, choices, tries, faulted, chosen>>

\* insertUserAndIdentity, one transaction: users_pkey is checked before the
\* name index.
InsertUserAndIdentity(l) ==
    /\ pc[l] = "insert"
    /\ \/ /\ username[Player[l]] # None
          /\ Goto(l, "adopt")
          /\ UNCHANGED <<username, identity, holder, jwt, candidate, clashed>>
       \/ /\ username[Player[l]] = None
          /\ TakenByOther(wanted[l], Player[l])
          /\ clashed' = [clashed EXCEPT ![l] = TRUE]
          /\ candidate' = [candidate EXCEPT ![l] = wanted[l]]
          /\ Goto(l, "suffix")
          /\ UNCHANGED <<username, identity, holder, jwt>>
       \/ /\ username[Player[l]] = None
          /\ ~ TakenByOther(wanted[l], Player[l])
          /\ username' = [username EXCEPT ![Player[l]] = wanted[l]]
          /\ identity' = [identity EXCEPT ![Player[l]] = "null"]
          /\ Upserted(l)
          /\ UNCHANGED <<candidate, clashed>>
    /\ UNCHANGED <<custom, mapped, mode, got, wanted, record, session,
                   restarts, choices, tries, faulted, chosen>>

\* The winner of a first-login race, or a row restored without its identity.
AdoptWinner(l) ==
    /\ pc[l] = "adopt"
    /\ identity' = [identity EXCEPT ![Player[l]] = IF @ = "absent" THEN "null" ELSE @]
    /\ Upserted(l)
    /\ UNCHANGED <<username, custom, mapped, mode, loginVars, session,
                   restarts, choices, tries, clashed, faulted, chosen>>

\* findAvailableUsername: one query for one candidate.
IsTaken(l) ==
    IF pc[l] = "rename" THEN TakenByOther(candidate[l], Player[l]) ELSE Taken(candidate[l])

FindAvailableUsername(l) ==
    /\ pc[l] \in {"rename", "suffix"}
    /\ IF IsTaken(l)
       THEN /\ candidate' = [candidate EXCEPT ![l] =
                               IF @ = wanted[l] THEN Suffixed(wanted[l], 2) ELSE @ + 1]
            /\ UNCHANGED pc
       ELSE /\ Goto(l, IF pc[l] = "rename" THEN "update2" ELSE "insert2")
            /\ UNCHANGED candidate
    /\ UNCHANGED <<dbVars, mapped, mode, holder, got, wanted, record, browserVars,
                   restarts, choices, tries, clashed, faulted, chosen>>

\* The one retry; a second refusal is the login's failure.
Retry(l) ==
    /\ pc[l] \in {"update2", "insert2"}
    /\ \/ /\ TakenByOther(candidate[l], Player[l]) \/ (pc[l] = "insert2" /\ username[Player[l]] # None)
          /\ Goto(l, "failed")
          /\ Release(l)
          /\ UNCHANGED <<username, identity, jwt>>
       \/ /\ ~ TakenByOther(candidate[l], Player[l])
          /\ pc[l] = "insert2" => username[Player[l]] = None
          /\ username' = [username EXCEPT ![Player[l]] = candidate[l]]
          /\ identity' = [identity EXCEPT ![Player[l]] = IF pc[l] = "insert2" THEN "null" ELSE @]
          /\ Upserted(l)
    /\ UNCHANGED <<custom, mapped, mode, loginVars, session,
                   restarts, choices, tries, clashed, faulted, chosen>>

\* Mutant. The override answers before the mapping is made.
LinkLater(l) ==
    /\ pc[l] = "link"
    /\ Goto(l, "session")
    /\ UNCHANGED <<dbVars, mapped, mode, holder, loginVars, browserVars,
                   restarts, choices, tries, clashed, faulted, chosen>>

\* linkExternalUserId: getUserIdMapping names the core's own id.
GetUserIdMapping(l) ==
    /\ pc[l] = "link"
    /\ record' = [record EXCEPT ![l] = IF mapped[Player[l]] THEN "st" ELSE got[l]]
    /\ Goto(l, IF mapped[Player[l]] THEN "record" ELSE "create")
    /\ UNCHANGED <<dbVars, mapped, mode, holder, got, wanted, candidate, browserVars,
                   restarts, choices, tries, clashed, faulted, chosen>>

\* createUserIdMapping, and the second look of who lost the race to create it.
CreateUserIdMapping(l) ==
    /\ pc[l] = "create"
    /\ mapped' = [mapped EXCEPT ![Player[l]] = TRUE]
    /\ Goto(l, IF mapped[Player[l]] THEN "raced" ELSE "record")
    /\ UNCHANGED <<dbVars, mode, holder, loginVars, browserVars,
                   restarts, choices, tries, clashed, faulted, chosen>>

Raced(l) ==
    /\ pc[l] = "raced"
    /\ record' = [record EXCEPT ![l] = "st"]
    /\ Goto(l, "record")
    /\ UNCHANGED <<dbVars, mapped, mode, holder, got, wanted, candidate, browserVars,
                   restarts, choices, tries, clashed, faulted, chosen>>

\* A missing identity row is a silent no-op.
SetSupertokensUserId(l) ==
    /\ pc[l] = "record"
    /\ identity' = [identity EXCEPT ![Player[l]] = IF @ = "absent" THEN @ ELSE record[l]]
    /\ Goto(l, "session")
    /\ UNCHANGED <<username, custom, mapped, mode, holder, loginVars, browserVars,
                   restarts, choices, tries, clashed, faulted, chosen>>

\* The API layer creates the session after signInUp returned.
CreateSession(l) ==
    /\ pc[l] = "session"
    /\ session' = [session EXCEPT ![Player[l]] = IF mapped[Player[l]] THEN "ext" ELSE "st"]
    /\ Goto(l, "done")
    /\ UNCHANGED <<dbVars, mapped, mode, holder, loginVars, jwt,
                   restarts, choices, tries, clashed, faulted, chosen>>

InFlight(l) == pc[l] \notin {"idle", "done", "failed"}

\* Mutant. The lock is released only by a fn that returns.
FailHolding(l) ==
    /\ InFlight(l)
    /\ Goto(l, "failed")
    /\ faulted' = [faulted EXCEPT ![l] = TRUE]
    /\ UNCHANGED <<dbVars, mapped, mode, holder, loginVars, browserVars,
                   restarts, choices, tries, clashed, chosen>>

\* A statement or a core call rejects: the login fails, the lock is released.
Fail(l) ==
    /\ InFlight(l)
    /\ Goto(l, "failed")
    /\ faulted' = [faulted EXCEPT ![l] = TRUE]
    /\ Release(l)
    /\ UNCHANGED <<dbVars, mapped, mode, loginVars, browserVars,
                   restarts, choices, tries, clashed, chosen>>

\* The process stops and comes up with some AUTH_MODE, or not at all.
Restart(m, env, core) ==
    /\ restarts < MaxRestarts
    /\ restarts' = restarts + 1
    /\ mode' = IF InitSuperTokens(m, env, core) THEN m ELSE None
    /\ pc' = [l \in Logins |-> IF InFlight(l) THEN "failed" ELSE pc[l]]
    /\ faulted' = [l \in Logins |-> faulted[l] \/ InFlight(l)]
    /\ holder' = [p \in Players |-> None]
    /\ UNCHANGED <<dbVars, mapped, loginVars, browserVars, choices, tries, clashed, chosen>>

\* A login of p between reading its row and writing it.
Reading(p) == \E l \in Logins : Player[l] = p /\ pc[l] \in {"update", "rename", "update2"}

\* PUT /api/me/username: the check and the write, whose index has the last word.
SetUsername(p, name) ==
    /\ username[p] # None /\ mode # None
    /\ choices < MaxChoices
    /\ choices' = choices + 1
    /\ ~ TakenByOther(name, p)
    /\ username' = [username EXCEPT ![p] = name]
    /\ custom' = [custom EXCEPT ![p] = TRUE]
    /\ chosen' = [chosen EXCEPT ![p] = IF Reading(p) THEN None ELSE name]
    /\ UNCHANGED <<identity, mapped, mode, holder, pc, loginVars, browserVars,
                   restarts, tries, clashed, faulted>>

\* POST /auth/logout: the cookie always, the session when this process can.
Logout(p) ==
    /\ mode # None
    /\ jwt[p] \/ session[p] # None
    /\ jwt' = [jwt EXCEPT ![p] = FALSE]
    /\ session' = IF IsSuperTokensEnabled(mode) THEN [session EXCEPT ![p] = None] ELSE session
    /\ UNCHANGED <<dbVars, mapped, mode, holder, pc, loginVars,
                   restarts, choices, tries, clashed, faulted, chosen>>

Proceed(l) ==
    \/ WithUserLock(l) \/ ResolveExternalUserId(l)
    \/ FindIdentity(l) \/ ReadExisting(l) \/ UpdateUser(l)
    \/ InsertUserAndIdentity(l) \/ AdoptWinner(l)
    \/ FindAvailableUsername(l) \/ Retry(l)
    \/ GetUserIdMapping(l) \/ CreateUserIdMapping(l) \/ Raced(l)
    \/ SetSupertokensUserId(l) \/ CreateSession(l)

Next ==
    \/ \E l \in Logins : TryAgain(l) \/ PassportCallback(l) \/ SignInUp(l) \/ Proceed(l) \/ Fail(l)
    \/ \E m \in Modes, env \in Environments, core \in Cores : Restart(m, env, core)
    \/ \E p \in Players : Logout(p) \/ \E name \in Chosen : SetUsername(p, name)

\* A login under way is carried on by Node; a lock is granted in order, so a
\* login that waits for one gets it.
Spec == Init /\ [][Next]_vars /\ \A l \in Logins : WF_vars(Proceed(l))

-----------------------------------------------------------------------------

TypeOK ==
    /\ username \in [Players -> Nat \cup {None}]
    /\ custom \in [Players -> BOOLEAN]
    /\ identity \in [Players -> {"absent", "null", "st", "ext"}]
    /\ mapped \in [Players -> BOOLEAN]
    /\ mode \in Modes \cup {None}
    /\ holder \in [Players -> Logins \cup {None}]
    /\ pc \in [Logins -> {"idle", "lock", "resolve", "find", "existing", "update", "rename",
                          "update2", "insert", "adopt", "suffix", "insert2", "link", "create",
                          "raced", "record", "session", "done", "failed"}]
    /\ got \in [Logins -> {"st", "ext"}]
    /\ wanted \in [Logins -> Nat]
    /\ candidate \in [Logins -> Nat]
    /\ record \in [Logins -> {"st", "ext"}]
    /\ jwt \in [Players -> BOOLEAN]
    /\ session \in [Players -> {None, "st", "ext"}]
    /\ clashed \in [Logins -> BOOLEAN]
    /\ faulted \in [Logins -> BOOLEAN]
    /\ chosen \in [Players -> Nat \cup {None}]

\* A session whose id is no row of users authenticates nobody.
UserFromSuperTokens(p) ==
    IF IsSuperTokensEnabled(mode) /\ session[p] = "ext" /\ username[p] # None
    THEN session[p] ELSE None

\* The session first; then the cookie, in every mode.  "ext" is users.id.
RequireAuth(p) ==
    IF UserFromSuperTokens(p) # None THEN UserFromSuperTokens(p)
    ELSE IF jwt[p] THEN "ext" ELSE None

\* What identities records is the core's id of the player, never our own id
\* that the core translated it to, and only once the core has the mapping.
IdentityFinds(p) == identity[p] = "null" \/ (identity[p] = "st" /\ mapped[p])

\* Whatever failed, raced or restarted, a credential this process can read
\* opens the player's own save, and the next login will find the row it names:
\* there is an identity, under the core's own id if the core is to find it.
SessionOpensTheSave ==
    \A p \in Players : jwt[p] \/ (session[p] # None /\ IsSuperTokensEnabled(mode)) =>
        RequireAuth(p) = "ext" /\ username[p] # None /\ IdentityFinds(p)

\* A login fails because a call failed, or because its name was another
\* player's; never because the same player was logging in a second time.
RaceFailsNobody ==
    \A l \in Logins : pc[l] = "failed" => faulted[l] \/ clashed[l]

\* A username the player set survives logins, and their renaming, unless one
\* had read the row when it was set.
ChosenNameKept == \A p \in Players : chosen[p] # None => username[p] = chosen[p]

\* A login that is under way ends: no lock is left behind by one that failed.
LoginsEnd == \A l \in Logins : pc[l] = "lock" ~> pc[l] \in {"done", "failed"}

=============================================================================
