------------------------------- MODULE Cutover -------------------------------
(***************************************************************************)
(* The two gates an operator passes before AUTH_MODE=dual: the preflight   *)
(* (npm run supertokens:check) asks of the deployment, the audit           *)
(* (npm run shadow:check) of the stored identities.  Each is a process of  *)
(* its own beside the running server: between any two of the preflight's   *)
(* requests, and between a gate and the restart it clears, the environment *)
(* and the core may change, players may log in, a backup may be restored.  *)
(* A user id is the login (provider:providerId) that first made the row.   *)
(***************************************************************************)
EXTENDS SuperTokensBoot

CONSTANTS
    Accounts,      \* the pairs of provider and provider id
    Deployments,   \* the pairs of an environment and a core an operator sets up
    Databases,     \* the database files an operator starts from or restores
    MaxChanges     \* bound: changes of the deployment, and restores

Database == [present: BOOLEAN, split: BOOLEAN, users: SUBSET Accounts,
             identity: [Accounts -> Accounts \cup {None}]]

ASSUME CutoverAssumption ==
    /\ MaxChanges \in Nat
    /\ Databases \subseteq Database
    /\ None \notin Accounts
    /\ "failed" \notin Accounts \cup {None}
    /\ None # 200

VARIABLES
    env,       \* the environment the next process is started with
    core,
    db,        \* "postgres" and "sqlite": [present, split, users, identity]
    authMode,  \* AUTH_MODE of the running server, None when its boot was refused
    serving,   \* the environment the running server was started with
    at,        \* the request the preflight makes next
    given,     \* the environment the preflight was started with
    check,     \* its results
    exit,      \* the audit's exit: "none", "cleared", "blocked" or "broken"
    audited,   \* the database the audit read, None when it was restored since
    valid,     \* since the preflight was started no request of it failed by itself,
               \* the deployment did not change, and Postgres did not come or go
    changes

deploymentVars == <<env, core>>
preflightVars == <<at, given, check, valid>>
auditVars == <<exit, audited>>
serverVars == <<authMode, serving>>
cutoverVars == <<deploymentVars, db, serverVars, preflightVars, auditVars, changes>>

Checks == {"uri", "origin", "providers", "reachable",
           "anonymous", "protocol", "key", "database"}
NotRun == [c \in Checks |-> "none"]

\* The database a process of an environment opens.
Source(e) == IF "DATABASE_URL" \in e THEN "postgres" ELSE "sqlite"

CutoverInit ==
    /\ \E d \in Deployments : env = d[1] /\ core = d[2]
    /\ \E d \in Databases : db = [s \in {"postgres", "sqlite"} |-> d]
    /\ authMode = "passport"
    /\ serving = env
    /\ at = "idle"
    /\ given = {}
    /\ check = NotRun
    /\ exit = "none"
    /\ audited = None
    /\ valid = FALSE
    /\ changes = 0

-----------------------------------------------------------------------------
(* The preflight.                                                          *)

PassOr(status, holds) == IF holds THEN "PASS" ELSE status

\* What needs no request; without a URI nothing else is asked.
CheckEnvironment ==
    /\ at \in {"idle", "done"}
    /\ given' = env
    /\ valid' = TRUE
    /\ IF "SUPERTOKENS_CONNECTION_URI" \in env
       THEN /\ check' = [NotRun EXCEPT
                  !["uri"] = "PASS",
                  !["origin"] = PassOr("FAIL", ResolvePublicOrigin(env)),
                  !["providers"] = PassOr("FAIL", BuildProviders(env) # {})]
            /\ at' = "reachable"
       ELSE /\ check' = [NotRun EXCEPT !["uri"] = "FAIL"]
            /\ at' = "done"
    /\ UNCHANGED <<deploymentVars, db, serverVars, auditVars, changes>>

\* One request of the preflight: its result is status, or onThrow when the
\* core is down or the request times out.
Request(name, status, onThrow, next) ==
    /\ at = name
    /\ \/ /\ core.health # "down"
          /\ check' = [check EXCEPT ![name] = status]
          /\ UNCHANGED valid
       \/ /\ check' = [check EXCEPT ![name] = onThrow]
          /\ valid' = (valid /\ core.health = "down")
    /\ at' = IF check'["reachable"] = "PASS" THEN next ELSE "done"
    /\ UNCHANGED <<deploymentVars, db, serverVars, auditVars, given, changes>>

CheckReachable ==
    Request("reachable", PassOr("FAIL", core.health = "up"), "FAIL", "anonymous")

\* Refused is a pass, 200 an open core; every other answer says nothing.
CheckAnonymous ==
    LET anon == ProbeAuthedEndpoint(core, None)
    IN  Request("anonymous",
                IF IsRefused(anon) THEN "PASS" ELSE IF anon = 200 THEN "FAIL" ELSE "WARN",
                "WARN", "protocol")

\* Mutant. The two sets of versions are only compared for being reported.
CheckProtocolReported ==
    Request("protocol", PassOr("WARN", Offered(core) # {}), "WARN", "key")

CheckProtocol ==
    Request("protocol",
            IF Offered(core) = {} THEN "WARN"
            ELSE PassOr("FAIL", Offered(core) \cap CdiSupported # {}),
            "WARN", "key")

\* Mutant. That there is a key is enough.
CheckKeyIsSet ==
    /\ ApiKey(given) # None
    /\ Request("key", "PASS", "WARN", "database")

\* Without a key there is nothing to try: tolerated on loopback.
KeyIsMissing ==
    /\ at = "key"
    /\ ApiKey(given) = None
    /\ check' = [check EXCEPT !["key"] = IF IsLoopback(given) THEN "WARN" ELSE "FAIL"]
    /\ at' = "database"
    /\ UNCHANGED <<deploymentVars, db, serverVars, auditVars, given, valid, changes>>

CheckKey ==
    LET authed == ProbeAuthedEndpoint(core, ApiKey(given))
    IN  /\ ApiKey(given) # None
        /\ Request("key",
                   IF authed = 200 THEN "PASS" ELSE IF IsRefused(authed) THEN "FAIL" ELSE "WARN",
                   "WARN", "database")

\* The core writes its tables where its own database is; only Postgres is asked.
CheckOwnDatabase ==
    /\ at = "database"
    /\ Source(given) = "postgres"
    /\ \/ /\ db["postgres"].present
          /\ check' = [check EXCEPT !["database"] = PassOr("FAIL", core.tables # "ours")]
          /\ UNCHANGED valid
       \/ /\ check' = [check EXCEPT !["database"] = "WARN"]
          /\ valid' = (valid /\ ~ db["postgres"].present)
    /\ at' = "done"
    /\ UNCHANGED <<deploymentVars, db, serverVars, auditVars, given, changes>>

NoDatabaseToCheck ==
    /\ at = "database"
    /\ Source(given) # "postgres"
    /\ at' = "done"
    /\ UNCHANGED <<deploymentVars, db, serverVars, auditVars,
                   given, check, valid, changes>>

Preflight ==
    \/ CheckEnvironment \/ CheckReachable \/ CheckAnonymous \/ CheckProtocol
    \/ KeyIsMissing \/ CheckKey \/ CheckOwnDatabase \/ NoDatabaseToCheck

PreflightPassed == at = "done" /\ \A c \in Checks : check[c] # "FAIL"

-----------------------------------------------------------------------------
(* The audit.                                                              *)

\* Mutant. The rows are found through the users they belong to.
AuditRowsOfUsers(d) ==
    {[login |-> l, user |-> d.identity[l], exists |-> TRUE] :
        l \in {k \in Accounts : d.identity[k] \in d.users}}

\* Every identity row, LEFT JOINed to its user.
AuditRows(d) ==
    {[login |-> l, user |-> d.identity[l], exists |-> d.identity[l] \in d.users] :
        l \in {k \in Accounts : d.identity[k] # None}}

ClassifyIdentityRow(row) ==
    IF ~ row.exists THEN "orphan" ELSE IF row.user = row.login THEN "match" ELSE "mismatch"

\* summarise(...).passed: something was compared, and nothing failed.
Summarise(outcomes) == outcomes # {} /\ outcomes \subseteq {"match"}

AuditStoredIdentities(d) == {ClassifyIdentityRow(row) : row \in AuditRows(d)}

\* A file that is missing, or older than the identities table, is an error.
ReadAllIdentities(d) == d.present /\ d.split

\* shadow:check: one SELECT, then the exit code.
Audit ==
    LET d == db[Source(env)]
    IN  /\ exit' = IF ~ ReadAllIdentities(d) THEN "broken"
                   ELSE IF Summarise(AuditStoredIdentities(d)) THEN "cleared" ELSE "blocked"
        /\ audited' = Source(env)
        /\ UNCHANGED <<deploymentVars, db, serverVars, preflightVars, changes>>

-----------------------------------------------------------------------------
(* The server, its players and its operator.                               *)

NoRows == [present |-> TRUE, split |-> TRUE, users |-> {}, identity |-> [l \in Accounts |-> None]]

\* applySchema of either driver: a missing SQLite file is made, and a database of
\* before the identities table is split, everybody under their own login.
ApplySchema(d) ==
    IF ~ d.present THEN NoRows
    ELSE IF d.split THEN d
    ELSE [d EXCEPT !.split = TRUE,
                   !.identity = [l \in Accounts |-> IF l \in d.users THEN l ELSE None]]

\* There is a SQLite file beside a Postgres without users.
MayCopy == db["sqlite"].present /\ ApplySchema(db["postgres"]) = NoRows

\* Postgres takes no identity without its user.
CanCopy(d) == \A l \in Accounts : d.identity[l] # None => d.identity[l] \in d.users

\* maybeAutoMigrate (a process of its own in Migration), and the driver.
OpenDatabase(s) ==
    /\ s = "postgres" => db[s].present
    /\ \/ db' = [db EXCEPT ![s] = ApplySchema(db[s])]
       \/ /\ s = "postgres" /\ MayCopy
          /\ CanCopy(ApplySchema(db["sqlite"]))
          /\ db' = [db EXCEPT ![s] = ApplySchema(db["sqlite"])]

\* A Postgres that cannot be reached, a copy that fails and is rolled back, or a
\* SQLite file whose split would leave rows without their user.
DatabaseRefused(s) ==
    \/ s = "postgres" /\ ~ db[s].present /\ UNCHANGED db
    \/ s = "postgres" /\ db[s].present /\ MayCopy /\ db' = [db EXCEPT ![s] = NoRows]
    \/ s = "sqlite" /\ db[s].present /\ ~ db[s].split /\ UNCHANGED db

\* buildApp: a core that is known to be unfit ends the boot.
BuildApp(m) == authMode' = IF InitSuperTokens(m, env, core) THEN m ELSE None

\* The server is restarted in some AUTH_MODE: its database first, then the core.
Boot(m) ==
    /\ serving' = env
    /\ \/ OpenDatabase(Source(env)) /\ BuildApp(m)
       \/ DatabaseRefused(Source(env)) /\ authMode' = None
    /\ UNCHANGED <<deploymentVars, preflightVars, auditVars, changes>>

\* upsertUser: a login nobody knows makes its own row, and its identity.
UpsertUser(s, l) ==
    db' = [db EXCEPT ![s].users = @ \cup {l}, ![s].identity[l] = l]

Open(s) == db[s].present /\ db[s].split

\* A first login through passport; a later one changes nothing told apart here.
PassportLogin(l) ==
    LET s == Source(serving)
    IN  /\ authMode # None /\ IsPassportEnabled(authMode)
        /\ Open(s) /\ db[s].identity[l] = None
        /\ UpsertUser(s, l)
        /\ UNCHANGED <<deploymentVars, serverVars, preflightVars, auditVars, changes>>

\* What every request of the SDK to the core needs.
CoreServes(e) ==
    /\ core.health = "up"
    /\ core.keys = {} \/ ApiKey(e) \in core.keys
    /\ core.versions \cap CdiSupported # {}

\* Where a SuperTokens login ends: a known identity names its user, whatever
\* its shape; requireAuth refuses a session whose id is no row.
LandsOn(l) ==
    LET d == db[Source(serving)]
        user == IF d.identity[l] = None THEN l ELSE d.identity[l]
    IN  IF ~ CoreServes(serving) THEN "failed"
        ELSE IF d.identity[l] = None \/ user \in d.users THEN user ELSE "refused"

SuperTokensEnabled == authMode # None /\ IsSuperTokensEnabled(authMode) /\ Open(Source(serving))

\* A first login through SuperTokens.
SuperTokensLogin(l) ==
    LET s == Source(serving)
    IN  /\ SuperTokensEnabled
        /\ db[s].identity[l] = None /\ CoreServes(serving)
        /\ UpsertUser(s, l)
        /\ UNCHANGED <<deploymentVars, serverVars, preflightVars, auditVars, changes>>

\* The operator edits the environment, or replaces or reconfigures the core.
ChangeDeployment(e, c) ==
    /\ changes < MaxChanges
    /\ changes' = changes + 1
    /\ env' = e
    /\ core' = c
    /\ valid' = FALSE
    /\ UNCHANGED <<db, serverVars, at, given, check, auditVars>>

Restore(s, d) ==
    /\ changes < MaxChanges
    /\ changes' = changes + 1
    /\ db' = [db EXCEPT ![s] = d]
    /\ audited' = IF s = audited THEN None ELSE audited
    /\ valid' = (valid /\ (s = "postgres" => d.present = db[s].present))
    /\ UNCHANGED <<deploymentVars, serverVars, at, given, check, exit>>

CutoverNext ==
    \/ Preflight
    \/ Audit
    \/ \E m \in Modes : Boot(m)
    \/ \E l \in Accounts : PassportLogin(l) \/ SuperTokensLogin(l)
    \/ \E d \in Deployments : ChangeDeployment(d[1], d[2])
    \/ \E s \in DOMAIN db, d \in Databases : Restore(s, d)

CutoverSpec == CutoverInit /\ [][CutoverNext]_cutoverVars

-----------------------------------------------------------------------------

\* The preflight asked of the deployment as it still is, and was answered.
StillAsChecked == PreflightPassed /\ valid

\* The preflight reached the Postgres the boot will open (it only warns when it
\* does not), and no file is left to be copied or to be split.
DatabaseAnswered ==
    IF Source(env) = "postgres" THEN check["database"] = "PASS" /\ ~ MayCopy
    ELSE db["sqlite"].present => db["sqlite"].split

\* A boot in dual or supertokens that the preflight cleared is not refused, by
\* the core or by the database, if the preflight itself reached that database.
ClearedBootIsNotRefused ==
    [][\A m \in Modes : Boot(m) /\ StillAsChecked /\ DatabaseAnswered => authMode' = m]_cutoverVars

\* A preflight without a warning promises more: the logins get through to the
\* core, not only the boot.
CleanPreflightLogsIn ==
    /\ SuperTokensEnabled /\ serving = env
    /\ StillAsChecked
    /\ "WARN" \notin {check[c] : c \in Checks}
    => \A l \in Accounts : LandsOn(l) # "failed"

\* Once the audit cleared a database, everybody who logs in through SuperTokens
\* lands on the row of their own id, however many joined since, until another
\* backup is restored or the server opens another database; and it did compare
\* somebody.
ClearedAuditKeepsSaves ==
    exit = "cleared" /\ audited # None =>
        /\ \E l \in Accounts : db[audited].identity[l] # None
        /\ SuperTokensEnabled /\ Source(serving) = audited
           => \A l \in Accounts : LandsOn(l) \in {l, "failed"}

=============================================================================
