------------------------------ MODULE Migration ------------------------------
(***************************************************************************)
(* Booting the server: maybeAutoMigrate, the one-shot copy of the SQLite   *)
(* file into Postgres, the schema upgrades both drivers run, and what the  *)
(* boot seeds before it listens.                                           *)
(*                                                                         *)
(* Several processes may boot, crash and boot again, with DATABASE_URL set *)
(* (Postgres) or not (SQLite, whose server goes on writing the file).  One *)
(* await is one action.  The contents of a table are a version: 0 is an    *)
(* empty or missing table, Own is rows that Postgres servers wrote.        *)
(***************************************************************************)
EXTENDS Naturals, Sequences, SequencesExt

CONSTANTS
    Procs,
    TABLES,      \* the order the migrator walks its tables in
    WriteSets,   \* the tables one request of a SQLite server writes together
    Seeded,      \* the table every boot seeds (live_events)
    MaxWrites,   \* bound: requests the SQLite servers answer
    MaxBoots,    \* bound: boots, crashes and failures included
    Own

Table == ToSet(TABLES)

ASSUME TableAssumption ==
    /\ TABLES \in Seq(Table)
    /\ {"users", "identities", Seeded} \subseteq Table /\ Seeded \notin {"users", "identities"}
    /\ WriteSets \subseteq SUBSET Table
    /\ \A ts \in WriteSets : "users" \in ts => "identities" \in ts   \* upsertUser
ASSUME BoundAssumption == MaxWrites \in Nat /\ MaxBoots \in Nat
ASSUME OwnAssumption == Own \notin Nat

VARIABLES
    shape,      \* the SQLite file: absent, legacy, half (legacy with an empty
                \* identities table), modern, or unknown (a table too many)
    source,     \* the contents of its tables
    past,       \* every contents the file has had
    writes,     \* requests answered by SQLite servers
    target,     \* the committed contents of the Postgres tables
    pgColumns,  \* users still has provider and provider_id in Postgres
    pc, url, file, at, tx, legacy, synthesized,  \* of each booting process
    boots,      \* boots so far
    blind,      \* a boot on Postgres found no players in a SQLite file
    halfRead    \* a migration took the identities of a half-split file

fileVars == <<shape, source, past, writes>>
pgVars == <<target, pgColumns>>
ghosts == <<boots, blind, halfRead>>
migrationVars == <<fileVars, pgVars, pc, url, file, at, tx, legacy, synthesized, ghosts>>

Empty == [t \in Table |-> 0]

\* sourceIdentityRows: an old-shape source has its identities in users.
SourceRows(t) ==
    IF t = "identities" /\ shape = "legacy" THEN source["users"] ELSE source[t]

Contents == [t \in Table |-> SourceRows(t)]

TableExists(t) == ~ (t = "identities" /\ shape = "legacy")

MigrationInit ==
    /\ shape \in {"absent", "legacy", "modern", "unknown"}
    /\ source \in {c \in [Table -> 0..1] :
                     /\ shape = "absent" => c = Empty
                     /\ c["identities"] = IF shape = "legacy" THEN 0 ELSE c["users"]}
    /\ past = {Contents}
    /\ writes = 0
    /\ pgColumns \in BOOLEAN
    /\ target = [Empty EXCEPT !["users"] = IF pgColumns THEN Own ELSE 0]
    /\ pc = [p \in Procs |-> "down"]
    /\ url = [p \in Procs |-> FALSE]
    /\ file = [p \in Procs |-> FALSE]
    /\ at = [p \in Procs |-> 1]
    /\ tx = [p \in Procs |-> Empty]
    /\ legacy = [p \in Procs |-> FALSE]
    /\ synthesized = [p \in Procs |-> 0]
    /\ boots = 0
    /\ blind = pgColumns
    /\ halfRead = FALSE

-----------------------------------------------------------------------------

Goto(p, l) == pc' = [pc EXCEPT ![p] = l]

\* The operator starts a container, with or without DATABASE_URL.
Boot(p, withUrl) ==
    /\ pc[p] = "down"
    /\ boots < MaxBoots
    /\ boots' = boots + 1
    /\ url' = [url EXCEPT ![p] = withUrl]
    /\ Goto(p, "probe")
    /\ UNCHANGED <<fileVars, pgVars, file, at, tx, legacy, synthesized, blind, halfRead>>

\* DATABASE_URL is unset.  The facade opens the file and applySchema creates
\* the identities table, in a statement of its own.
CreateIdentities(p) ==
    /\ pc[p] = "probe"
    /\ ~ url[p]
    /\ shape' = CASE shape = "absent" -> "modern"
                  [] shape = "legacy" -> "half"
                  [] OTHER -> shape
    /\ past' = past \cup {source}
    /\ Goto(p, "rebuild")
    /\ UNCHANGED <<source, writes, pgVars, url, file, at, tx, legacy, synthesized, ghosts>>

\* One SQLite transaction moves the login methods out of users; the boot then
\* seeds and listens.
RebuildUsers(p) ==
    /\ pc[p] = "rebuild"
    /\ shape' = IF shape = "half" THEN "modern" ELSE shape
    /\ source' = [t \in Table |->
                     IF t = Seeded /\ source[t] = 0 THEN 1
                     ELSE IF t = "identities" /\ shape = "half" THEN source["users"]
                     ELSE source[t]]
    /\ past' = past \cup {source'}
    /\ Goto(p, "serving")
    /\ UNCHANGED <<writes, pgVars, url, file, at, tx, legacy, synthesized, ghosts>>

SqliteWrite(p, ts) ==
    /\ pc[p] = "serving" /\ ~ url[p]
    /\ writes < MaxWrites
    /\ writes' = writes + 1
    /\ source' = [t \in Table |-> IF t \in ts THEN source[t] + 1 ELSE source[t]]
    /\ past' = past \cup {source'}
    /\ UNCHANGED <<shape, pgVars, pc, url, file, at, tx, legacy, synthesized, ghosts>>

\* maybeAutoMigrate's two early returns, and the first line of the migration.
MaybeAutoMigrate(p) ==
    /\ pc[p] = "probe"
    /\ url[p]
    /\ file' = [file EXCEPT ![p] = shape # "absent"]
    /\ blind' = (blind \/ source["users"] = 0)
    /\ Goto(p, "schema")
    /\ UNCHANGED <<fileVars, pgVars, url, at, tx, legacy, synthesized, boots, halfRead>>

\* Mutant. The columns go before what is in them is kept.
DropColumnsFirst(p) ==
    /\ pc[p] = "schema"
    /\ pgColumns' = FALSE
    /\ Goto(p, "drop")
    /\ UNCHANGED <<fileVars, target, url, file, at, tx, legacy, synthesized, ghosts>>

\* migrateIdentities of Postgres, its first statement: an identity for every
\* user whose provider is still a column.
BackfillIdentities(p) ==
    /\ pc[p] = "schema"
    /\ target' = IF pgColumns /\ target["identities"] = 0
                 THEN [target EXCEPT !["identities"] = target["users"]] ELSE target
    /\ Goto(p, "drop")
    /\ UNCHANGED <<fileVars, pgColumns, url, file, at, tx, legacy, synthesized, ghosts>>

\* Its second statement, then the emptiness check or, with no file, the seeds.
DropColumns(p) ==
    /\ pc[p] = "drop"
    /\ pgColumns' = FALSE
    /\ at' = [at EXCEPT ![p] = 1]
    /\ Goto(p, IF file[p] THEN "empty" ELSE "seed")
    /\ UNCHANGED <<fileVars, target, url, file, tx, legacy, synthesized, ghosts>>

Past(p) == at[p] = Len(TABLES)

ToNextTable(p, here, after) ==
    /\ at' = [at EXCEPT ![p] = IF Past(p) THEN 1 ELSE @ + 1]
    /\ Goto(p, IF Past(p) THEN after ELSE here)

\* One count(*) of the emptiness check: a row anywhere refuses the migration
\* and the boot goes on.
CheckEmpty(p) ==
    /\ pc[p] = "empty"
    /\ IF target[TABLES[at[p]]] # 0
       THEN /\ Goto(p, "seed")
            /\ UNCHANGED at
       ELSE ToNextTable(p, "empty", "open")
    /\ UNCHANGED <<fileVars, pgVars, url, file, tx, legacy, synthesized, ghosts>>

\* The checkpoint, assertKnownTables and BEGIN.
OpenSource(p) ==
    /\ pc[p] = "open"
    /\ shape # "unknown"
    /\ legacy' = [legacy EXCEPT ![p] = shape \in {"legacy", "half"}]
    /\ synthesized' = [synthesized EXCEPT ![p] = 0]
    /\ Goto(p, "copy")
    /\ UNCHANGED <<fileVars, pgVars, url, file, at, tx, ghosts>>

\* Rows of a table that another transaction has inserted and not committed.
Held(p, t) == \E q \in Procs \ {p} : tx[q][t] # 0

\* One table of the insert loop.  An insert waits for a transaction that
\* holds the same keys, and is refused (23505, see Abort) once it commits.
CopyTable(p) ==
    LET t == TABLES[at[p]] IN
    /\ pc[p] = "copy"
    /\ TableExists(t) /\ source[t] # 0 => ~ Held(p, t) /\ target[t] = 0
    /\ tx' = [tx EXCEPT ![p][t] = IF TableExists(t) THEN source[t] ELSE 0]
    /\ synthesized' = [synthesized EXCEPT ![p] =
                         IF t = "users" /\ legacy[p] THEN source[t] ELSE @]
    /\ halfRead' = (halfRead \/ (shape = "half" /\ t = "identities"))
    /\ ToNextTable(p, "copy", "synthesize")
    /\ UNCHANGED <<fileVars, pgVars, url, file, legacy, boots, blind>>

\* The identities of an old-shape source, from the users it copied.
SynthesizeIdentities(p) ==
    /\ pc[p] = "synthesize"
    /\ tx' = [tx EXCEPT ![p]["identities"] =
                IF TableExists("identities") THEN @ ELSE synthesized[p]]
    /\ halfRead' = (halfRead \/ shape = "half")
    /\ Goto(p, "verify")
    /\ UNCHANGED <<fileVars, pgVars, url, file, at, legacy, synthesized, boots, blind>>

\* Mutant. Verification compares the counts of what it inserted with itself.
VerifyNothing(p) ==
    /\ pc[p] = "verify"
    /\ ToNextTable(p, "verify", "commit")
    /\ UNCHANGED <<fileVars, pgVars, url, file, tx, legacy, synthesized, ghosts>>

\* Both sides are put in one total order and hashed: the fingerprints agree
\* when the two sets of rows do.
Agree(copied, read) == copied = read

\* One table of verifyMigration: its source is read again.
VerifyTable(p) ==
    LET t == TABLES[at[p]] IN
    /\ pc[p] = "verify"
    /\ Agree(tx[p][t], SourceRows(t))
    /\ ToNextTable(p, "verify", "commit")
    /\ UNCHANGED <<fileVars, pgVars, url, file, tx, legacy, synthesized, ghosts>>

Commit(p) ==
    /\ pc[p] = "commit"
    /\ target' = [t \in Table |-> IF tx[p][t] # 0 THEN tx[p][t] ELSE target[t]]
    /\ tx' = [tx EXCEPT ![p] = Empty]
    /\ Goto(p, "seed")
    /\ UNCHANGED <<fileVars, pgColumns, url, file, at, legacy, synthesized, boots, blind, halfRead>>

\* Mutant. The catch forgets to roll back before it releases the client.
AbortKeepsRows(p) ==
    /\ pc[p] \notin {"down", "probe"}
    /\ Goto(p, "down")
    /\ UNCHANGED <<fileVars, pgVars, url, file, at, tx, legacy, synthesized, ghosts>>

\* Mutant. A failed migration is logged and the boot goes on.
AbortIsNotFatal(p) ==
    /\ pc[p] \notin {"down", "probe"}
    /\ tx' = [tx EXCEPT ![p] = Empty]
    /\ Goto(p, IF pc[p] \in {"copy", "synthesize", "verify", "commit"} THEN "seed" ELSE "down")
    /\ UNCHANGED <<fileVars, pgVars, url, file, at, legacy, synthesized, ghosts>>

\* Anything a boot awaits may throw: the transaction is rolled back, the
\* reason is printed and the process exits.  A SIGKILL looks the same.
Abort(p) ==
    /\ pc[p] \notin {"down", "probe"}
    /\ tx' = [tx EXCEPT ![p] = Empty]
    /\ Goto(p, "down")
    /\ UNCHANGED <<fileVars, pgVars, url, file, at, legacy, synthesized, ghosts>>

\* Where the code throws: what must end a boot that can go no further.
MustAbort(p) ==
    \/ pc[p] = "open" /\ shape = "unknown"
    \/ /\ pc[p] = "copy"
       /\ TableExists(TABLES[at[p]]) /\ source[TABLES[at[p]]] # 0
       /\ target[TABLES[at[p]]] # 0
    \/ pc[p] = "verify" /\ ~ Agree(tx[p][TABLES[at[p]]], SourceRows(TABLES[at[p]]))

\* INSERT ... ON CONFLICT DO NOTHING.
Seed(content) == IF content = 0 THEN Own ELSE content

\* The imports connect the driver, then ensureConfig, seedSeasonalEvents and
\* runScheduler write before app.listen.
SeedAndListen(p) ==
    /\ pc[p] = "seed"
    /\ ~ Held(p, Seeded)
    /\ target' = [target EXCEPT ![Seeded] = Seed(@)]
    /\ Goto(p, "serving")
    /\ UNCHANGED <<fileVars, pgColumns, url, file, at, tx, legacy, synthesized, ghosts>>

\* A login on a Postgres server: what was empty holds rows of its own.
PgWrite(p) ==
    /\ pc[p] = "serving" /\ url[p]
    /\ target' = [t \in Table |-> IF t \in {"users", "identities"} /\ target[t] = 0
                                  THEN Own ELSE target[t]]
    /\ UNCHANGED <<fileVars, pgColumns, pc, url, file, at, tx, legacy, synthesized, ghosts>>

\* What the code itself does next, once started.
Proceed(p) ==
    \/ CreateIdentities(p) \/ RebuildUsers(p) \/ MaybeAutoMigrate(p)
    \/ BackfillIdentities(p) \/ DropColumns(p)
    \/ CheckEmpty(p) \/ OpenSource(p)
    \/ CopyTable(p) \/ SynthesizeIdentities(p)
    \/ VerifyTable(p) \/ Commit(p)
    \/ MustAbort(p) /\ Abort(p)
    \/ SeedAndListen(p)

MigrationNext == \E p \in Procs :
    \/ \E withUrl \in BOOLEAN : Boot(p, withUrl)
    \/ Proceed(p)
    \/ Abort(p)
    \/ \E ts \in WriteSets : SqliteWrite(p, ts)
    \/ PgWrite(p)

\* A started boot is run by Node until it ends; nothing else need happen.
MigrationSpec ==
    MigrationInit /\ [][MigrationNext]_migrationVars /\ \A p \in Procs : WF_migrationVars(Proceed(p))

-----------------------------------------------------------------------------

MigrationTypeOK ==
    /\ shape \in {"absent", "legacy", "half", "modern", "unknown"}
    /\ source \in [Table -> Nat]
    /\ past \subseteq [Table -> Nat]
    /\ writes \in 0..MaxWrites
    /\ target \in [Table -> Nat \cup {Own}]
    /\ pgColumns \in BOOLEAN
    /\ pc \in [Procs -> {"down", "probe", "rebuild", "schema", "drop", "empty", "open", "copy",
                         "synthesize", "verify", "commit", "seed", "serving"}]
    /\ url \in [Procs -> BOOLEAN]
    /\ file \in [Procs -> BOOLEAN]
    /\ at \in [Procs -> 1..Len(TABLES)]
    /\ tx \in [Procs -> [Table -> Nat]]
    /\ legacy \in [Procs -> BOOLEAN]
    /\ synthesized \in [Procs -> Nat]
    /\ boots \in 0..MaxBoots
    /\ blind \in BOOLEAN
    /\ halfRead \in BOOLEAN

\* If Postgres holds anything from the file, it holds all of one state the
\* file was in at one moment, however the copy and its verification
\* interleaved with a SQLite server that kept writing.
CopiedOneMoment ==
    (\E t \in Table : target[t] \in Nat \ {0}) =>
        \E moment \in past : \A t \in Table : moment[t] # 0 => target[t] = moment[t]

\* A Postgres server never serves an empty game over a file with players in
\* it, unless some earlier boot came up without such a file.
NeverServesEmptyGame ==
    \A p \in Procs : pc[p] = "serving" /\ url[p] /\ ~ blind => target["users"] \in Nat \ {0}

\* Whichever statement a boot dies after, a user in Postgres whose provider
\* columns are gone has an identity to log in with, unless a migration read a
\* file whose own split had been left half done.
NobodyLockedOut ==
    ~ pgColumns /\ target["users"] # 0 /\ ~ halfRead => target["identities"] # 0

\* A boot ends: two migrations never wait for each other for ever.
BootEnds == \A p \in Procs : pc[p] = "probe" ~> pc[p] \in {"serving", "down"}

=============================================================================
