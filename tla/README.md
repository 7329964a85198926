# RackStack server: TLA+ models, model checking and proofs

RackStack is an idle game. The server owns every player's save; browsers show
an optimistic copy of it, queue what the player clicks and post it in batches.
Live events overlay the rules for everybody and open a window per player in
which rewards can be claimed. This directory models the parts in which order,
interleaving, failure, restarts and the passing of time decide whether a save
stays right, checks them with TLC, and proves the central ones with TLAPS.

Contents: 1 inventory, 2 how the parts interact, 3 modules and code,
4 runs, 5 bounds, 6 fairness, 7 proofs, 8 known deviations,
9 what is not modelled, 10 plan.

## 1. Inventory

| Part (source) | State | Operations | What makes it hard | What makes it right |
|---|---|---|---|---|
| Per-user lock (`server/userLock.js`) | map user -> last promise | `withUserLock` | promise reactions interleave; a rejected fn; clean-up racing a newer arrival | one fn per user at a time, arrival order, never wedged, no entry lost or leaked |
| Save path (`server/stateService.js`, `/api/state`, `/api/actions`) | `saves` rows, local state of a request | `loadAndEvaluate`, `applyActions` | awaits between load and putSave; two tabs; failure between two writes; a `now` taken before queueing | no acknowledged change lost, no time paid for twice |
| Live events (`server/eventService.js`, `/api/admin/events`) | `live_events` | hourly scheduler, activate, end, create, put, delete, schedule | reads and writes in separate statements; late sweeps; several windows at once; crash between statements | at most one active event, windows close, recurring events come back |
| Participation and claims (`eventService.js`, `claimEventRung` in `shared/reducer.js`) | `meta.eventProgress`, `meta.pendingEventClaims`, `event_participation` | join, supersede, prune, claim, sync, hard reset | the event table changes during a request; personal windows, grace, supersession | a rung is paid once, only if met; a met rung stays claimable through the grace |
| Client action queue (`client/src/game/api.js`, `RackStack.jsx`) | queue, in-flight flag, backoff, replay list, minigame round | dispatch, flush, retry, beacon, reconcile, finish | lost, late and repeated messages; clicks during an await; page unload; canonical states from outside the queue | nothing forgotten, nothing flickers, order kept, retries end, one finish per round |
| Config (`server/configService.js`, `shared/configSchema.js`) | `config`, `config_history`, two caches | ensure, update, rollback, effective config, invalidate | a cache filled after its invalidation; two statements per write; old stored documents | loads evaluate with a valid config and event that held while they ran |
| Minigame sessions (`routes/api.js`) | `minigame_sessions`, cooldowns in the save | start, finish, cooldown, expiry | start is check-then-insert; finish races finish; only finish takes the lock | one payout per cooldown, records are announced |
| Leaderboards (`server/leaderboardService.js`) | cached boards | rebuild, invalidate, opt out | a rebuild that outlives an opt-out; rebuilds are not shared between requests | who opted out is gone after one TTL |
| Outages (`shared/outages.js`, `shared/state.js`) | active outages, next hazard, maintenance, supplies | lazy firing, absorbing, curing, pruning | all of it happens in retrospect, when a save is next loaded | a gap is paid exactly for its uptime |
| Economy reducer (`shared/reducer.js`, `state.js`, goals, achievements) | the save document | purchases, prestige, heat, claims, evaluation | resets at three depths, batches without an evaluation between, rows of old builds | what was earned is held or was spent; what was reached is on record |
| Cold storage, contracts, streak (`coldStorage*.js`, `contracts.js`, `streak.js`, `daily.js`) | track, job, tapes, the day's board, day stamps | claim, reset, start, cancel, shop, roll over | real time, UTC days, head starts that shorten what they reset | nothing is paid for time nobody waited |
| Session refresh and login (`client/src/game/api.js`, `auth.js`, `App.jsx`) | cookies, one refresh in flight per tab, cross-tab lock | boot, exchange, fetch, 401, refresh, retry, logout | rotating tokens, tabs, reloads, closed tabs, lost answers | no token presented twice, no loop, no code posted twice |
| Identity (`server/auth*.js`, `server/supertokens/*`) | `users`, `identities`, the core's id mapping | login by two stacks, mapping, username changes, AUTH_MODE changes | two first logins at once; mapping before session; a failure between any two | one person, one row, and the session opens it |
| Rollout gates (`supertokens/preflight.js`, `shadowCheck.js`) | none of their own | preflight, audit | separate processes: everything may change between two of their requests | what they cleared boots, logs in and lands on the right save |
| Migration and boot (`server/db/migrate.js`, `schema.*.js`, `server/index.js`) | SQLite file, Postgres database, the process | probe, count, copy in one transaction, verify, commit, split identities, seed, serve | crash between any two statements; two processes; a writer beside the copy | Postgres gets the whole of one moment of the file or nothing |
| Drivers and schema (`server/db/*`) | SQL | statements, upgrades | two dialects | modelled where the services use them |
| Roles, tours, usernames (`routes/api.js`) | user columns | read-modify-write | two tabs on Postgres | no chosen name lost |
| User interface (`client/src/*.jsx`) | view state | rendering | - | trusts the server |

The hazards, each at its line and with the property that would catch it, are
in `PROJECT.json`.

## 2. How the parts interact

    browser tab --- batch / beacon ---> /api/actions --> withUserLock --> saves
        ^  |                                 |               |  (one fn per user)
        |  +-- minigame start / finish --> routes -----------+--> minigame_sessions
        +-------- canonical state -----------+               +--> event_participation
                                                             |
    coordinator --> /api/admin/events --> live_events <-- joinEventIfEligible
    scheduler   --> runScheduler     -->     |
                                             v invalidate
    admin --> /api/admin/config --> config --> effective config --> every load

    provider --> callback --> passport | SuperTokens override --> users, identities
    browser cookies --> requireAuth --> users.id --> every route above
    boot: preflight, audit (by hand) -> maybeAutoMigrate -> seeds -> listen

Requests of one player are serialised by the lock; requests of different
players, the coordinators' requests and the scheduler share only the tables and
configService's caches. There is one Node process. On the SQLite driver every
statement is synchronous, so its `await` yields to microtasks only and an HTTP
handler that awaits nothing else runs to its end before another begins. On
Postgres each statement is a round trip and handlers interleave. The models take
the number of handlers under way as a constant where this matters.

## 3. Modules and the code

| Module | Models | Step | Composes |
|---|---|---|---|
| `UserLock` | `withUserLock`'s promise chain | one promise reaction | - |
| `SaveStore` | what a save endpoint promises: an indivisible rewrite of the row in arrival order | one request | - |
| `SaveService` | `loadAndEvaluate` / `applyActions` as a fn under the lock | one awaited statement | extends `UserLock`; implements `SaveStore` |
| `EventLifecycle` | `live_events` under the scheduler and the coordinators' routes | one statement of one handler | - |
| `EventClaims` | one player's joins, supersessions, claims and their sync, over a changing event table | one statement of the player's request | - |
| `ActionQueue` | the page's queue, replay list and minigame round, the network, the endpoint | one turn of the page, or one delivery | relies on `SaveServiceProofs!Atomic` |
| `ConfigService` | config row, history, both caches | one statement of a writer or a load | - |
| `PlayerRequests` | what the routes below share: the lock, the save, failures, the clock | one awaited statement | - |
| `Minigame`, `Leaderboard` | the minigame routes; the cached boards and the opt-out | one awaited statement | extend `PlayerRequests` |
| `Arcade` | both, over one saves table | either's | extends `Minigame`, `Leaderboard` |
| `Pricing` | supply and cure prices | an operator each | - |
| `Economy` | the save, rates, prices, achievements, rows of old builds | - | extended by the next four |
| `Outages`, `ColdStorage`, `Daily`, `Reducer` | `shared/outages.js`; the track, jobs and shop; contracts and streak; the other handlers | one handler | extend `Economy` |
| `Game` | a player's requests: load, evaluate, batch | one load, one action | extends those four; relies on `Atomic` |
| `SuperTokensBoot` | what a boot demands of environment and core | operators | - |
| `Identity` | logins, username changes, restarts in another mode | one statement or core call | extends `SuperTokensBoot` |
| `Cutover` | preflight and audit beside the running server | one request of the preflight, one audit, one boot, one login | extends `SuperTokensBoot` |
| `Migration` | the boot: probe, copy, verify, commit, seed | one await | - |
| `SessionRefresh` | tabs, calls, refreshes, the cookies they share, the core's tokens | one await | - |
| `*Proofs` | theorems, section 7 | | |
| `MC*` | constants for TLC | | |

**UserLock.** `chains` is the map of the same name. A call is the pair of
promises it creates: `result`, which the route awaits, and `tail`, which the
next call chains off. `WithUserLock` is the synchronous body, `RunFn`,
`SettleResult`, `ResolveTail` and `DropEntry` are the reactions, in any order
their promises allow. `Restart` empties the map. `arrivals` is history.

**SaveService.** `Arrive` is the route up to the lock (it reads the clock
first), `LoadEvaluateAndSchedule` the load with the evaluation in memory,
`PutSave` the overwrite of the row, `UpdateParticipationProgress` the sync
after a claim. `Throw` is any failing call, with or without the effect of the
statement; `Restart` loses all local state. A save is abstracted to the
requests whose changes it holds, its `last_save`, its creation and the time it
has been paid for. `Status(r)` is the refinement mapping to `SaveStore`.

**EventLifecycle.** A job is a handler with its program counter, its `now`, the
row it has read and its worklist. The body of a PUT enters, clears or leaves out
either date and the ladder (`Edited`, `Editable`). `Service` is `activateEvent` and `endEvent`,
which routes and scheduler share; `Sweep` is `runScheduler`; `Route` the
admin routes. `Throw` fails a statement, `Restart` includes the seeding of
seasonal events. `swept` marks the states an undisturbed run has just left.

**EventClaims.** The lock gives a player one request at a time, so the request
is a set of variables. `Load`, `ReadActiveEvent`, `Join`, `UpsertParticipation`
are the load path, `ClaimEventRung`, `Earn` and `HardReset` the batch, `PutSave`
and `Sync` the writes. All five metrics are one counter and all ladders one
list. `met`, `paid`, `paidTwice` and `past` are history.

**ActionQueue.** `queue`, `batch`, `inFlight`, `failures`, `wait` and
`authStopped` are makeActionQueue's locals, `pending` is `pendingActionsRef`,
`base` is what the canonical state on the page accounts for. `transit` is the
set of requests under way, `reply` the answer to the awaited post. `round`,
`completed` and `finishing` are the minigame modal's state; `hidden` is what an
older finish's answer took off the screen.

**ConfigService.** `row`, `history`, `cache`, `effectiveCache` are what they
are in the code. `acked`, `docs` and `events` are history: what held officially
while a load was reading.

**Arcade.** A request takes its route when it begins. A start takes no lock;
a finish looks its session up before it waits for the lock and redeems it
inside; a board that is not fresh is rebuilt by every request that finds it so,
from the saves and then from the users. A save is the wins it was paid for,
its cooldown stamp and the opt-out flag. `earned`, `clamped`, `newBest` and
`cooling` are what a request was answered: a finish inside the cooldown stores
its score and is answered 429, without pay and without `newBest`.

**Game and the modules it extends.** The save is the record the code stores,
cut down to the fields the handlers decide by: `run` (credits, the lanes'
`owned` and `ready`, heat, anomaly) and `meta` (cores, wafers, level, goals,
achievements, cold storage, contracts, streak, stats), and `server` (outages,
supplies, next hazard, maintenance). `Load` is a request up to its batch: parse
and migrate the row (`MigrateSave`), `evaluate()`, roll the day over, arm the
schedules. Each action of the batch is one handler followed by the achievement
check. Random draws are choices among the tabled delays; a hazard's kind, scope
and absorption are derived from its scheduled time as in the code. A row an older
build wrote holds any parts of a save, in no relation to each other
(`RowAssumption`); `MigrateSave` brings it to today's shape. `incidents`,
`credited`, `board`, `streakDays`, `awayWork`, `peak` and `carried` (the save as
its row was first read, or as the last reset left it) are history. The code
rounds no price: the cure multiplier is a ratio (2.5 by default), and since
balances are whole numbers here a fraction of a FLOP is paid as a whole one.

**Identity.** A login is a program counter and what it has read so far; each
statement of `upsertUser` and each core call of `linkExternalUserId` is one
action. `identity[p]` tells which id the `identities` row records: none yet,
the core's, or ours. `Restart` comes up in some AUTH_MODE, or is refused by
`InitSuperTokens`.

**Cutover.** The preflight is one request after the other, the audit one read
of one database. `Boot` opens the database first - the driver and
`maybeAutoMigrate`, in one step here, statement by statement in `Migration` - and
then asks the core; either can refuse. `ChangeDeployment` and `Restore` change
what the gates looked at.
`LandsOn(l)` is the row a SuperTokens login ends on.

**Migration.** The content of a table is a version, so that a copy of two
moments shows. `Proceed` is one await of `maybeAutoMigrate`, the schema upgrade,
the seeds; `Abort` the process dying or a statement failing at any of them;
`SqliteWrite` and `PgWrite` servers at work. Both schemas' identities splits are
there, the SQLite one half done too.

**SessionRefresh.** `jar` is the browser's token, `family` the session each
token was given to. `request` and `refresh` are the calls and refreshes under
way, `lock` is the Web Lock the code calls
`REFRESH_LOCK_NAME`. A call is answered 401 when its token has expired, its
session is over, or a lookup of the server failed (`LookupFails`). A code is
posted in one step and leaves the address bar in a later one; `posted`, `left`,
`reposted` and `blind` are history. The core's rotation and theft rule are external.

The modules also hold definitions marked `Mutant`: each is one way to get a
definition wrong, and shows which property notices. Every module states its
types (`TypeOK`); where a `*Proofs` module proves it, no run repeats it.

## 4. Runs

| Run | Checks | Shows |
|---|---|---|
| `UserLock` | `Exclusive`, `EveryCallRuns` | the clean-up's identity check and the swallowing tail are what keeps the queue a queue |
| `SaveService` | `LooksAtomic`, `EveryRequestAnswered` | two tabs, failures and restarts: requests are indivisible, in order and answered |
| `EventLifecycle` | `OneActive`, `SweepSettles`, `WindowsClose`, `RecurrenceResumes` | on SQLite, for any requests, a failure or a restart: one event at most is active, whatever dates are moved or cleared, a sweep catches up with whatever it missed, a yearly event comes back |
| `EventClaims` | `PaidOnce`, `PaidWasMet`, `ClaimSurvives` | supersession and grace with the table changing under the request, and events that come back |
| `ActionQueue` | `NothingFlickers`, `RoundFinishedOnce`, `OvertakenOnlyByBeacon`, `EveryClickCounts` | one page over an unreliable network, with a minigame round whose answers come from outside the queue |
| `ConfigService` | `ServedIsCurrent`, `VersionsNameDocuments` | loads beside one writer, failures and restarts |
| `Migration` | `CopiedOneMoment`, `NeverServesEmptyGame`, `NobodyLockedOut`, `BootEnds` | two processes that boot, die and boot again over every shape of file, beside a writer |
| `Arcade` | `OneWinPerCooldown`, `BestWasAnnounced`, `HiddenAfterTtl` | any four requests of one player, in every interleaving, with failures |
| `Identity` | `SessionOpensTheSave`, `RaceFailsNobody`, `ChosenNameKept`, `LoginsEnd` | one player through both stacks at once and again, while names and modes change |
| `Cutover` | `ClearedBootIsNotRefused`, `CleanPreflightLogsIn`, `ClearedAuditKeepsSaves` | the two gates over everything that can be wrong, one thing at a time, while something changes |
| `Game` | `PaidForUptime`, `RewardsAreEarned`, `ContractsMeasureToday`, `BalancesAddUp`, `NothingReachedIsMissed` | twelve players with a habit each, most on rows of other builds, any batches and any gaps |
| `SessionRefresh` | `SessionSurvives`, `ExpiryGoesUnnoticed`, `CodeExchangedOnce`, `CallsEnd` | two tabs, with and without Web Locks, over lost answers, reloads and closed tabs |

`PaidForUptime` is the abstract definition of what the closed form in
`evaluate()` computes: the sum over the seconds of a gap of the combined factor
of the incidents that covered each. The incidents are recorded apart from the
save's list, when they fire. `LooksAtomic` is a refinement: `SaveStore` under
the mapping `Status`. `ClearedBootIsNotRefused` and `HiddenAfterTtl` are action
properties, `BalancesAddUp` a conservation law over three currencies: a balance and its
counters differ for ever by what the row first came with.

All runs but `Cutover` turn deadlock checking off: clocks and counters are
bounded, and a system nobody sends a request to may rest.

## 5. Bounds

- `UserLock`: three calls of one user, so that a third arrives while the second
  waits on the first and the first is being cleaned up, and one call of another.
- `SaveService`: two claims and a page load of one player, clock to 2 with a
  paid gap of 2: an unpaid gap, a paid gap, and a request whose `now` is older
  than the save. The proofs remove these bounds.
- `EventLifecycle`: two events, a yearly one and one that coordinators create,
  whose windows can overlap; a year of 4, a grace of 1 and a clock to 8: two
  years and a sweep that comes after window and grace are over. Bodies of seven
  kinds: two windows, a start moved or cleared alone, an end cleared alone, another
  ladder, nothing. Two requests of any kind, one handler at a time (SQLite), one failure or restart.
- `EventClaims`: two events, each activated up to twice, with room for one
  superseded window, so that the cap bites and an event comes back to a player
  who holds a record of it; a ladder of two rungs; clock to 3 with a window of 2
  and grace and day of 1, so that personal windows end before, with and after the
  event; one failed request or hard reset. Events are interchangeable (symmetry;
  the run checks invariants only).
- `ActionQueue`: three clicks and two mishaps - lost, late or refused messages,
  a torn response, a closed page, an ended session - so that an action can be
  overtaken, repeated and carried off by a beacon; one round. The backoff
  saturates at `RetryMax`; an assumption states that the saturated failure count
  hides no delay. Three clicks stay under the batch limit: see section 8.
- `ConfigService`: versions to 3, so that boot upgrades a document, an admin
  writes one and rolls back to another; two loads; one change of the event.
- `Migration`: two processes and three boots, three of the eight tables (the
  pair a login writes together, and the one each boot seeds), two writes beside.
- `Arcade`: one player, four requests of any route to two games, a cooldown and a
  TTL of 1, a window of 0, a clock to 1. Four requests are two sessions, opened
  at once and finished one paid and one in the cooldown; or a rebuild, an opt-out,
  its undoing and a read of the board. Requests are
  interchangeable; the properties do not tell them apart.
- `Identity`: two logins of one player, of which one may use either stack, each
  may be made once more; another player who holds, or takes, the name that the
  provider gives; one restart; one username change.
- `Cutover`: two players; environments, cores and databases (missing, older than
  the split, empty, with an orphan, whole or under another's id) each right or
  wrong in one way; one change of the deployment or restored backup.
- `Game`: two racks, one grid node, one overclock node, days of two seconds, a
  track of two blocks; clock 2 to 8; at most two hazards due at one load. A
  player has one habit, that is a set of actions that interact, over a
  configuration and a row that make them possible: a new row, one whose JSON is
  broken, and rows of other builds - bare units and cores; levels, wafers, goals
  and upgrades; tapes that no counter knows of, on a track of another length or
  with a job half done; a board dealt and half claimed, with a streak; a hazard
  and a boost in force, an edited stock, maintenance without an extent. A habit's actions come in any order and
  number, with any gaps.
- `SessionRefresh`: two tabs, two calls in one and one in the other, one code,
  one expiry, two faults. `MaxTokens` is never reached.

## 6. Fairness

What is weakly fair is what the runtime goes on with by itself. UserLock,
SaveService: every promise reaction that is due runs, and every database call
returns or throws. EventLifecycle: time passes, the interval timer fires, every
awaited statement returns. ActionQueue: the flush interval fires, an answer that
has arrived is read, the server answers what reaches it; the network may lose
only a bounded number of messages. Migration: a boot that has started is carried
on until it ends; two of them waiting for the same rows is what `BootEnds` is
about. Identity: a login under way is carried on, a lock is granted in order.
SessionRefresh: a boot, a call or a refresh under way goes on, and Web Locks
grants in turn. Nothing makes a player click, come back, log in or reload.

In `EveryClickCounts` the page must stay open and the session alive, and no
response may break off between headers and body (section 8). `CallsEnd` says
that a call ends, not that it succeeds.

## 7. Proofs

For every value of the constants:

- **SaveServiceProofs.** Of the lock first: `ChainInv` is inductive: each arrival
  links to the one before it unless that one is already cleaned up (`Linked`),
  arrivals are in phase order (`ArrivalOrder`), and the map entry is the last
  arrival (`EntryTracksLastCall`). `Exclusive` alone is not inductive: that a new
  call waits for the right predecessor depends on the entry, and that the entry is
  right depends on the order. Then every step of SaveService is a step or stutter
  of UserLock (`StepsOfLock`), so the lock's theorems carry over. With exclusion,
  what a request read is still in the table when it writes (`ViewIsCurrent`,
  in `DataInv`), so every step is a step or a stutter of `SaveStore`:
  `Atomic == Spec => LooksAtomic`. Stamps are in arrival order, hence no
  save is evaluated past a waiting request's `now` (`SaveInv`), from which follow
  `NothingLost`, `TimePaidOnce` and `NoRewind`. From `UserOfAssumption`,
  `NoCallAssumption`.
  Of `Migration`, for tables in any order: the file is read table by table
  outside any transaction, then read again to verify. A table's states are
  numbered by its writes, so a verified table had what was copied all the time between its two reads,
  and the moment after the last copy and before the first verification is in
  both for every table: `MomentInv` holds on to that moment, `CopyOk` to its
  lower half. `CopyIsOneMoment` is its end, since a commit needs all tables
  verified. `UsersCanLogIn` needs that users are copied with identities or fail
  verification (`IdentityInv`) and that the provider columns are dropped once,
  after the backfill (`ColumnInv`); `PlayersAreServed` that every boot saw the
  file's players and copied them or found them in Postgres (`FoundInv`,
  `VerifiedInv`, `ServedInv`). From `TableAssumption`, `BoundAssumption`,
  `OwnAssumption`.
  Of `ConfigService`: `ConfigInv` is inductive. `getEffectiveConfig`
  decides a hit by two numbers; that they stand for what they number needs
  `KnownByVersion` (among the configs in memory a version names one document,
  and a new number is above all of them) and `EventIsCurrent` (while nothing
  failed and no load was overtaken, each copy of the event is the row, or the
  row as it was when a change began whose invalidation is still to come). From
  these follow `OnlyCurrentServed` and `OnlyValidServed`. `LogOfVersions` needs
  `LogGrows`: between the row's write and the history's the number is above the
  log's, because an idle process's cache is the row. From `DocAssumption`,
  `NoneAssumption`.
- **EventLifecycleProofs.** `RunsSettle` (`SweepSettles`) holds with any number of
  handlers at once, because `swept` excuses a run that another handler disturbed.
  A run takes its worklist in order (`InOrder`) with one row in hand
  (`Handling`); what is due and not settled is in the list or in hand
  (`ToOpen(clock) \subseteq Left`), and of the live windows done so far the last
  is active (`LastOpened`). `OneAtATime` (`OneActive`) is for `MaxInFlight = 1`, the SQLite
  driver: a handler that is about to write holds the events that are active now
  (`UpToDate`), because nobody else is in flight. That hypothesis is needed: two
  activations on Postgres leave two active events (section 8). From
  `EventAssumption`, `BoundAssumption`.
- **EventClaimsProofs.** `IInv` speaks of both the row and the copy a request
  works on. `Apart`: pending records differ in event and number, and none is of the live
  window's run. `Marked`: a paid rung is marked in the record of its run if there
  still is one. `Measured`: what is or may yet be paid has been met. `Kept`: of a
  superseded window that is still due there is a pending record that agrees with it. None
  is inductive without what the player knows of the event table (`Dated`,
  `UpToDate`, and `Reading` between the read of the active event and the join):
  an activation that the player's save knows of is the one the table is at, so a
  join never starts a second window of one activation. `RungsPaidOnce`,
  `PaidRungsWereMet` and `ClaimsSurvive` follow for any events, ladder, limit,
  grace and number of activations. From `LadderAssumption`, `NumberAssumption`,
  `NoneAssumption`.
- **OutagesProofs.** Of what an outage costs, for any tables and configuration.
  `Integral`: between two boundaries every second lies under the outages that lie
  over the middle (`MiddleOrAll`), and the pieces add up to the seconds by
  induction on where they end (`Stretch`, `Pieces`), for any outages that overlap
  in any way. The sums are folds over finite sets. `FoldExists` and `FoldStays`
  unfold them with an induction written out for sets of numbers (`AllNumbers`),
  since the library's induction theorems take operators; `SumIs` and `SumSplit` follow,
  which GameProofs uses as well. `SupplyFloor` and `CureDearerThanSupply`: at
  every output and every remaining duration preparing is not the dearer choice. The
  code computes unrounded: price and multiplier are ratios of whole numbers, and the
  multiplier any that the schema accepts, which are those of at least 1.
- **ArcadeProofs.** `WinsPayOncePerCooldown` needs that the cooldown on record
  is no earlier than that of any paid win (`Dated`), and, since every route
  overwrites the whole row, that what a request under the lock is about to write
  is the row and its own win (`Carries`). `RecordsAreAnnounced`: a score on
  record, or about to be recorded without an announcement, has an announcement
  at least as high or came in the cooldown of a paid win (`Covered`,
  `Cooled`), because the bests were read before the row was finished and rows
  only gain scores. `CoolInv` says that a finish that was turned away for the
  cooldown came after the win it is cooling from. `OptOutHides`: a board, under
  way or cached, was begun before any player on it opted out (`BoardsOlder`).
- **SessionRefreshProofs.** `SessionIsKept`: while no refresh was broken off and
  tabs without locks do not clash, at most one refresh is on its way (`Alone`),
  because a tab has one (`Named`) and the lock one owner; what it presents, and
  what it brings back, is the newest token of its session (`UpToDate`), and so is
  the browser's unless the answer is under way (`JarUpToDate`). That a new
  session's token leaves the others newest needs `Numbered`: a session is
  numbered by its first token. `CodesAreExchangedOnce` follows codes from the
  provider to one tab's address bar (`CodesOnce`), where a posted code can be found
  again only by a tab that was left before it replaced its URL. Types include that what is
  presented was given out. `NobodyNotices`: the core refuses a refresh only
  after theft or logout (`RefreshOk`), because every other session is alive
  (`Lively`) and a page that has calls under way has cookies (`Shown`, `Signed`);
  a token that has expired never becomes fresh again (`Onward`). What is left of a
  401 with a session alive is a retry whose token expired once more or whose
  lookup failed.
  Of `ActionQueue`, for any number of clicks and mishaps and any batch limit:
  `QueueInv` says that the batch in flight followed by the queue is, in the order of
  the clicks, the replay list (`Lined`), and that what is neither on it nor
  carried by a beacon has been applied and is in every answer under way and on the
  screen (`Delivered`, `OnScreen`), from which follows `ScreenKeepsClicks`
  (`NothingFlickers`). `OnlyABeaconOvertakes` (`OvertakenOnlyByBeacon`) needs
  `InOrder` of the log and of every request under way, lost or late: a batch takes
  all that is neither settled nor carried off, so before each of its actions it or
  the log has every earlier one. `OneFinishPerRound` (`RoundFinishedOnce`) needs
  that whoever finishes a round has taken it off the page (`Rounds`).
- **IdentityProofs.** For any players and logins. `LoginInv` says what each place
  in a login implies of the tables: the mapping is in the core before
  `identities` records its id, the row is there before the mapping is. `PlayerInv`
  has one name per row and a recorded id only where the core maps it. From them
  `CredentialsOpenTheSave`; `RacesFailNobody`, since a login whose insert finds
  the player's row adopts it; and `ChosenNamesStay`, since a login that
  renames had no chosen name to lose. From `LoginAssumption`, `NoneAssumption`.
  Of `Cutover`: `ClearedBoots` (`ClearedBootIsNotRefused`, an action property),
  `CleanPreflightServes` (`CleanPreflightLogsIn`) and `AuditKeepsSaves`
  (`ClearedAuditKeepsSaves`). They need that what a gate saw stays so until a
  change voids its result (`PreflightInv`; `valid`, `audited`), and that logins write only rows
  whose identity is their own id (`DbInv`). The preflight vouches for a boot whose
  database it has reached and which has no file left to copy or to split
  (`DatabaseAnswered`, `DatabaseInv`).

- **GameProofs.** What the properties read off a save is eight parts (`Parts`).
  For each handler of the reducer, each stage of `evaluate()` and of the load
  path a lemma says which parts it keeps and what it does to the others (`Step`),
  so a step of the player is one of four (`StepIs`): the save is loaded, moves, is
  reset, or stays. `GameInv` is inductive: `Untouched` is the row as another
  build left it, of which nothing is known but the types of its parts until the first
  request reads it and `carried` keeps what it held; `TrackFits` dates the track from its cycles and, when its last block is claimed,
  from the block floor, which is why a head start must leave that block out;
  `JobsHeld` counts the job in progress with the jobs done; `PeakHeld` has the best
  count of cores either noted or still in hand, since a batch can spend them before
  anything notes it; `MetHeld` is about the moment after a request, because time
  alone can meet an achievement; `Balanced`, that balances keep whatever difference to their counters
  `carried` has, has a case per payer and buyer;
  `BoardHeld` says that types, targets and baseline drawn again from the stored
  date are those first dealt. From it follow `RewardsEarned`, `NothingMissed`,
  `Balances` and `ContractsMeasured`, for any tables of the game, any configuration
  that `validateConfig` accepts and any row of any build.
  `UptimePaid` (`PaidForUptime`, an action property) adds to `Integral`, which is
  about `weightedFactor` alone, what holds of the list it is given. `Books` is about
  the save: an incident remembered and not over when the save was last loaded is in it, so the list the next load integrates
  covers each second of the gap as the incidents do (`SameCovering`), even though
  what is over has been pruned, a cure has shortened one and `migrateSave` has dropped
  those without an extent. `LoadPays` follows the payment through a load, and
  `OutagesStay` has a case per handler. From the assumptions of
  `Economy`, `Outages`, `Daily` and `Game`.

Model-checked only:
- liveness, everywhere (fairness is beyond the prover);
- `QueueTypeOK`, whose bound on the backoff needs that `2^n` is a natural number,
  which the provers do not know of an exponent that is not a numeral (`QueueInv`
  carries the types the theorems need).

## 8. Known deviations

Met while modelling. Where a property exists, it names the exception; each of
these is code that behaves otherwise than a comment or a document says, or a
case the code leaves open.

Events:
- Two activations that interleave on Postgres leave two active events until the
  next sweep (`server/eventService.js:66`), although the module and README.md:350
  say it owns the invariant. `OneActive` is checked and proved for SQLite's handlers.
- On Postgres `PUT /api/admin/events/:id` writes back the status and ladder it
  read (`server/routes/api.js:640`) and can undo an activation.
- A rung that is first met during the 48 hours after a window that ended by
  itself is paid (`shared/reducer.js:552`); README.md:369 has the grace for rungs
  already earned. `PaidWasMet` is about superseded windows.
- A player whose progress names last year's occurrence of an event never joins
  this year's (`eventService.js:262`, against `stateService.js:97`).
- A PUT may clear a date (`routes/api.js:625-636`). A yearly event that ended and
  has no end never comes back, a scheduled one without a start never opens, and no
  sweep closes an active one without an end. `WindowsClose` and
  `RecurrenceResumes` are about events that have the date.
- A ladder edited during the grace shifts the rung indices that saves refer to.
- A player who joins a superseded event again has two records of it: claims go to
  the new window only, and the rungs left in the old one are dropped when the new
  one is superseded (`eventService.js:377`), inside their grace. `ClaimSurvives`
  names the case.
- After a hard reset, and after a request that fails between putSave and the
  sync, the leaderboard's participation count is behind the save
  (`stateService.js:228`).
- A sweep more than 48 hours late ends an event that a second sweep at the same
  `now` schedules again: it is not idempotent.

Client:
- A response that breaks off after its headers makes `request` throw
  (`client/src/game/api.js:170`), and the queue stays in flight for good;
  lines 454-457 say it retries forever.
- A batch over the server's 100 actions is refused with 400 and put back for
  ever (`api.js:519`).
- A finish's answer that was taken before a batch and arrives after the batch's
  own hides that batch until the queue's next answer (`RackStack.jsx:895`;
  `hidden` in `NothingFlickers`).
- `App.jsx` asks `/api/me` with a plain fetch: a returning player whose access
  token expired sees the login screen, which `api.js:29-32` says the refresh
  prevents. After a failed exchange it does not ask at all, although another tab
  may have logged in.
- A tab closed between the core's rotation and its answer loses the token
  (`cut` in `SessionSurvives`); `POST /auth/logout` with an expired access token
  leaves the session alive (`server/routes/authRoutes.js:85`).
- A lookup that fails on the server is answered 401 with the session alive
  (`server/auth.js:182-184`); on the retry the page shows the login screen.
  `ExpiryGoesUnnoticed` names the case.
- A tab that is reloaded after it posted its code and before it replaced its URL
  posts the code again (`App.jsx`), which the core refuses.
- `refreshCooldownsFromServer` is never reached: the server always sends
  `retryAt`.

Arcade:
- A finish inside the cooldown stores its score before it is answered 429 without
  `newBest` (`routes/api.js:384-393`): it can become the best nobody was told of.
  `BestWasAnnounced` names the case.
- A board that was being rebuilt while its player opted out is cached after the
  purge and served for up to its TTL (`routes/api.js:501-507`;
  `HiddenAfterTtl` allows one TTL). Overlapping toggles of the opt-out can leave
  the users column and the save's flag different.
- Two finishes of one session are both judged, and the later write replaces a
  better score (`api.js:398`). With `winCooldownMs` 0, or a wait for the lock
  that is longer than the cooldown, both pay.

Config and evaluation:
- Two `updateConfig` that interleave on Postgres store two documents under one
  version (`configService.js:138`); a write that fails half-way leaves a row the
  process does not serve until it restarts (`failed` in `VersionsNameDocuments`).
- `getEffectiveConfig` can fill its cache after an invalidation and serve the
  event's old window until the next change: `overlapped` in `ServedIsCurrent`.
- `evaluate` pays nothing for a gap below one second but `last_save` moves on
  (`shared/state.js:241`).
- The kill switch leaves `nextHazardAt` in the past (`state.js:264`): switched on
  again, up to eight back-dated hazards fire at once.
- Curing an outage cuts its `endAt` to now, which is what makes the closed form
  right for the rest of the gap.

Game:
- A row of an older build may hold wafers or tapes that no lifetime counter knows
  of (`tests/state.test.js:10-30`); they are kept, so a balance can exceed what was
  earned on record. `BalancesAddUp` keeps the difference.

Identity and boot:
- An unreachable Postgres is a warning of the preflight (`preflight.js:249-251`),
  a refusal of the boot (`server/index.js:21-65`), and a copy or a split of
  the file can fail after a preflight that never looks at the file.
  `ClearedBootIsNotRefused` takes a preflight that reached its database with nothing
  left to copy or split.
- A file whose own identities split was left half done (`schema.sqlite.js:70`)
  migrates to users without identities, which nobody can log in as
  (`halfRead` in `NobodyLockedOut`; `migrate.js:293-300` counts on the split).
- A login that had read the row overwrites a name the player sets meanwhile
  (`driver.pg.js:105-116`). A first login through passport that races with the
  other stack can fail when the name is also taken (`clashed`). The comment at
  `db/shared.js:70` is contradicted when the renamed duplicate takes a name that
  another player is about to be given.
- A probe of the preflight that times out is a warning (`preflight.js:295`); the
  boot may still refuse. `ClearedBootIsNotRefused` takes an answered preflight.

## 9. Not modelled

SQL text, connection pooling and column upgrades; the OAuth protocol and the
SuperTokens core beyond what the code relies on; rendering, formatting, logging;
amounts, ranks and row limits where only the order of things matters. In
SaveService the content of a save is the set of changes it holds. In Migration a
write never puts a table back to what it held before. In EventClaims
all ladders are one constant list. In ConfigService writers do not interleave,
and tunables are abstract documents. Multipliers that only scale a rate, and the
goals, repeatables and achievements beyond a few of each kind, are tables in
`MCGame`; a hazard's hash is one too. The client's own prediction of the state
between two answers runs the same reducer and is not a second model.
`createShadowRun`, the per-login comparison, has no caller. Role changes and tour
completions are read-modify-writes of one small column each; admin screens and
the rest of the user interface hold no state the server trusts.

## 10. Plan

Next, in this order:

1. Two config writers on Postgres, and the user columns that two tabs write.
2. Compositions: EventLifecycle's table under EventClaims and ConfigService;
   `Identity` before `SessionRefresh`.

To keep the project small enough to be rerun on every change, a property that is
proved for all constants leaves its run unless a run shows it better.
