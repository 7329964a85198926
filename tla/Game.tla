-------------------------------- MODULE Game --------------------------------
(***************************************************************************)
(* The whole game of one player: every request loads the save, brings it   *)
(* up to date with evaluate() (shared/state.js) and the load path of       *)
(* server/stateService.js, and then runs its batch of actions through the  *)
(* reducer (shared/reducer.js).  The requests of one player run one at a   *)
(* time (SaveService), so a load is one step and each action is one step.  *)
(***************************************************************************)
EXTENDS Outages, ColdStorage, Daily, Reducer

VARIABLES
    incidents,  \* history: every outage that was ever in force, as it ended up
    credited,   \* history: the output the last load credited
    board,      \* history: the contracts as the day's first load drew them
    streakDays, \* history: the days the streak was claimed on
    awayWork,   \* history: job time earned while away
    peak,       \* history: the most cores ever held
    carried     \* history: the save as it was read first, or as the last reset left it

historyVars == <<incidents, credited, board, streakDays, awayWork, peak, carried>>
vars == <<gameVars, historyVars>>

(***************************************************************************)
(* evaluate(): the gap [last, now) in one go.                              *)
(***************************************************************************)
Online(last, now) == now - last <= config.offline.onlineGap

PaidTime(last, now) ==
    IF Online(last, now) THEN now - last ELSE Smaller(now - last, config.offline.hardCap)

\* The overclock lane multiplies the racks; while frozen it does not, online.
RacksWith(s, last, now) ==
    IF Online(last, now) /\ Frozen(s, now) THEN LaneOutput(s, "tiers")
    ELSE LaneOutput(s, "tiers") + OverclockBonus(s)

Boost(s, last, now) == IF Online(last, now) THEN BoostMult(s, now) ELSE 1

\* One def's production over the gap, given the weight its outages leave it.
Produced(s, lane, i, last, now, weighted) ==
    LET full == TierRate(s, lane, s.run[lane][i].owned) * Boost(s, last, now)
        paid == full * PaidTime(last, now) * weighted
    IN  IF full = 0 THEN 0
        ELSE IF lane = "grid" THEN paid \div ((now - last) * Full)
        ELSE (paid * RacksWith(s, last, now)) \div (LaneOutput(s, "tiers") * (now - last) * Full)

LaneProduced(s, lane, is, last, now, weight) ==
    SumFunction([i \in is |-> Produced(s, lane, i, last, now, weight[lane][i])])

TotalProduced(s, last, now, weight) ==
    LaneProduced(s, "tiers", Tiers, last, now, weight) + LaneProduced(s, "grid", Grid, last, now, weight)

\* What the outages leave of each producing def, integrated over the gap.
Weights(outages, last, now) ==
    [lane \in {"tiers", "grid"} |->
        [i \in Units[lane] |-> WeightedFactor(outages, lane, i, last, now)]]

\* Unmanaged racks keep what they produce until it is collected.
Produce(s, last, now) ==
    LET weight == Weights(s.server.outages, last, now)
        total == TotalProduced(s, last, now, weight)
        kept == LaneProduced(s, "tiers", {i \in Tiers : ~s.run.tiers[i].manager}, last, now, weight)
    IN  [s EXCEPT !.run.credits = @ + total - kept,
                  !.run.lifetimeRun = @ + total,
                  !.run.tiers = [i \in Tiers |->
                      IF s.run.tiers[i].manager THEN s.run.tiers[i]
                      ELSE [s.run.tiers[i] EXCEPT !.ready = @ + Produced(s, "tiers", i, last, now, weight.tiers[i])]],
                  !.meta.stats["lifetimeFlopsAllTime"] = @ + total]

\* Heat only moves while the player is there.
Warm(s, elapsed, now) ==
    LET owned == SumFunction([i \in Overclock |-> s.run.overclock[i].owned])
        heat == s.run.heat + owned * config.heat.perSec * elapsed
        thawed == [s EXCEPT !.run.heatCooldownUntil = None]
    IN  IF Frozen(s, now) THEN s
        ELSE IF heat >= config.heat.capacity THEN Overheat(thawed, now)
        ELSE [thawed EXCEPT !.run.heat = heat]

Thaw(s, now) == IF Frozen(s, now) THEN s ELSE [s EXCEPT !.run.heatCooldownUntil = None]

\* What the risk system does to the gap before it is paid.
Strike(s, now) ==
    IF riskEnabled THEN FireDueHazards(ActivateDueMaintenance(s, now), now)
    ELSE {[s EXCEPT !.server.outages = {}, !.server.gridMaintenance = None]}

\* Mutant. What has ended is dropped before the gap is paid.
SettleAfterPrune(s, last, now) ==
    Produce([s EXCEPT !.server.outages = PruneExpired(@, now)], last, now)

\* The gap is paid, then what has ended is dropped.
Settle(s, last, now) ==
    LET paid == Produce(s, last, now)
        lived == IF Online(last, now) THEN Warm(paid, now - last, now)
                 ELSE Thaw(AccrueJob(paid, now - last), now)
    IN  [lived EXCEPT !.server.outages = PruneExpired(@, now),
                      !.server.boost = IF @ # None /\ now >= @.until THEN None ELSE @]

\* A gap below a second is not evaluated at all.
Struck(s, last, now) ==
    IF now - last < 1 THEN {s} ELSE Strike([s EXCEPT !.server.outageNotices = {}], now)

Settled(s, last, now) == IF now - last < 1 THEN s ELSE Settle(s, last, now)

(***************************************************************************)
(* The load path.                                                          *)
(***************************************************************************)
Over(r, base) == [k \in DOMAIN r \cup DOMAIN base |-> Field(r, k, base[k])]
Within(r, k, base) == Over(Field(r, k, Nothing), base[k])
PadArray(list, fresh) == [i \in DOMAIN fresh |-> Over(Field(list, i, Nothing), fresh[i])]

\* Stock of a supply is clamped, so that no row absorbs hazards forever.
ReadSupplies(meta) ==
    LET supplies == Field(meta, "supplies", Nothing)
    IN  [id \in Supplies |-> Larger(0, Field(supplies, id, 0))]

\* A board has its size whatever was stored of it.
ReadContracts(meta, base) ==
    LET contracts == Field(meta, "contracts", Nothing)
    IN  [Over(contracts, base) EXCEPT
            !.targets = PadTo3(Field(contracts, "targets", Nothing)),
            !.claimed = Field(contracts, "claimed", {}) \cap (1 .. BoardSize)]

\* So has a track.
ReadColdStorage(meta, base) ==
    LET cold == Field(meta, "coldStorage", Nothing)
    IN  [Over(cold, base) EXCEPT
            !.blocksClaimed = Field(cold, "blocksClaimed", {}) \cap Blocks,
            !.upgrades = Within(cold, "upgrades", base)]

\* migrateSave: what a row does not store is as in a new save, and so is all of
\* a row that cannot be parsed; an outage or a maintenance window without an
\* extent is dropped.
MigrateSave(row, now) ==
    LET base == InitialState(now)
        run == Field(row, "run", Nothing)
        meta == Field(row, "meta", Nothing)
        server == Field(row, "server", Nothing)
        maintenance == Field(server, "gridMaintenance", None)
    IN  [run |-> [Over(run, base.run) EXCEPT
            !.tiers = PadArray(Field(run, "tiers", Nothing), base.run.tiers),
            !.grid = PadArray(Field(run, "grid", Nothing), base.run.grid),
            !.overclock = PadArray(Field(run, "overclock", Nothing), base.run.overclock)],
         meta |-> [Over(meta, base.meta) EXCEPT
            !.upgrades = Within(meta, "upgrades", base.meta),
            !.shardUpgrades = Within(meta, "shardUpgrades", base.meta),
            !.repeatable = Within(meta, "repeatable", base.meta),
            !.stats = Within(meta, "stats", base.meta),
            !.streak = Within(meta, "streak", base.meta),
            !.contracts = ReadContracts(meta, base.meta.contracts),
            !.supplies = ReadSupplies(meta),
            !.coldStorage = ReadColdStorage(meta, base.meta.coldStorage)],
         server |-> [Over(server, base.server) EXCEPT
            !.outages = {o \in Field(server, "outages", {}) : o.endAt > o.startAt},
            !.gridMaintenance = IF maintenance = None THEN None
                                ELSE IF maintenance.endAt > maintenance.startAt THEN maintenance ELSE None]]

(***************************************************************************)
(* The rows a player may come with: any part of a save, as this build or   *)
(* an older one wrote it at Start - 1 or before.  What migrateSave finds   *)
(* in a shape it does not read counts as not stored.  Nothing relates the  *)
(* parts: a row may hold tapes, levels or upgrades and none of the         *)
(* counters that were added later.                                         *)
(***************************************************************************)
Of(r, fields, S) == \A k \in fields : k \in DOMAIN r => r[k] \in S
Some(r, fields, S) == DOMAIN r \subseteq fields /\ Of(r, fields, S)

RunRow(run) ==
    /\ DOMAIN run \subseteq DOMAIN FreshRun
    /\ Of(run, {"credits", "lifetimeRun", "heat"}, Nat) /\ Of(run, {"heatCooldownUntil"}, Nat \cup {None})
    /\ \A lane \in Lanes :
           LET list == Field(run, lane, Nothing)
           IN  \A i \in DOMAIN list :
                   /\ DOMAIN list[i] \subseteq IF lane = "tiers" THEN {"owned", "manager", "ready"} ELSE {"owned"}
                   /\ Of(list[i], {"owned", "ready"}, Nat) /\ Of(list[i], {"manager"}, BOOLEAN)

ContractsRow(contracts) ==
    /\ DOMAIN contracts \subseteq {"dateKey", "targets", "baseline", "claimed"}
    /\ Of(contracts, {"dateKey"}, {None} \cup {UtcDateKey(t) : t \in 0 .. Start})
    /\ LET targets == Field(contracts, "targets", Nothing)
       IN  Of(targets, DOMAIN targets, Int)
    /\ Some(Field(contracts, "baseline", Nothing), DOMAIN ContractDefs, Int)

ColdStorageRow(cold) ==
    /\ DOMAIN cold \subseteq {"trackStartedAt", "blocksClaimed", "trackCycle", "tapes", "upgrades", "job"}
    /\ Of(cold, {"trackStartedAt"}, 0 .. Start) /\ Of(cold, {"trackCycle", "tapes"}, Nat)
    /\ Some(Field(cold, "upgrades", Nothing), DOMAIN TapeUpgradeDefs, Nat)
    /\ LET job == Field(cold, "job", None)
       IN  job # None => job \in [type : {"defrag", "deep"}, accruedOfflineSec : Nat, startedAt : Nat]

MetaRow(meta) ==
    /\ DOMAIN meta \subseteq DOMAIN FreshMeta(Start)
    /\ Of(meta, {"legacyCores", "wafers", "level", "xp", "singularityShards"}, Nat)
    /\ Field(meta, "goalsCompleted", {}) \subseteq DOMAIN GoalDefs
    /\ Some(Field(meta, "upgrades", Nothing), DOMAIN UpgradeDefs, Nat)
    /\ Some(Field(meta, "shardUpgrades", Nothing), DOMAIN SingularityDefs, Nat)
    /\ Some(Field(meta, "repeatable", Nothing), DOMAIN RepeatableDefs, Nat)
    /\ Some(Field(meta, "stats", Nothing), Counters, Nat)
    /\ Some(Field(meta, "supplies", Nothing), Supplies, Int)
    /\ LET streak == Field(meta, "streak", Nothing)
       IN  /\ DOMAIN streak \subseteq {"count", "lastClaimDate"}
           /\ Of(streak, {"count"}, Nat) /\ Of(streak, {"lastClaimDate"}, Int \cup {None})
    /\ ContractsRow(Field(meta, "contracts", Nothing))
    /\ ColdStorageRow(Field(meta, "coldStorage", Nothing))

ServerRow(server) ==
    /\ DOMAIN server \subseteq DOMAIN FreshServer \ {"outageNotices"}
    /\ Of(server, {"nextAnomalyAt", "anomalyExpiresAt", "lastVentAt", "nextHazardAt"}, Nat)
    /\ LET boost == Field(server, "boost", None)
       IN  boost # None => boost \in [mult : Nat, until : Nat]
    /\ IsFiniteSet(Field(server, "outages", {}))
    /\ \A o \in Field(server, "outages", {}) :
           /\ DOMAIN o = {"id", "kind", "scope", "factor", "startAt", "endAt", "source"}
           /\ o.factor \in 0 .. Full /\ o.startAt \in Nat /\ o.endAt \in Nat /\ o.startAt < Start
           /\ o.source = "hazard" => o.kind \in Range(HazardKinds)
    /\ LET maintenance == Field(server, "gridMaintenance", None)
       IN  maintenance # None => maintenance \in [index : Nat, startAt : Nat, endAt : Nat]

ASSUME RowAssumption ==
    \A p \in Players : p.row # None =>
        /\ DOMAIN p.row \subseteq {"run", "meta", "server"}
        /\ RunRow(Field(p.row, "run", Nothing))
        /\ MetaRow(Field(p.row, "meta", Nothing))
        /\ ServerRow(Field(p.row, "server", Nothing))

\* The row of the saves table: as the player came with it until a request writes
\* it, and then the save; a new player has none.
Stored ==
    IF lastSave = None THEN Nothing
    ELSE IF lastSave < Start THEN player.row ELSE save

AnomalyMissed(s, now) ==
    \/ s.server.nextAnomalyAt = 0
    \/ now > s.server.anomalyExpiresAt /\ s.server.nextAnomalyAt <= now

\* What is not scheduled is scheduled, whether the risk system is on or not.
Scheduled(s, now) ==
    LET anomaly == IF AnomalyMissed(s, now) THEN ScheduledAnomaly(s, now) ELSE {s}
        hazard == UNION {IF x.server.nextHazardAt = 0 THEN ScheduledHazards(x, now) ELSE {x} : x \in anomaly}
    IN  UNION {IF x.server.gridMaintenance = None THEN ScheduledMaintenance(x, now) ELSE {x} : x \in hazard}

RememberIncidents(struck, last, now) ==
    IF now - last < 1 THEN incidents
    ELSE IF ~riskEnabled THEN {}
    ELSE {o \in incidents : \A p \in struck.server.outages : p.id # o.id} \cup struck.server.outages

RememberBoard(loaded) ==
    LET c == loaded.meta.contracts
        types == DailyContractTypes(c.dateKey, IsColdUnlocked(loaded))
    IN  IF c.dateKey = save.meta.contracts.dateKey THEN board
        ELSE [i \in 1 .. Len(types) |->
                 [metric |-> types[i], target |-> c.targets[i], from |-> loaded.meta.stats[types[i]]]]

\* A request loads the save, brings it up to now and stores it.
Load ==
    LET last == IF lastSave = None THEN clock ELSE lastSave
        known == RecordLegacyCorePeak(MigrateSave(Stored, clock))
    IN  \E struck \in Struck(known, last, clock) :
            LET settled == Settled(struck, last, clock)
            IN  \E scheduled \in Scheduled(settled, clock) :
                    LET loaded == CheckAchievements(RolloverContracts(scheduled, clock), clock)
                    IN  /\ save' = loaded
                        /\ lastSave' = clock
                        /\ credited' = loaded.meta.stats["lifetimeFlopsAllTime"]
                                       - save.meta.stats["lifetimeFlopsAllTime"]
                        /\ incidents' = RememberIncidents(struck, last, clock)
                        /\ board' = RememberBoard(loaded)
                        /\ awayWork' = awayWork + IF Online(last, clock) THEN 0
                                                  ELSE (clock - last) * OfflineJobRate(save)
                        /\ UNCHANGED <<player, riskEnabled, clock, streakDays, peak, carried>>

(***************************************************************************)
(* The batch.  A history variable moves with the action it is about.       *)
(***************************************************************************)
RunActions ==
    \/ \E lane \in DOMAIN Units, mode \in {"one", "max", "milestone"} :
           \E i \in Units[lane] : Buy(lane, i, mode)
    \/ \E i \in Tiers : Collect(i) \/ HireManager(i)
    \/ CollectAll \/ Vent \/ Singularity \/ ClaimAnomaly
    \/ \E id \in DOMAIN UpgradeDefs : BuyUpgrade(id)
    \/ \E id \in DOMAIN SingularityDefs : BuyShardUpgrade(id)
    \/ \E id \in DOMAIN GoalDefs : ClaimGoal(id)
    \/ \E id \in DOMAIN RepeatableDefs : ClaimRepeatable(id)

ColdActions ==
    \/ \E i \in Blocks : ClaimBlock(i)
    \/ ClaimAllBlocks \/ ResetTrack \/ CancelJob \/ ClaimJob
    \/ \E type \in JobTypes : StartJob(type)
    \/ \E id \in DOMAIN TapeUpgradeDefs : BuyTapeUpgrade(id)

Act ==
    \/ /\ \/ RunActions
          \/ ColdActions
          \/ \E i \in 1 .. BoardSize : ClaimContract(i)
          \/ \E id \in Supplies : BuySupply(id)
       /\ UNCHANGED historyVars
    \/ \E o \in save.server.outages :
          /\ ResolveOutage(o)
          /\ incidents' = (incidents \ {o}) \cup {[o EXCEPT !.endAt = clock]}
          /\ UNCHANGED <<credited, board, streakDays, awayWork, peak, carried>>
    \/ /\ ClaimStreak
       /\ streakDays' = streakDays \cup {UtcDateKey(clock)}
       /\ UNCHANGED <<incidents, credited, board, awayWork, peak, carried>>
    \/ /\ Migrate
       /\ peak' = Larger(peak, save'.meta.legacyCores)
       /\ UNCHANGED <<incidents, credited, board, streakDays, awayWork, carried>>
    \/ /\ HardReset
       /\ incidents' = {} /\ board' = <<>> /\ streakDays' = {} /\ peak' = 0 /\ carried' = save'
       /\ UNCHANGED <<credited, awayWork>>

\* The administrator throws the master switch.
SetRisk ==
    /\ "risk" \in player.habit
    /\ riskEnabled' = ~riskEnabled
    /\ UNCHANGED <<player, clock, lastSave, save, historyVars>>

Tick ==
    /\ clock < player.until
    /\ clock' = clock + 1
    /\ UNCHANGED <<player, riskEnabled, lastSave, save, historyVars>>

\* The days a streak stands for.
DaysOf(streak) ==
    IF streak.lastClaimDate = None THEN {}
    ELSE {streak.lastClaimDate - k : k \in 0 .. streak.count - 1}

\* A new player, or one who comes with a row; what the row holds is taken as it is.
Init ==
    /\ player \in Players
    /\ riskEnabled = TRUE
    /\ clock = Start
    /\ lastSave = IF player.row = None THEN None ELSE Start - 1
    /\ save = MigrateSave(IF player.row = None THEN Nothing ELSE player.row, Start)
    /\ incidents = save.server.outages /\ credited = 0
    /\ board = LET c == save.meta.contracts
                   types == ContractsForState(save)
               IN  [i \in DOMAIN types |->
                       [metric |-> types[i], target |-> c.targets[i], from |-> Field(c.baseline, types[i], 0)]]
    /\ streakDays = DaysOf(save.meta.streak)
    /\ peak = Larger(save.meta.legacyCores, save.meta.stats["bestLegacyCores"])
    /\ awayWork = 0 /\ carried = save

Next == Load \/ Act \/ SetRisk \/ Tick

Spec == Init /\ [][Next]_vars

(***************************************************************************)
(* Properties.                                                             *)
(***************************************************************************)

\* A load credits each second of the gap at the factors of the outages that
\* covered it, fired late, cured or already over as they may be: evaluate()'s
\* closed form over the save's list agrees with that sum.
PaidForUptime ==
    [][(lastSave # None /\ lastSave' # lastSave) =>
          LET Down(lane, i, t) == {o \in incidents' : ScopeCovers(o.scope, lane, i) /\ o.startAt <= t /\ t < o.endAt}
              weight == [lane \in {"tiers", "grid"} |-> [i \in Units[lane] |->
                            SumFunction([t \in lastSave .. clock - 1 |-> Combined(Down(lane, i, t))])]]
          IN  (credited' = TotalProduced(save, lastSave, clock, weight))]_vars

\* However blocks are claimed, head starts bought and the track reset, every
\* cycle took at least the time of one block, but for one whose blocks were all
\* claimed in the row already.
CyclesTakeTime ==
    LET from == carried.meta.coldStorage
        cycles == save.meta.coldStorage.trackCycle - from.trackCycle
                  - IF from.blocksClaimed = Blocks THEN 1 ELSE 0
    IN  cycles * config.batchQueue.blockFloor <= clock - from.trackStartedAt

\* The jobs paid for, and the one in progress, are covered by time away.
JobWork(s) ==
    LET job == s.meta.coldStorage.job
        done == s.meta.stats["jobsCompletedLifetime"]
        deep == s.meta.stats["deepJobsCompletedLifetime"]
        Duration(type) == config.batchQueue.jobs[type].duration
    IN  deep * Duration("deep") + (done - deep) * Duration("defrag")
        + IF job = None THEN 0 ELSE job.accruedOfflineSec

JobsTakeAway == JobWork(save) <= JobWork(carried) + awayWork

\* A streak of n days was claimed on each of the last n days.
StreakIsEarned == DaysOf(save.meta.streak) \subseteq streakDays

\* No sequence of legal requests pays for time nobody waited: reset cycles,
\* jobs and streak days each stand for the time they are meant to take.
RewardsAreEarned == CyclesTakeTime /\ JobsTakeAway /\ StreakIsEarned

\* The board is the same all day, whatever is unlocked or lost meanwhile, and
\* a contract claimed since was met by what was done since the day's first load.
ClaimedSince ==
    LET c == save.meta.contracts
        from == carried.meta.contracts
    IN  IF c.dateKey = from.dateKey THEN c.claimed \ from.claimed ELSE c.claimed

ContractsMeasureToday ==
    /\ ContractsForState(save) = [i \in DOMAIN board |-> board[i].metric]
    /\ \A i \in ClaimedSince :
           Larger(0, save.meta.stats[board[i].metric] - board[i].from) >= board[i].target

\* What is missing between what was earned and what is held or was spent, of
\* tapes, wafers and xp.
Spent(def, level) == SumFunction([l \in 0 .. level - 1 |-> UpgradeCost(def, l)])
Paid(def, level) == SumFunction([l \in 0 .. level - 1 |-> RepeatablePay(def, l)])

TapesMissing(s) ==
    s.meta.stats["tapesEarnedLifetime"] - s.meta.coldStorage.tapes
        - SumFunction([id \in DOMAIN TapeUpgradeDefs |-> Spent(TapeUpgradeDefs[id], ColdLevel(s, id))])

WafersMissing(s) ==
    s.meta.stats["totalWafersEarned"] - s.meta.wafers
        - SumFunction([id \in DOMAIN UpgradeDefs |-> Spent(UpgradeDefs[id], s.meta.upgrades[id])])

XpMissing(s) ==
    SumFunction([id \in s.meta.goalsCompleted |-> GoalDefs[id].xp])
        + SumFunction([id \in DOMAIN RepeatableDefs |-> Paid(RepeatableDefs[id], s.meta.repeatable[id])])
        - SumFunction([l \in 0 .. s.meta.level - 1 |-> XpForLevel(l)]) - s.meta.xp

\* Every payer credits a balance and its lifetime counter alike, and every
\* buyer takes its price from the balance alone: a row may come with tapes that
\* no counter knows of, but nothing the player does adds to them or loses any.
BalancesAddUp ==
    /\ TapesMissing(save) = TapesMissing(carried)
    /\ WafersMissing(save) = WafersMissing(carried)
    /\ XpMissing(save) = XpMissing(carried)

\* Whatever a player reached, even between two actions of one batch, is held
\* as an achievement; the most cores ever held is on record, or still held.
NothingReachedIsMissed ==
    /\ lastSave = clock => AchievementsMet(save, clock) \subseteq save.meta.achievements
    /\ peak \in {save.meta.stats["bestLegacyCores"], save.meta.legacyCores}
=============================================================================
