------------------------------- MODULE Economy ------------------------------
(***************************************************************************)
(* One player's game: the save that evaluate() and the reducer rewrite     *)
(* (shared/state.js), the rates and prices derived from it (gameRules.js,  *)
(* goals.js) and what every successful action ends with (achievements.js). *)
(* One unit of time is one second.  Multipliers that only scale a number   *)
(* are left out, unless a property depends on them.                        *)
(***************************************************************************)
EXTENDS Integers, Sequences, FiniteSets, FiniteSetsExt, Pricing

CONSTANTS
    Tiers, Grid, Overclock,       \* indices of the three lanes' defs
    BasePrice, BaseProd,          \* lane -> a def's cost and output
    Growth,                       \* what each unit owned multiplies the next one's price by
    ColdTier,                     \* the tier that unlocks Cold Storage
    UpgradeDefs, SingularityDefs, TapeUpgradeDefs, \* id -> [baseCost, costMult]
    GoalDefs, RepeatableDefs, AchievementDefs,
    TotalBlocks,
    BoardSize,                    \* the contracts of a day
    Players,                      \* [config, habit, row, until]: the stored config, the
                                  \* actions one posts, the save an older build left or
                                  \* None, and how long one is followed
    Start, DayLength,
    MaxClock, MaxOwned,           \* bounds: the clock; the units owned of one def
    None

Lanes == {"tiers", "grid", "overclock"}
Supplies == {"antivirus", "backupIsp", "spareDrives"}
Positive == Nat \ {0}

\* A table of things to buy.
Shop(defs) ==
    IsFiniteSet(DOMAIN defs) /\ defs \in [DOMAIN defs -> [baseCost : Nat, costMult : Nat]]

\* validateConfig: what an administrator may store, with the counts of the
\* game's own tables that no one may change.
ValidConfigs == [
    milestones : SUBSET Nat, coreFlops : Positive, xpPerLevel : Positive, bootstrap : Nat, managerCost : Nat,
    maxLevels : [DOMAIN UpgradeDefs \cup DOMAIN SingularityDefs \cup DOMAIN TapeUpgradeDefs -> Positive],
    heat : [capacity : Positive, perSec : Nat, ventPercent : 0 .. 100, ventCooldown : Nat, overheatCooldown : Nat],
    offline : [onlineGap : Positive, hardCap : Positive],
    anomaly : [window : Positive, delays : SUBSET Positive, seconds : SUBSET Nat, mults : SUBSET Nat, floor : Nat],
    batchQueue : [blockDuration : Positive, blockFloor : Positive, blockBaseTapes : Positive, jackpot : Positive,
                  flopsInterval : Positive, flopsSeconds : Nat,
                  jobs : [{"defrag", "deep"} -> [duration : Positive, tapes : Positive]]],
    social : [contractWafers : Nat, contractTapes : Nat, streakMaxDay : Positive,
              streakFlopsDays : Nat, streakWafers : Nat, streakTapes : Nat],
    risk : [hazardsEnabled : BOOLEAN, maintenanceEnabled : BOOLEAN, overheatShutdownEnabled : BOOLEAN,
            kinds : [{"ransomware", "ispOutage", "driveFailure"} ->
                        [enabled : BOOLEAN, factor : Nat, duration : Positive]],
            hazardDelays : SUBSET Positive, priceSeconds : [Supplies -> Nat], supplyPriceMin : Nat,
            cureMultiplier : {r \in Ratios : r.num >= r.den}, maintenanceDelays : SUBSET Positive, maintenanceDuration : Positive,
            overheatOutage : Positive, overclockBoostGain : Nat]]

ASSUME IndexAssumption ==
    (\A L \in {Tiers, Grid, Overclock} : L \subseteq Nat /\ IsFiniteSet(L)) /\ ColdTier \in Tiers
ASSUME ClockAssumption ==
    /\ {Start, DayLength, TotalBlocks, Growth - 1} \subseteq Positive
    /\ {Growth, MaxClock, MaxOwned, BoardSize} \subseteq Nat
    /\ Start <= MaxClock /\ None \notin Int
ASSUME DefsAssumption ==
    /\ BasePrice \in [Lanes -> Nat] /\ BaseProd \in [Lanes -> Nat]
    /\ Shop(UpgradeDefs) /\ Shop(SingularityDefs) /\ Shop(TapeUpgradeDefs)
    /\ {"bootstrap", "infiniteloop", "echocores"} \subseteq DOMAIN SingularityDefs
    /\ {"headstart", "robotarm", "priorityspinup", "compression"} \subseteq DOMAIN TapeUpgradeDefs
    /\ IsFiniteSet(DOMAIN GoalDefs)
    /\ \A id \in DOMAIN GoalDefs : GoalDefs[id].xp \in Nat /\ GoalDefs[id].wafers \in Nat
    /\ IsFiniteSet(DOMAIN RepeatableDefs)
    /\ \A id \in DOMAIN RepeatableDefs : RepeatableDefs[id].pay \in Nat /\ RepeatableDefs[id].perLevel \in Nat
ASSUME PlayersAssumption ==
    \A p \in Players :
        p.config \in ValidConfigs /\ IsFiniteSet(p.config.milestones) /\ p.until \in 0 .. MaxClock

VARIABLES
    player,      \* one of Players, throughout
    riskEnabled, \* config.risk.enabled, the risk system's master switch
    clock,       \* Date.now() on the server
    lastSave,    \* saves.last_save
    save         \* the player's state, as the program reads what is stored

gameVars == <<player, riskEnabled, clock, lastSave, save>>

config == player.config

Units == [tiers |-> Tiers, grid |-> Grid, overclock |-> Overclock]
Counters == {"migrates", "singularities", "minigamesWon", "totalWafersEarned",
             "lifetimeFlopsAllTime", "blocksClaimedLifetime", "jobsCompletedLifetime",
             "deepJobsCompletedLifetime", "tapesEarnedLifetime",
             "contractsCompletedLifetime", "bestStreak", "bestLegacyCores"}

\* What need not be stored: an entry of a record or a list, or else a default.
Nothing == <<>>
Field(r, k, default) == IF k \in DOMAIN r THEN r[k] ELSE default

\* padTo3: a day's contracts, whatever a list holds.
PadTo3(list) == [i \in 1 .. BoardSize |-> Field(list, i, 0)]

\* A run as Migrate, Singularity and a reset leave it.
FreshRun == [
    credits |-> 10, lifetimeRun |-> 0,
    tiers |-> [i \in Tiers |-> [owned |-> 0, manager |-> FALSE, ready |-> 0]],
    grid |-> [i \in Grid |-> [owned |-> 0]],
    overclock |-> [i \in Overclock |-> [owned |-> 0]],
    heat |-> 0, heatCooldownUntil |-> None]

FreshMeta(now) == [
    legacyCores |-> 0, wafers |-> 0, level |-> 0, xp |-> 0, singularityShards |-> 0,
    goalsCompleted |-> {}, achievements |-> {},
    upgrades |-> [id \in DOMAIN UpgradeDefs |-> 0],
    shardUpgrades |-> [id \in DOMAIN SingularityDefs |-> 0],
    repeatable |-> [id \in DOMAIN RepeatableDefs |-> 0],
    stats |-> [c \in Counters |-> 0],
    contracts |-> [dateKey |-> None, targets |-> PadTo3(Nothing), baseline |-> Nothing, claimed |-> {}],
    streak |-> [count |-> 0, lastClaimDate |-> None],
    supplies |-> [id \in Supplies |-> 0],
    coldStorage |-> [trackStartedAt |-> now, blocksClaimed |-> {}, trackCycle |-> 0,
                     tapes |-> 0, upgrades |-> [id \in DOMAIN TapeUpgradeDefs |-> 0],
                     job |-> None]]

FreshServer == [
    nextAnomalyAt |-> 0, anomalyExpiresAt |-> 0, boost |-> None, lastVentAt |-> 0,
    outages |-> {}, outageNotices |-> {}, nextHazardAt |-> 0, gridMaintenance |-> None]

InitialState(now) == [run |-> FreshRun, meta |-> FreshMeta(now), server |-> FreshServer]

(***************************************************************************)
(* Prices, rates and levels.                                               *)
(***************************************************************************)
Larger(a, b) == IF a >= b THEN a ELSE b
Smaller(a, b) == IF a <= b THEN a ELSE b

\* b to the power n.
Power(b, n) == FoldFunction(LAMBDA x, y : x * y, 1, [k \in 1 .. n |-> b])

\* Each unit costs Growth times the one before it.
CostForN(lane, owned, n) ==
    BasePrice[lane] * Power(Growth, owned) * ((Power(Growth, n) - 1) \div (Growth - 1))

MaxAffordable(lane, owned, credits) ==
    Max({n \in 0 .. MaxOwned : CostForN(lane, owned, n) <= credits})

\* Every threshold passed doubles a def's output; an upgrade lowers them all.
MilestoneThresholds(s) ==
    {Larger(1, t - s.meta.shardUpgrades["infiniteloop"]) : t \in config.milestones}

NextMilestone(s, owned) ==
    LET ahead == {t \in MilestoneThresholds(s) : owned < t}
    IN  IF ahead = {} THEN None ELSE Min(ahead)

TierRate(s, lane, owned) ==
    owned * BaseProd[lane] * Power(2, Cardinality({t \in MilestoneThresholds(s) : owned >= t}))

\* A lane's output while all of it runs.
LaneOutput(s, lane) ==
    SumFunction([i \in Units[lane] |-> TierRate(s, lane, s.run[lane][i].owned)])

BoostMult(s, now) ==
    IF s.server.boost # None /\ now < s.server.boost.until THEN s.server.boost.mult ELSE 1

Frozen(s, now) == s.run.heatCooldownUntil # None /\ now < s.run.heatCooldownUntil

\* What the overclock lane adds to the racks it multiplies.
OverclockBonus(s) ==
    IF LaneOutput(s, "tiers") = 0 THEN 0
    ELSE config.risk.overclockBoostGain * LaneOutput(s, "overclock")

\* goalCtx: installed capacity, whatever is offline just now.
TotalOutputPerSec(s, now) ==
    BoostMult(s, now) * (LaneOutput(s, "tiers") + LaneOutput(s, "grid")
                         + IF Frozen(s, now) THEN 0 ELSE OverclockBonus(s))

MigrateGain(s) == s.run.lifetimeRun \div config.coreFlops

XpForLevel(level) == config.xpPerLevel * (level + 1)

\* An xp gain climbs as many levels as it pays for.
ApplyLevelUps(meta, gain) ==
    LET Climb(to) == SumFunction([l \in meta.level .. to - 1 |-> XpForLevel(l)])
        level == Max({l \in meta.level .. meta.level + meta.xp + gain : Climb(l) <= meta.xp + gain})
    IN  [meta EXCEPT !.level = level, !.xp = @ + gain - Climb(level)]

UpgradeCost(def, level) == def.baseCost * Power(def.costMult, level)

UtcDateKey(now) == now \div DayLength

(***************************************************************************)
(* Goals, repeatables and achievements are tables of metrics and targets.  *)
(***************************************************************************)
Owned(s, lane) == {s.run[lane][i].owned : i \in Units[lane]}

Metric(s, now, metric) ==
    CASE metric = "totalOutputPerSec" -> TotalOutputPerSec(s, now)
      [] metric = "racks" -> Max(Owned(s, "tiers"))
      [] metric = "managers" -> Cardinality({i \in Tiers : s.run.tiers[i].manager})
      [] metric = "legacyCores" -> s.meta.legacyCores
      [] metric = "level" -> s.meta.level
      [] metric = "jackpot" -> IF TotalBlocks - 1 \in s.meta.coldStorage.blocksClaimed THEN 1 ELSE 0
      [] metric = "goals" -> Cardinality(s.meta.goalsCompleted)
      [] OTHER -> s.meta.stats[metric]

AchievementsMet(s, now) ==
    {id \in DOMAIN AchievementDefs :
        Metric(s, now, AchievementDefs[id].metric) >= AchievementDefs[id].target}

CheckAchievements(s, now) == [s EXCEPT !.meta.achievements = @ \cup AchievementsMet(s, now)]

\* Called before anything can take cores away.
RecordLegacyCorePeak(s) ==
    [s EXCEPT !.meta.stats["bestLegacyCores"] = Larger(@, s.meta.legacyCores)]

(***************************************************************************)
(* applyAction: the handlers of one request run at its `now` on the state  *)
(* it loaded; a handler that refuses changes nothing.                      *)
(***************************************************************************)
Posts(type) == type \in player.habit /\ lastSave = clock

Succeed(s) ==
    /\ save' = CheckAchievements(s, clock)
    /\ UNCHANGED <<player, riskEnabled, clock, lastSave>>

\* FLOPS, wafers and tapes land in a balance and in its lifetime counter.
PayFlops(s, n) == [s EXCEPT !.run.credits = @ + n, !.run.lifetimeRun = @ + n]
PayWafers(s, n) == [s EXCEPT !.meta.wafers = @ + n, !.meta.stats["totalWafersEarned"] = @ + n]
PayTapes(s, n) == [s EXCEPT !.meta.coldStorage.tapes = @ + n, !.meta.stats["tapesEarnedLifetime"] = @ + n]
=============================================================================
