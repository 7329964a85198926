------------------------------- MODULE Reducer ------------------------------
(***************************************************************************)
(* The handlers of shared/reducer.js for the run itself: buying,           *)
(* collecting, venting, prestige, upgrades, goals and anomalies.           *)
(***************************************************************************)
EXTENDS Economy

\* How many units a mode asks for; None when there is no such number.
ResolveBuyCount(s, lane, i, mode) ==
    LET owned == s.run[lane][i].owned
        next == NextMilestone(s, owned)
    IN  CASE mode = "max" -> MaxAffordable(lane, owned, s.run.credits)
          [] mode = "milestone" -> IF next = None THEN 0 ELSE next - owned
          [] mode = "one" -> 1

Buy(lane, i, mode) ==
    LET n == ResolveBuyCount(save, lane, i, mode)
        cost == CostForN(lane, save.run[lane][i].owned, n)
    IN  /\ Posts("buy")
        /\ ~(lane = "overclock" /\ Frozen(save, clock))
        /\ n > 0 /\ save.run[lane][i].owned + n <= MaxOwned
        /\ cost <= save.run.credits
        /\ Succeed([save EXCEPT !.run.credits = @ - cost, !.run[lane][i].owned = @ + n])

Emptied(s, is) ==
    [s EXCEPT !.run.credits = @ + SumFunction([i \in is |-> s.run.tiers[i].ready]),
              !.run.tiers = [i \in Tiers |-> IF i \in is THEN [@[i] EXCEPT !.ready = 0] ELSE @[i]]]

Collect(i) ==
    /\ Posts("collect")
    /\ save.run.tiers[i].ready > 0
    /\ Succeed(Emptied(save, {i}))

CollectAll ==
    /\ Posts("collectAll")
    /\ Succeed(Emptied(save, Tiers))

\* A manager is paid out of the balance before it collects what is ready.
HireManager(i) ==
    LET cost == config.managerCost
    IN  /\ Posts("hireManager")
        /\ ~save.run.tiers[i].manager
        /\ save.run.tiers[i].owned >= 1 /\ cost <= save.run.credits
        /\ Succeed([Emptied(save, {i}) EXCEPT !.run.credits = @ - cost,
                                              !.run.tiers[i].manager = TRUE])

Vent ==
    /\ Posts("vent")
    /\ clock >= save.server.lastVentAt + config.heat.ventCooldown
    /\ ~Frozen(save, clock)
    /\ Succeed([save EXCEPT !.server.lastVentAt = clock,
                            !.run.heat = Larger(0, @ - (config.heat.capacity * config.heat.ventPercent) \div 100)])

\* Migrate trades the run for cores; a shard upgrade adds one more per level.
Migrate ==
    LET gain == MigrateGain(save)
        start == 10 * Power(config.bootstrap, save.meta.shardUpgrades["bootstrap"])
    IN  /\ Posts("migrate")
        /\ gain > 0
        /\ Succeed([save EXCEPT !.run = [FreshRun EXCEPT !.credits = start],
                                !.meta.legacyCores = @ + gain + save.meta.shardUpgrades["echocores"],
                                !.meta.stats["migrates"] = @ + 1])

ShardsFor(cores) == Max({n \in 0 .. cores : n * n <= cores})

\* Mutant. The cores go before their peak is noted.
CollapseUnnoted ==
    LET shards == ShardsFor(save.meta.legacyCores)
    IN  /\ Posts("singularity")
        /\ shards > 0
        /\ Succeed([save EXCEPT !.run = FreshRun,
                                !.meta.legacyCores = 0,
                                !.meta.singularityShards = @ + shards,
                                !.meta.stats["singularities"] = @ + 1])

\* Singularity trades the cores for shards.
Singularity ==
    LET shards == ShardsFor(save.meta.legacyCores)
    IN  /\ Posts("singularity")
        /\ shards > 0
        /\ Succeed([RecordLegacyCorePeak(save) EXCEPT
                        !.run = FreshRun,
                        !.meta.legacyCores = 0,
                        !.meta.singularityShards = @ + shards,
                        !.meta.stats["singularities"] = @ + 1])

BuyUpgrade(id) ==
    LET level == save.meta.upgrades[id]
        cost == UpgradeCost(UpgradeDefs[id], level)
    IN  /\ Posts("buyUpgrade")
        /\ level < config.maxLevels[id]
        /\ cost <= save.meta.wafers
        /\ Succeed([save EXCEPT !.meta.wafers = @ - cost, !.meta.upgrades[id] = level + 1])

BuyShardUpgrade(id) ==
    LET level == save.meta.shardUpgrades[id]
        cost == UpgradeCost(SingularityDefs[id], level)
    IN  /\ Posts("buyShardUpgrade")
        /\ level < config.maxLevels[id]
        /\ cost <= save.meta.singularityShards
        /\ Succeed([save EXCEPT !.meta.singularityShards = @ - cost, !.meta.shardUpgrades[id] = level + 1])

ClaimGoal(id) ==
    LET def == GoalDefs[id]
    IN  /\ Posts("claimGoal")
        /\ id \notin save.meta.goalsCompleted
        /\ Metric(save, clock, def.metric) >= def.target
        /\ Succeed([PayWafers(save, def.wafers) EXCEPT
                        !.meta = ApplyLevelUps([@ EXCEPT !.goalsCompleted = save.meta.goalsCompleted \cup {id}],
                                               def.xp)])

\* Each level asks for more and pays more.
RepeatableTarget(def, level) == def.target * Power(def.growth, level)
RepeatablePay(def, level) == def.pay + level * def.perLevel

ClaimRepeatable(id) ==
    LET def == RepeatableDefs[id]
        level == save.meta.repeatable[id]
    IN  /\ Posts("claimRepeatable")
        /\ level < MaxOwned
        /\ Metric(save, clock, def.metric) >= RepeatableTarget(def, level)
        /\ Succeed([PayWafers(save, RepeatablePay(def, level)) EXCEPT
                        !.meta = ApplyLevelUps([@ EXCEPT !.repeatable[id] = level + 1],
                                               RepeatablePay(def, level))])

ScheduledAnomaly(s, now) ==
    {[s EXCEPT !.server.nextAnomalyAt = now + d,
               !.server.anomalyExpiresAt = now + d + config.anomaly.window] : d \in config.anomaly.delays}

\* Half the anomalies pay seconds of output, half boost it for a while.
ClaimAnomaly ==
    LET output == TotalOutputPerSec(save, clock)
    IN  /\ Posts("claimAnomaly")
        /\ save.server.nextAnomalyAt <= clock /\ clock <= save.server.anomalyExpiresAt
        /\ \/ \E seconds \in config.anomaly.seconds :
                  \E s \in ScheduledAnomaly(PayFlops(save, Larger(output * seconds, config.anomaly.floor)), clock) :
                      Succeed(s)
           \/ \E mult \in config.anomaly.mults, lasts \in config.anomaly.seconds :
                  \E s \in ScheduledAnomaly(
                              [save EXCEPT !.server.boost = [mult |-> mult, until |-> clock + lasts]], clock) :
                      Succeed(s)

\* Everything is gone, and only the anomaly is scheduled again.
HardReset ==
    /\ Posts("hardReset")
    /\ \E s \in ScheduledAnomaly(InitialState(clock), clock) : Succeed(s)
=============================================================================
