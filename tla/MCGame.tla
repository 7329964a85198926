------------------------------- MODULE MCGame -------------------------------
(***************************************************************************)
(* Game for TLC: two racks, one grid node and one overclock node, days of  *)
(* two seconds, tracks of two blocks, and players who each do one kind of  *)
(* thing.                                                                  *)
(***************************************************************************)
EXTENDS Game

MCTiers == {0, 1}
MCGrid == {0}
MCOverclock == {0}
MCBasePrice == [tiers |-> 1, grid |-> 1, overclock |-> 2]
MCBaseProd == [tiers |-> 2, grid |-> 2, overclock |-> 2]
MCUpgradeDefs == [firmware |-> [baseCost |-> 2, costMult |-> 2]]
MCSingularityDefs == [bootstrap |-> [baseCost |-> 1, costMult |-> 2],
                      infiniteloop |-> [baseCost |-> 1, costMult |-> 2],
                      echocores |-> [baseCost |-> 1, costMult |-> 2]]
MCTapeUpgradeDefs == [headstart |-> [baseCost |-> 1, costMult |-> 2],
                      robotarm |-> [baseCost |-> 1, costMult |-> 2],
                      priorityspinup |-> [baseCost |-> 1, costMult |-> 2],
                      compression |-> [baseCost |-> 2, costMult |-> 2]]
MCGoalDefs == [g1 |-> [metric |-> "racks", target |-> 1, xp |-> 3, wafers |-> 1],
               g3 |-> [metric |-> "managers", target |-> 1, xp |-> 1, wafers |-> 1]]
MCRepeatableDefs == [r_racks |-> [metric |-> "racks", target |-> 1, growth |-> 2, pay |-> 1, perLevel |-> 1]]
MCAchievementDefs == [first_migrate |-> [metric |-> "migrates", target |-> 1],
                      jackpot |-> [metric |-> "jackpot", target |-> 1],
                      deep_scrub |-> [metric |-> "deepJobsCompletedLifetime", target |-> 1],
                      level_1 |-> [metric |-> "level", target |-> 1],
                      streak_2 |-> [metric |-> "bestStreak", target |-> 2]]
MCContractDefs == [lifetimeFlopsAllTime |-> [lane |-> "base", base |-> 1, perLevel |-> 0, seconds |-> 1],
                   totalWafersEarned |-> [lane |-> "base", base |-> 1, perLevel |-> 1, seconds |-> 0],
                   blocksClaimedLifetime |-> [lane |-> "cold", base |-> 1, perLevel |-> 0, seconds |-> 0]]
Orders == <<<<"totalWafersEarned", "lifetimeFlopsAllTime", "blocksClaimedLifetime">>,
            <<"blocksClaimedLifetime", "totalWafersEarned", "lifetimeFlopsAllTime">>,
            <<"lifetimeFlopsAllTime", "blocksClaimedLifetime", "totalWafersEarned">>>>
MCShuffle == [day \in 0 .. MaxClock |-> Orders[1 + (day % 3)]]
MCDraw == [t \in 0 .. MaxClock, salt \in 0 .. 2 |-> (t + salt) % 6]

Kinds(e) == [ransomware |-> [enabled |-> e, factor |-> 2, duration |-> 3],
             ispOutage |-> [enabled |-> e, factor |-> 0, duration |-> 2],
             driveFailure |-> [enabled |-> e, factor |-> 0, duration |-> 1]]

BaseConfig == [
    milestones |-> {2}, coreFlops |-> 4, xpPerLevel |-> 2, bootstrap |-> 2, managerCost |-> 2,
    maxLevels |-> [firmware |-> 2, bootstrap |-> 1, infiniteloop |-> 1, echocores |-> 1,
                   headstart |-> 2, robotarm |-> 1, priorityspinup |-> 1, compression |-> 1],
    heat |-> [capacity |-> 4, perSec |-> 2, ventPercent |-> 50, ventCooldown |-> 1, overheatCooldown |-> 1],
    offline |-> [onlineGap |-> 1, hardCap |-> 2],
    anomaly |-> [window |-> 1, delays |-> {1}, seconds |-> {1, 2}, mults |-> {2}, floor |-> 1],
    batchQueue |-> [blockDuration |-> 2, blockFloor |-> 1, blockBaseTapes |-> 1, jackpot |-> 2,
                    flopsInterval |-> 2, flopsSeconds |-> 1,
                    jobs |-> [defrag |-> [duration |-> 2, tapes |-> 1],
                              deep |-> [duration |-> 3, tapes |-> 2]]],
    social |-> [contractWafers |-> 1, contractTapes |-> 1, streakMaxDay |-> 3,
                streakFlopsDays |-> 1, streakWafers |-> 1, streakTapes |-> 1],
    risk |-> [hazardsEnabled |-> FALSE, maintenanceEnabled |-> FALSE, overheatShutdownEnabled |-> FALSE,
              kinds |-> Kinds(TRUE), hazardDelays |-> {1},
              priceSeconds |-> [antivirus |-> 1, backupIsp |-> 1, spareDrives |-> 1],
              supplyPriceMin |-> 1, cureMultiplier |-> [num |-> 5, den |-> 2],
              maintenanceDelays |-> {2}, maintenanceDuration |-> 2,
              overheatOutage |-> 2, overclockBoostGain |-> 1]]

Risky == [BaseConfig EXCEPT !.risk.hazardsEnabled = TRUE, !.risk.maintenanceEnabled = TRUE,
                            !.risk.overheatShutdownEnabled = TRUE, !.risk.hazardDelays = {1, 2}]
Hot == [BaseConfig EXCEPT !.risk.overheatShutdownEnabled = TRUE]

\* What older builds wrote.  Before Cold Storage, stats and the server block:
\* units owned, FLOPS and, where the player had migrated, cores.
Units1(owned) == [i \in DOMAIN owned |-> [owned |-> owned[i]]]
OldRow(a, b, g, o, credits) ==
    [run |-> [credits |-> credits, tiers |-> Units1(0 :> a @@ 1 :> b),
              grid |-> Units1(0 :> g), overclock |-> Units1(0 :> o)],
     meta |-> [legacyCores |-> 0]]
CoresRow == [run |-> [tiers |-> Units1(1 :> 2), grid |-> Units1(0 :> 1)],
             meta |-> [legacyCores |-> 1, stats |-> [migrates |-> 1], shardUpgrades |-> [bootstrap |-> 0]]]

\* A player of version 1.1, with levels, wafers and what they bought.
V11Row == [
    run |-> [credits |-> 3, lifetimeRun |-> 5, grid |-> <<>>, overclock |-> <<>>, heat |-> 3,
             tiers |-> (0 :> [owned |-> 2, manager |-> TRUE, ready |-> 0])],
    meta |-> [legacyCores |-> 1, wafers |-> 4, level |-> 1, xp |-> 2, goalsCompleted |-> {"g1"},
              upgrades |-> [firmware |-> 1], shardUpgrades |-> <<>>, repeatable |-> <<>>, singularityShards |-> 0,
              stats |-> [migrates |-> 1, minigamesWon |-> 3, singularities |-> 0, totalWafersEarned |-> 5]]]

\* Cold Storage before its counters: tapes that no counter knows of, a track of
\* another length or with nothing left to claim, a job half done.
ColdRow(cold) == [run |-> [credits |-> 5, tiers |-> Units1(1 :> 1)],
                  meta |-> [wafers |-> 3, level |-> 1, coldStorage |-> [tapes |-> 2] @@ cold]]
LongTrack == [trackStartedAt |-> 1, trackCycle |-> 1, blocksClaimed |-> {0, 1, 7}]
JobRunning == [job |-> [type |-> "deep", accruedOfflineSec |-> 1, startedAt |-> 0]]

\* A board already dealt today and claimed from, and a streak up to yesterday.
DailyRow == [
    run |-> [tiers |-> Units1(0 :> 1 @@ 1 :> 1)],
    meta |-> [contracts |-> [dateKey |-> 1, targets |-> <<1>>, claimed |-> {1, 3},
                             baseline |-> [totalWafersEarned |-> 0, blocksClaimedLifetime |-> 0]],
              streak |-> [count |-> 2, lastClaimDate |-> 0]]]

\* A row of this build: a hazard and a boost in force, one due in the gap, a
\* stock that was edited, and a maintenance window without an extent.
RiskyRow == [
    run |-> OldRow(1, 1, 1, 0, 40).run,
    meta |-> [supplies |-> [antivirus |-> -1, spareDrives |-> 1]],
    server |-> [nextHazardAt |-> 1, boost |-> [mult |-> 2, until |-> 3],
                outages |-> {[id |-> <<"hazard", 0>>, kind |-> "ispOutage", scope |-> [lane |-> "grid", index |-> EveryIndex],
                              factor |-> 2, startAt |-> 0, endAt |-> 3, source |-> "hazard"]},
                gridMaintenance |-> [index |-> 0, startAt |-> 4, endAt |-> 4]]]

\* A row whose JSON is broken is read as if it held nothing.
BrokenRow == <<>>

Player(c, h, row, until) == [config |-> c, habit |-> h, row |-> row, until |-> until]

MCPlayers == {
    Player(Risky, {"buySupply", "resolveOutage"}, RiskyRow, 6),
    Player(Risky, {"risk", "buySupply"}, OldRow(1, 0, 1, 0, 4), 6),
    Player(Hot, {"vent", "claimAnomaly", "collectAll"}, OldRow(1, 1, 0, 1, 0), 6),
    Player(BaseConfig, {"buy", "vent", "collect"}, None, 4),
    Player(BaseConfig, {"claimBlock", "claimAllBlocks", "resetTrack", "buyTapeUpgrade"}, OldRow(1, 0, 0, 0, 0), 8),
    Player(BaseConfig, {"claimBlock", "claimAllBlocks", "resetTrack", "buyTapeUpgrade"}, ColdRow(LongTrack), 5),
    Player(BaseConfig, {"startJob", "cancelJob", "claimJob", "buyTapeUpgrade", "hardReset"}, BrokenRow, 8),
    Player(BaseConfig, {"startJob", "cancelJob", "claimJob", "hardReset"}, ColdRow(JobRunning), 6),
    Player(BaseConfig, {"migrate", "singularity", "buyShardUpgrade"}, CoresRow, 8),
    Player(BaseConfig, {"claimStreak", "claimContract", "migrate", "claimBlock"}, OldRow(1, 1, 0, 0, 0), 7),
    Player(BaseConfig, {"claimStreak", "claimContract", "migrate", "claimBlock"}, DailyRow, 5),
    Player(BaseConfig, {"hireManager", "claimGoal", "claimRepeatable", "buyUpgrade"}, V11Row, 6)}
=============================================================================
