----------------------------- MODULE GameProofs -----------------------------
(***************************************************************************)
(* Proofs about Game.  What the properties read off a save is eight parts  *)
(* (Parts); for each handler of reducer.js, and each stage of evaluate()   *)
(* and of the load path, a lemma says which parts it keeps and what it     *)
(* does to the others (Step).  StepIs sums them up: whatever happens, the  *)
(* save is loaded (Loads), moves (Moves), is reset (Resets) or stays as it *)
(* is (Waits).  Each conjunct of the inductive invariant GameInv is        *)
(* preserved by these four.                                                *)
(***************************************************************************)
EXTENDS Game, OutagesProofs

(***************************************************************************)
(* The types.                                                              *)
(***************************************************************************)
RackSet == [owned : Nat, manager : BOOLEAN, ready : Nat]
NodeSet == [owned : Nat]

RunOK(r) ==
    /\ DOMAIN r = {"credits", "lifetimeRun", "tiers", "grid", "overclock", "heat", "heatCooldownUntil"}
    /\ r.credits \in Nat /\ r.lifetimeRun \in Nat /\ r.heat \in Nat
    /\ r.tiers \in [Tiers -> RackSet] /\ r.grid \in [Grid -> NodeSet] /\ r.overclock \in [Overclock -> NodeSet]

JobOK(job) ==
    job # None => /\ DOMAIN job = {"type", "accruedOfflineSec", "startedAt"}
                  /\ job.type \in {"defrag", "deep"} /\ job.accruedOfflineSec \in Nat

ColdOK(c) ==
    /\ DOMAIN c = {"trackStartedAt", "blocksClaimed", "trackCycle", "tapes", "upgrades", "job"}
    /\ c.trackStartedAt \in Nat /\ c.trackCycle \in Nat /\ c.tapes \in Nat
    /\ c.blocksClaimed \in SUBSET Blocks
    /\ c.upgrades \in [DOMAIN TapeUpgradeDefs -> Nat]
    /\ JobOK(c.job)

StreakOK(k) ==
    /\ k = [count |-> k.count, lastClaimDate |-> k.lastClaimDate]
    /\ k.count \in Nat /\ k.lastClaimDate \in Int \cup {None}

ContractsOK(c) ==
    /\ c = [dateKey |-> c.dateKey, targets |-> c.targets, baseline |-> c.baseline, claimed |-> c.claimed]
    /\ c.targets = PadTo3(c.targets) /\ c.claimed \in SUBSET (1 .. BoardSize)

MetaFields == {"legacyCores", "wafers", "level", "xp", "singularityShards", "goalsCompleted", "achievements",
               "upgrades", "shardUpgrades", "repeatable", "stats", "contracts", "streak", "supplies", "coldStorage"}

MetaOK(m) ==
    /\ DOMAIN m = MetaFields
    /\ m.legacyCores \in Nat /\ m.wafers \in Nat /\ m.level \in Nat /\ m.xp \in Nat /\ m.singularityShards \in Nat
    /\ m.goalsCompleted \in SUBSET DOMAIN GoalDefs
    /\ m.upgrades \in [DOMAIN UpgradeDefs -> Nat]
    /\ m.shardUpgrades \in [DOMAIN SingularityDefs -> Nat]
    /\ m.repeatable \in [DOMAIN RepeatableDefs -> Nat]
    /\ m.stats \in [Counters -> Nat]
    /\ m.supplies \in [Supplies -> Nat]
    /\ ContractsOK(m.contracts) /\ StreakOK(m.streak) /\ ColdOK(m.coldStorage)

ServerFields == {"nextAnomalyAt", "anomalyExpiresAt", "boost", "lastVentAt", "outages", "outageNotices",
                 "nextHazardAt", "gridMaintenance"}
Hazards == {"ransomware", "ispOutage", "driveFailure"}

OutageOK(o, now) ==
    /\ DOMAIN o = {"id", "kind", "scope", "factor", "startAt", "endAt", "source"}
    /\ o.factor \in Nat /\ o.startAt \in Nat /\ o.endAt \in Nat /\ o.startAt <= now
    /\ o.source = "hazard" => o.kind \in Hazards

ServerOK(v, now) ==
    /\ DOMAIN v = ServerFields
    /\ v.boost # None => v.boost.mult \in Nat
    /\ IsFiniteSet(v.outages) /\ \A o \in v.outages : OutageOK(o, now)
    /\ v.nextHazardAt \in Nat
    /\ v.gridMaintenance # None => v.gridMaintenance.startAt \in Nat /\ v.gridMaintenance.endAt \in Nat

SaveOK(s, now) ==
    /\ DOMAIN s = {"run", "meta", "server"}
    /\ RunOK(s.run) /\ MetaOK(s.meta) /\ ServerOK(s.server, now)

PlayerOK == player \in Players

\* A player's config is one validateConfig lets through.
LEMMA ConfigOK ==
    ASSUME PlayerOK
    PROVE  config \in ValidConfigs /\ IsFiniteSet(config.milestones) /\ player.until \in 0 .. MaxClock
  BY PlayersAssumption DEF PlayerOK, config

(***************************************************************************)
(* Rates and prices are counts.                                            *)
(***************************************************************************)
LEMMA Counts ==
    ASSUME NEW a \in Nat, NEW b \in Nat
    PROVE  a * b \in Nat /\ a + b \in Nat
  OBVIOUS

\* Milestone thresholds are finitely many counts.
LEMMA ThresholdsOK ==
    ASSUME PlayerOK, NEW s, MetaOK(s.meta)
    PROVE  MilestoneThresholds(s) \in SUBSET Nat /\ IsFiniteSet(MilestoneThresholds(s))
<1>1. s.meta.shardUpgrades["infiniteloop"] \in Nat
  BY DefsAssumption DEF MetaOK
<1>2. config.milestones \in SUBSET Nat /\ IsFiniteSet(config.milestones)
  BY ConfigOK DEF ValidConfigs
<1>. DEFINE n == s.meta.shardUpgrades["infiniteloop"]
<1>3. \A t \in Nat : Larger(1, t - n) \in Nat
  BY <1>1 DEF Larger
<1>4. IsFiniteSet({Larger(1, t - n) : t \in config.milestones})
  <2>. DEFINE M == config.milestones
              T == {Larger(1, t - n) : t \in M}
              f == [t \in M |-> Larger(1, t - n)]
  <2>1. f \in Surjection(M, T)
    BY DEF Surjection
  <2>. HIDE DEF f, T, M
  <2>2. IsFiniteSet(M)
    BY <1>2 DEF M
  <2>3. IsFiniteSet(T)
    BY <2>1, <2>2, FS_Surjection
  <2>. QED
    BY <2>3 DEF T, M
<1>. QED
  BY <1>2, <1>3, <1>4 DEF MilestoneThresholds

\* What the units of one def produce.
LEMMA TierRateNat ==
    ASSUME PlayerOK, NEW s, MetaOK(s.meta), NEW lane \in Lanes, NEW n \in Nat
    PROVE  TierRate(s, lane, n) \in Nat
<1>. DEFINE M == {t \in MilestoneThresholds(s) : n >= t}
<1>1. Cardinality(M) \in Nat
  BY ThresholdsOK, FS_Subset, FS_CardinalityType
<1>2. Power(2, Cardinality(M)) \in Nat
  <2>. DEFINE c == Cardinality(M)
  <2>1. c \in Int /\ 2 \in Nat
    BY <1>1
  <2>. HIDE DEF c, M
  <2>2. Power(2, c) \in Nat
    BY <2>1, PowerNat
  <2>. QED
    BY <2>2 DEF c
<1>3. BaseProd[lane] \in Nat
  BY DefsAssumption
<1>. HIDE DEF M
<1>4. n * BaseProd[lane] * Power(2, Cardinality(M)) \in Nat
  BY <1>2, <1>3, Counts
<1>. QED
  BY <1>4 DEF TierRate, M

\* Units are counted.
LEMMA UnitsAre ==
    /\ Units["tiers"] = Tiers /\ Units["grid"] = Grid /\ Units["overclock"] = Overclock
    /\ DOMAIN Units = Lanes
    /\ \A lane \in Lanes : IsFiniteSet(Units[lane]) /\ Units[lane] \in SUBSET Nat
  BY IndexAssumption DEF Units, Lanes

\* So is what is owned of one def.
LEMMA OwnedNat ==
    ASSUME NEW s, RunOK(s.run), NEW lane \in Lanes, NEW i \in Units[lane]
    PROVE  s.run[lane][i].owned \in Nat
  BY UnitsAre DEF RunOK, Lanes, RackSet, NodeSet

\* A lane's output is a count.
LEMMA LaneOutputNat ==
    ASSUME PlayerOK, NEW s, MetaOK(s.meta), RunOK(s.run), NEW lane \in Lanes
    PROVE  /\ LaneOutput(s, lane) \in Nat
           /\ \A i \in Units[lane] : TierRate(s, lane, s.run[lane][i].owned) <= LaneOutput(s, lane)
<1>. DEFINE f == [i \in Units[lane] |-> TierRate(s, lane, s.run[lane][i].owned)]
<1>1. IsFiniteSet(DOMAIN f) /\ \A i \in DOMAIN f : f[i] \in Nat
  BY UnitsAre, OwnedNat, TierRateNat
<1>2. SumFunction(f) \in Nat /\ \A i \in DOMAIN f : f[i] <= SumFunction(f)
  <2>. HIDE DEF f
  <2>. QED BY <1>1, SumNat, SumAbove
<1>3. LaneOutput(s, lane) = SumFunction(f)
  BY DEF LaneOutput
<1>. QED
  BY <1>2, <1>3

\* So is the whole output, with its boosts.
LEMMA TotalOutputNat ==
    ASSUME PlayerOK, NEW s, NEW t, SaveOK(s, t), NEW now
    PROVE  /\ TotalOutputPerSec(s, now) \in Nat /\ BoostMult(s, now) \in Nat
           /\ OverclockBonus(s) \in Nat
<1>1. /\ LaneOutput(s, "tiers") \in Nat /\ LaneOutput(s, "grid") \in Nat /\ LaneOutput(s, "overclock") \in Nat
  BY LaneOutputNat DEF SaveOK, Lanes
<1>2. config.risk.overclockBoostGain \in Nat
  BY ConfigOK DEF ValidConfigs
<1>3. OverclockBonus(s) \in Nat
  BY <1>1, <1>2, Counts DEF OverclockBonus
<1>4. BoostMult(s, now) \in Nat
  BY DEF BoostMult, SaveOK, ServerOK
<1>5. LaneOutput(s, "tiers") + LaneOutput(s, "grid") + (IF Frozen(s, now) THEN 0 ELSE OverclockBonus(s)) \in Nat
  BY <1>1, <1>3
<1>6. TotalOutputPerSec(s, now) \in Nat
  BY <1>4, <1>5, Counts DEF TotalOutputPerSec
<1>. QED
  BY <1>3, <1>4, <1>6

\* What n units cost.
LEMMA CostForNNat ==
    ASSUME NEW lane \in Lanes, NEW owned \in Nat, NEW n \in Nat
    PROVE  CostForN(lane, owned, n) \in Int /\ CostForN(lane, owned, 0) = 0
<1>1. Growth \in Nat /\ Growth - 1 > 0
  BY ClockAssumption DEF Positive
<1>2. /\ Power(Growth, owned) \in Nat /\ Power(Growth, n) \in Nat /\ Power(Growth, 0) = 1
  <2>1. owned \in Int /\ n \in Int /\ 0 \in Int /\ 0 = 0
    OBVIOUS
  <2>. QED
    BY <1>1, <2>1, PowerNat
<1>3. BasePrice[lane] \in Nat
  BY DefsAssumption
<1>. DEFINE p == Power(Growth, owned)  q == Power(Growth, n)  b == BasePrice[lane]
<1>4. (q - 1) \div (Growth - 1) \in Int
  BY <1>1, <1>2
<1>5. (1 - 1) \div (Growth - 1) = 0
  BY <1>1
<1>6. b * p \in Int
  BY <1>2, <1>3
<1>. HIDE DEF p, q, b
<1>7. b * p * ((q - 1) \div (Growth - 1)) \in Int
  BY <1>4, <1>6
<1>8. b * p * ((Power(Growth, 0) - 1) \div (Growth - 1)) = 0
  BY <1>2, <1>5, <1>6
<1>. QED
  BY <1>7, <1>8 DEF CostForN, p, q, b

\* How many units the credits buy.
LEMMA MaxAffordableNat ==
    ASSUME NEW lane \in Lanes, NEW owned \in Nat, NEW credits \in Nat
    PROVE  MaxAffordable(lane, owned, credits) \in Nat
<1>. DEFINE S == {n \in 0 .. MaxOwned : CostForN(lane, owned, n) <= credits}
<1>1. S \in SUBSET Int /\ S # {} /\ MaxOwned \in Int /\ \A n \in S : n <= MaxOwned
  BY CostForNNat, ClockAssumption
<1>2. Max(S) \in S
  <2>. HIDE DEF S
  <2>. QED BY <1>1, MaxIn
<1>. QED
  BY <1>2 DEF MaxAffordable

\* What an upgrade costs.
LEMMA UpgradeCostNat ==
    ASSUME NEW def \in [baseCost : Nat, costMult : Nat], NEW level \in Int
    PROVE  UpgradeCost(def, level) \in Nat
  BY PowerNat, Counts DEF UpgradeCost

(***************************************************************************)
(* What the properties read off a save.                                    *)
(***************************************************************************)
Track(s) == <<s.meta.coldStorage.trackStartedAt, s.meta.coldStorage.blocksClaimed, s.meta.coldStorage.trackCycle>>
Work(s) == <<s.meta.coldStorage.job, s.meta.stats["jobsCompletedLifetime"], s.meta.stats["deepJobsCompletedLifetime"]>>
Cores(s) == <<s.meta.legacyCores, s.meta.stats["bestLegacyCores"]>>
Tapes(s) == <<s.meta.stats["tapesEarnedLifetime"] - s.meta.coldStorage.tapes, s.meta.coldStorage.upgrades>>
Wafers(s) == <<s.meta.stats["totalWafersEarned"] - s.meta.wafers, s.meta.upgrades>>
Xp(s) == <<s.meta.level, s.meta.xp, s.meta.goalsCompleted, s.meta.repeatable>>

Parts == {"track", "work", "cores", "tapes", "wafers", "xp", "streak", "board"}

Keeps(s, t, parts) ==
    /\ "track" \in parts => Track(t) = Track(s)
    /\ "work" \in parts => Work(t) = Work(s)
    /\ "cores" \in parts => Cores(t) = Cores(s)
    /\ "tapes" \in parts => Tapes(t) = Tapes(s)
    /\ "wafers" \in parts => Wafers(t) = Wafers(s)
    /\ "xp" \in parts => Xp(t) = Xp(s)
    /\ "streak" \in parts => t.meta.streak = s.meta.streak
    /\ "board" \in parts => t.meta.contracts = s.meta.contracts
    /\ \A c \in Counters : s.meta.stats[c] <= t.meta.stats[c]

\* A step of a handler: a save of the right type that keeps some parts.
Step(s, t, now, parts) == SaveOK(t, now) /\ Keeps(s, t, parts)

\* Two steps one after the other keep what both keep.
LEMMA KeepsMore ==
    ASSUME NEW s, NEW t, NEW u, NEW p, NEW q, NEW now,
           SaveOK(s, now), Step(s, t, now, p), Step(t, u, now, q)
    PROVE  Step(s, u, now, p \cap q)
<1>1. \A c \in Counters : s.meta.stats[c] <= u.meta.stats[c]
  <2>1. \A c \in Counters : s.meta.stats[c] \in Int /\ t.meta.stats[c] \in Int /\ u.meta.stats[c] \in Int
    BY DEF Step, SaveOK, MetaOK
  <2>2. \A c \in Counters : s.meta.stats[c] <= t.meta.stats[c] /\ t.meta.stats[c] <= u.meta.stats[c]
    BY DEF Step, Keeps
  <2>. QED
    BY <2>1, <2>2
<1>. QED
  BY <1>1 DEF Step, Keeps

\* A step that leaves meta alone keeps every part.
LEMMA KeepsAll ==
    ASSUME NEW s, NEW t, NEW now, SaveOK(s, now), SaveOK(t, now), t.meta = s.meta
    PROVE  Step(s, t, now, Parts)
<1>1. \A c \in Counters : s.meta.stats[c] <= s.meta.stats[c]
  BY DEF SaveOK, MetaOK
<1>. QED
  BY <1>1, Zenon DEF Step, Keeps, Track, Work, Cores, Tapes, Wafers, Xp

\* Paying FLOPS into a run.
LEMMA RunCredits ==
    ASSUME NEW r, RunOK(r), NEW c \in Nat
    PROVE  RunOK([r EXCEPT !.credits = c])
  BY DEF RunOK

\* A save with another run.
LEMMA NewRun ==
    ASSUME NEW s, NEW now, SaveOK(s, now), NEW r, RunOK(r)
    PROVE  Step(s, [s EXCEPT !.run = r], now, Parts)
<1>1. SaveOK([s EXCEPT !.run = r], now) /\ [s EXCEPT !.run = r].meta = s.meta
  BY DEF SaveOK
<1>. QED
  BY <1>1, KeepsAll

\* A save with another server part.
LEMMA NewServer ==
    ASSUME NEW s, NEW now, SaveOK(s, now), NEW v, ServerOK(v, now)
    PROVE  Step(s, [s EXCEPT !.server = v], now, Parts)
<1>1. SaveOK([s EXCEPT !.server = v], now) /\ [s EXCEPT !.server = v].meta = s.meta
  BY DEF SaveOK
<1>. QED
  BY <1>1, KeepsAll

\* Achievements disturb nothing the properties read.
LEMMA CheckStep ==
    ASSUME NEW s, NEW now, NEW t, SaveOK(s, t)
    PROVE  Step(s, CheckAchievements(s, now), t, Parts)
<1>. DEFINE a == s.meta.achievements \cup AchievementsMet(s, now)
            m == [s.meta EXCEPT !.achievements = a]
            x == [s EXCEPT !.meta = m]
<1>1. CheckAchievements(s, now) = x
  BY DEF CheckAchievements
<1>. HIDE DEF a
<1>2. /\ DOMAIN m = MetaFields
      /\ \A k \in MetaFields \ {"achievements"} : m[k] = s.meta[k]
  BY DEF SaveOK, MetaOK
<1>. HIDE DEF m
<1>3. /\ m.legacyCores = s.meta.legacyCores /\ m.wafers = s.meta.wafers /\ m.level = s.meta.level
      /\ m.xp = s.meta.xp /\ m.singularityShards = s.meta.singularityShards
      /\ m.goalsCompleted = s.meta.goalsCompleted /\ m.upgrades = s.meta.upgrades
      /\ m.shardUpgrades = s.meta.shardUpgrades /\ m.repeatable = s.meta.repeatable
      /\ m.stats = s.meta.stats /\ m.supplies = s.meta.supplies /\ m.contracts = s.meta.contracts
      /\ m.streak = s.meta.streak /\ m.coldStorage = s.meta.coldStorage
  BY <1>2 DEF MetaFields
<1>4. MetaOK(m)
  BY <1>2, <1>3 DEF SaveOK, MetaOK
<1>5. SaveOK(x, t) /\ x.meta = m
  BY <1>4 DEF SaveOK
<1>6. \A c \in Counters : s.meta.stats[c] <= s.meta.stats[c]
  BY DEF SaveOK, MetaOK
<1>. HIDE DEF x
<1>. QED
  BY <1>1, <1>3, <1>5, <1>6 DEF Step, Keeps, Track, Work, Cores, Tapes, Wafers, Xp

\* payFlops.
LEMMA PayFlopsStep ==
    ASSUME NEW s, NEW now, SaveOK(s, now), NEW n \in Nat
    PROVE  Step(s, PayFlops(s, n), now, Parts) /\ PayFlops(s, n).meta = s.meta /\ PayFlops(s, n).server = s.server
<1>. DEFINE r == [s.run EXCEPT !.credits = @ + n, !.lifetimeRun = @ + n]
<1>1. RunOK(r)
  BY DEF RunOK, SaveOK
<1>2. PayFlops(s, n) = [s EXCEPT !.run = r]
  BY DEF PayFlops, SaveOK, RunOK
<1>. HIDE DEF r
<1>. QED
  BY <1>1, <1>2, NewRun DEF SaveOK

\* A save whose meta block m was rewritten, and nothing else.
LEMMA NewMeta ==
    ASSUME NEW s, NEW now, SaveOK(s, now), NEW m, MetaOK(m)
    PROVE  SaveOK([s EXCEPT !.meta = m], now) /\ [s EXCEPT !.meta = m].meta = m
           /\ [s EXCEPT !.meta = m].run = s.run /\ [s EXCEPT !.meta = m].server = s.server
  BY DEF SaveOK

\* One counter goes up.
LEMMA Counted ==
    ASSUME NEW stats \in [Counters -> Nat], NEW c \in Counters, NEW n \in Nat
    PROVE  /\ [stats EXCEPT ![c] = @ + n] \in [Counters -> Nat]
           /\ \A d \in Counters : stats[d] <= [stats EXCEPT ![c] = @ + n][d]
           /\ [stats EXCEPT ![c] = @ + n][c] = stats[c] + n
           /\ \A d \in Counters \ {c} : [stats EXCEPT ![c] = @ + n][d] = stats[d]
  OBVIOUS

\* payWafers: the balance and its lifetime counter move together.
LEMMA PayWafersStep ==
    ASSUME NEW s, NEW now, SaveOK(s, now), NEW n \in Nat
    PROVE  Step(s, PayWafers(s, n), now, Parts)
<1>. DEFINE st == [s.meta.stats EXCEPT !["totalWafersEarned"] = @ + n]
            m == [[s.meta EXCEPT !.wafers = @ + n] EXCEPT !.stats = st]
            x == [s EXCEPT !.meta = m]
<1>1. PayWafers(s, n) = x
  BY DEF PayWafers, SaveOK, MetaOK, MetaFields
<1>2. /\ st \in [Counters -> Nat] /\ \A d \in Counters : s.meta.stats[d] <= st[d]
      /\ st["totalWafersEarned"] = s.meta.stats["totalWafersEarned"] + n
      /\ \A d \in Counters \ {"totalWafersEarned"} : st[d] = s.meta.stats[d]
  <2>1. s.meta.stats \in [Counters -> Nat] /\ "totalWafersEarned" \in Counters
    BY DEF SaveOK, MetaOK, Counters
  <2>. QED
    BY <2>1, Counted
<1>. HIDE DEF st
<1>3. /\ DOMAIN m = MetaFields /\ m.wafers = s.meta.wafers + n /\ m.stats = st
      /\ \A k \in MetaFields \ {"wafers", "stats"} : m[k] = s.meta[k]
  BY DEF SaveOK, MetaOK, MetaFields
<1>. HIDE DEF m
<1>4. MetaOK(m)
  BY <1>2, <1>3 DEF SaveOK, MetaOK, MetaFields
<1>5. SaveOK(x, now) /\ x.meta = m
  BY <1>4, NewMeta
<1>. HIDE DEF x
<1>6. /\ m.stats["totalWafersEarned"] - m.wafers = s.meta.stats["totalWafersEarned"] - s.meta.wafers
  BY <1>2, <1>3 DEF SaveOK, MetaOK, Counters
<1>. QED
  BY <1>1, <1>2, <1>3, <1>5, <1>6 DEF Step, Keeps, Track, Work, Cores, Tapes, Wafers, Xp, MetaFields, Counters

\* payTapes: likewise.
LEMMA PayTapesStep ==
    ASSUME NEW s, NEW now, SaveOK(s, now), NEW n \in Nat
    PROVE  Step(s, PayTapes(s, n), now, Parts)
<1>. DEFINE st == [s.meta.stats EXCEPT !["tapesEarnedLifetime"] = @ + n]
            cs == [s.meta.coldStorage EXCEPT !.tapes = @ + n]
            m == [[s.meta EXCEPT !.coldStorage = cs] EXCEPT !.stats = st]
            x == [s EXCEPT !.meta = m]
<1>1. PayTapes(s, n) = x
  BY DEF PayTapes, SaveOK, MetaOK, MetaFields
<1>2. /\ st \in [Counters -> Nat] /\ \A d \in Counters : s.meta.stats[d] <= st[d]
      /\ st["tapesEarnedLifetime"] = s.meta.stats["tapesEarnedLifetime"] + n
      /\ \A d \in Counters \ {"tapesEarnedLifetime"} : st[d] = s.meta.stats[d]
  <2>1. s.meta.stats \in [Counters -> Nat] /\ "tapesEarnedLifetime" \in Counters
    BY DEF SaveOK, MetaOK, Counters
  <2>. QED
    BY <2>1, Counted
<1>. HIDE DEF st
<1>3. /\ ColdOK(cs) /\ cs.tapes = s.meta.coldStorage.tapes + n
      /\ cs.trackStartedAt = s.meta.coldStorage.trackStartedAt /\ cs.blocksClaimed = s.meta.coldStorage.blocksClaimed
      /\ cs.trackCycle = s.meta.coldStorage.trackCycle /\ cs.upgrades = s.meta.coldStorage.upgrades
      /\ cs.job = s.meta.coldStorage.job
  BY DEF SaveOK, MetaOK, ColdOK
<1>. HIDE DEF cs
<1>4. /\ DOMAIN m = MetaFields /\ m.coldStorage = cs /\ m.stats = st
      /\ \A k \in MetaFields \ {"coldStorage", "stats"} : m[k] = s.meta[k]
  BY DEF SaveOK, MetaOK, MetaFields
<1>. HIDE DEF m
<1>5. MetaOK(m)
  BY <1>2, <1>3, <1>4 DEF SaveOK, MetaOK, MetaFields
<1>6. SaveOK(x, now) /\ x.meta = m
  BY <1>5, NewMeta
<1>. HIDE DEF x
<1>7. /\ m.stats["tapesEarnedLifetime"] - m.coldStorage.tapes = s.meta.stats["tapesEarnedLifetime"] - s.meta.coldStorage.tapes
  BY <1>2, <1>3, <1>4 DEF SaveOK, MetaOK, ColdOK, Counters
<1>. QED
  BY <1>1, <1>2, <1>3, <1>4, <1>6, <1>7 DEF Step, Keeps, Track, Work, Cores, Tapes, Wafers, Xp, MetaFields, Counters

Ready == PlayerOK /\ SaveOK(save, clock) /\ clock \in Start .. MaxClock

\* A handler that ends well: the step it takes, and the achievements after it.
Ends(parts) == \E x : Step(save, x, clock, parts) /\ save' = CheckAchievements(x, clock)

\* buyUnit.
LEMMA BuyStep ==
    ASSUME Ready, NEW lane \in DOMAIN Units, NEW i \in Units[lane], NEW mode \in {"one", "max", "milestone"},
           Buy(lane, i, mode)
    PROVE  Ends(Parts)
<1>. DEFINE n == ResolveBuyCount(save, lane, i, mode)
            owned == save.run[lane][i].owned
            cost == CostForN(lane, owned, n)
            u == [save.run[lane][i] EXCEPT !.owned = @ + n]
            units == [save.run[lane] EXCEPT ![i] = u]
            r == [[save.run EXCEPT !.credits = @ - cost] EXCEPT ![lane] = units]
            x == [save EXCEPT !.run = r]
<1>0. lane \in Lanes /\ RunOK(save.run) /\ MetaOK(save.meta) /\ owned \in Nat
  BY UnitsAre, OwnedNat DEF Ready, SaveOK
<1>1. n \in Nat
  <2>1. CASE mode = "one"
    BY <2>1 DEF ResolveBuyCount
  <2>2. CASE mode = "max"
    BY <1>0, <2>2, MaxAffordableNat DEF ResolveBuyCount, RunOK
  <2>3. CASE mode = "milestone"
    <3>. DEFINE ahead == {t \in MilestoneThresholds(save) : owned < t}
    <3>1. ahead \in SUBSET Nat
      BY <1>0, ThresholdsOK DEF Ready
    <3>2. CASE ahead = {}
      BY <2>3, <3>2 DEF ResolveBuyCount, NextMilestone
    <3>3. CASE ahead # {}
      <4>1. Min(ahead) \in ahead
        <5>1. ahead \in SUBSET Int /\ 0 \in Int /\ \A t \in ahead : 0 <= t
          BY <3>1
        <5>. HIDE DEF ahead
        <5>. QED BY <3>3, <5>1, MinIn
      <4>2. Min(ahead) - owned \in Nat
        <5>1. ASSUME NEW m \in ahead PROVE m - owned \in Nat
          <6>1. m \in Nat /\ owned < m /\ owned \in Nat
            BY <1>0, <3>1, <5>1
          <6>. HIDE DEF owned
          <6>. QED BY <6>1
        <5>. HIDE DEF ahead, owned
        <5>. QED BY <4>1, <5>1
      <4>3. n = 0 \/ n = Min(ahead) - owned
        BY <2>3, <3>3 DEF ResolveBuyCount, NextMilestone
      <4>. QED
        BY <4>2, <4>3
    <3>. QED
      BY <3>2, <3>3
  <2>. QED
    BY <2>1, <2>2, <2>3
<1>2. cost \in Int /\ cost <= save.run.credits /\ save' = CheckAchievements([save EXCEPT !.run.credits = @ - cost, !.run[lane][i].owned = @ + n], clock)
  <2>1. cost \in Int
    <3>. HIDE DEF n, owned
    <3>. QED BY <1>0, <1>1, CostForNNat
  <2>. QED
    BY <2>1 DEF Buy, Succeed
<1>3. [save EXCEPT !.run.credits = @ - cost, !.run[lane][i].owned = @ + n] = x
  <2>. HIDE DEF cost, n
  <2>1. lane # "credits" /\ DOMAIN save.run = {"credits", "lifetimeRun", "tiers", "grid", "overclock", "heat", "heatCooldownUntil"}
    BY <1>0 DEF Lanes, RunOK
  <2>. QED
    BY <1>0, <2>1, ZenonT(60) DEF Ready, SaveOK
<1>4. RunOK(r)
  <2>. HIDE DEF cost, n
  <2>1. save.run.credits - cost \in Nat
    BY <1>0, <1>2 DEF RunOK
  <2>2. units \in [Units[lane] -> IF lane = "tiers" THEN RackSet ELSE NodeSet]
    <3>. HIDE DEF n
    <3>1. CASE lane = "tiers"
      BY <1>0, <1>1, <3>1, UnitsAre DEF RunOK, RackSet
    <3>2. CASE lane = "grid"
      BY <1>0, <1>1, <3>2, UnitsAre DEF RunOK, NodeSet
    <3>3. CASE lane = "overclock"
      BY <1>0, <1>1, <3>3, UnitsAre DEF RunOK, NodeSet
    <3>. QED
      BY <1>0, <3>1, <3>2, <3>3 DEF Lanes
  <2>. HIDE DEF units
  <2>. QED
    BY <1>0, <2>1, <2>2, UnitsAre DEF RunOK, Lanes
<1>. HIDE DEF r, cost, n
<1>. QED
  BY <1>2, <1>3, <1>4, NewRun DEF Ends, Ready

\* Racks that were collected.
LEMMA EmptiedStep ==
    ASSUME NEW s, NEW now, SaveOK(s, now), NEW is \in SUBSET Tiers
    PROVE  /\ Step(s, Emptied(s, is), now, Parts) /\ Emptied(s, is).meta = s.meta
           /\ Emptied(s, is).server = s.server
           /\ Emptied(s, is).run.credits >= s.run.credits
<1>. DEFINE f == [i \in is |-> s.run.tiers[i].ready]
            got == SumFunction(f)
            tiers == [i \in Tiers |-> IF i \in is THEN [s.run.tiers[i] EXCEPT !.ready = 0] ELSE s.run.tiers[i]]
            r == [[s.run EXCEPT !.credits = @ + got] EXCEPT !.tiers = tiers]
<1>1. got \in Nat
  <2>1. IsFiniteSet(DOMAIN f) /\ \A i \in DOMAIN f : f[i] \in Nat
    BY IndexAssumption, FS_Subset DEF SaveOK, RunOK, RackSet
  <2>. HIDE DEF f
  <2>. QED
    BY <2>1, SumNat
<1>2. tiers \in [Tiers -> RackSet]
  BY DEF SaveOK, RunOK, RackSet
<1>3. Emptied(s, is) = [s EXCEPT !.run = r]
  BY DEF Emptied, SaveOK, RunOK
<1>. HIDE DEF got, tiers
<1>4. RunOK(r) /\ r.credits >= s.run.credits
  BY <1>1, <1>2 DEF SaveOK, RunOK
<1>. HIDE DEF r
<1>. QED
  BY <1>3, <1>4, NewRun DEF SaveOK

\* hireManager.
LEMMA HireStep ==
    ASSUME Ready, NEW i \in Tiers, HireManager(i)
    PROVE  Ends(Parts)
<1>. DEFINE e == Emptied(save, {i})
            cost == config.managerCost
            u == [e.run.tiers[i] EXCEPT !.manager = TRUE]
            tiers == [e.run.tiers EXCEPT ![i] = u]
            r == [[e.run EXCEPT !.credits = @ - cost] EXCEPT !.tiers = tiers]
            x == [e EXCEPT !.run = r]
<1>1. Step(save, e, clock, Parts) /\ e.run.credits >= save.run.credits
  BY EmptiedStep DEF Ready
<1>2. cost \in Nat /\ cost <= save.run.credits
  BY ConfigOK DEF Ready, ValidConfigs, HireManager
<1>3. save' = CheckAchievements([e EXCEPT !.run.credits = @ - cost, !.run.tiers[i].manager = TRUE], clock)
  BY DEF HireManager, Succeed
<1>. HIDE DEF e, cost
<1>4. [e EXCEPT !.run.credits = @ - cost, !.run.tiers[i].manager = TRUE] = x
  BY <1>1 DEF Step, SaveOK, RunOK
<1>5. RunOK(r)
  <2>1. RunOK(e.run) /\ e.run.credits - cost \in Nat
    BY <1>1, <1>2 DEF Step, SaveOK, RunOK, Ready
  <2>2. tiers \in [Tiers -> RackSet]
    BY <2>1 DEF RunOK, RackSet
  <2>. HIDE DEF tiers
  <2>. QED BY <2>1, <2>2 DEF RunOK
<1>. HIDE DEF r
<1>6. Step(e, x, clock, Parts)
  BY <1>1, <1>5, NewRun DEF Step
<1>. HIDE DEF x
<1>7. Step(save, x, clock, Parts)
  <2>1. Step(save, x, clock, Parts \cap Parts)
    BY <1>1, <1>6, KeepsMore DEF Ready
  <2>. QED
    BY <2>1
<1>. QED
  BY <1>3, <1>4, <1>7 DEF Ends

\* collect and collectAll.
LEMMA CollectStep ==
    ASSUME Ready, NEW i \in Tiers, Collect(i) \/ CollectAll
    PROVE  Ends(Parts)
<1>1. \A is \in SUBSET Tiers : Step(save, Emptied(save, is), clock, Parts)
  BY EmptiedStep DEF Ready
<1>2. CASE Collect(i)
  BY <1>1, <1>2 DEF Collect, Succeed, Ends
<1>3. CASE CollectAll
  BY <1>1, <1>3 DEF CollectAll, Succeed, Ends
<1>. QED
  BY <1>2, <1>3

\* ventHeat.
LEMMA VentStep ==
    ASSUME Ready, Vent
    PROVE  Ends(Parts)
<1>. DEFINE drop == (config.heat.capacity * config.heat.ventPercent) \div 100
            heat == Larger(0, save.run.heat - drop)
            r == [save.run EXCEPT !.heat = heat]
            v == [save.server EXCEPT !.lastVentAt = clock]
            x == [[save EXCEPT !.server = v] EXCEPT !.run = r]
<1>1. drop \in Int
  <2>1. config.heat.capacity \in Int /\ config.heat.ventPercent \in Int
    BY ConfigOK DEF Ready, ValidConfigs, Positive
  <2>2. config.heat.capacity * config.heat.ventPercent \in Int
    BY <2>1
  <2>. QED
    BY <2>2
<1>2. save' = CheckAchievements([save EXCEPT !.server.lastVentAt = clock, !.run.heat = Larger(0, @ - drop)], clock)
  BY DEF Vent, Succeed
<1>. HIDE DEF drop
<1>3. heat \in Nat
  BY <1>1 DEF Larger, Ready, SaveOK, RunOK
<1>4. [save EXCEPT !.server.lastVentAt = clock, !.run.heat = Larger(0, @ - drop)] = x
  BY DEF Ready, SaveOK, RunOK
<1>. HIDE DEF heat
<1>5. RunOK(r) /\ ServerOK(v, clock)
  BY <1>3 DEF Ready, SaveOK, RunOK, ServerOK, ServerFields
<1>. HIDE DEF r, v
<1>6. SaveOK(x, clock) /\ x.meta = save.meta
  BY <1>5 DEF Ready, SaveOK
<1>. HIDE DEF x
<1>. QED
  BY <1>2, <1>4, <1>6, KeepsAll DEF Ends, Ready

\* A step within the server part.
LEMMA ServerFieldsOnly ==
    ASSUME NEW s, NEW now, SaveOK(s, now), NEW v, DOMAIN v = ServerFields,
           v.boost # None => v.boost.mult \in Nat,
           v.outages = s.server.outages, v.nextHazardAt = s.server.nextHazardAt,
           v.gridMaintenance = s.server.gridMaintenance
    PROVE  ServerOK(v, now)
  BY DEF SaveOK, ServerOK

\* Scheduling the next anomaly touches the server block alone.
LEMMA ScheduledAnomalyStep ==
    ASSUME NEW s, NEW now, NEW t, SaveOK(s, now), NEW x \in ScheduledAnomaly(s, t)
    PROVE  Step(s, x, now, Parts) /\ x.meta = s.meta /\ x.run = s.run
<1>1. PICK d \in config.anomaly.delays :
          x = [s EXCEPT !.server.nextAnomalyAt = t + d, !.server.anomalyExpiresAt = t + d + config.anomaly.window]
  BY DEF ScheduledAnomaly
<1>. DEFINE v == [[s.server EXCEPT !.nextAnomalyAt = t + d] EXCEPT !.anomalyExpiresAt = t + d + config.anomaly.window]
<1>2. x = [s EXCEPT !.server = v]
  BY <1>1 DEF SaveOK
<1>3. ServerOK(v, now)
  <2>1. /\ DOMAIN v = ServerFields /\ v.boost = s.server.boost
        /\ v.outages = s.server.outages /\ v.nextHazardAt = s.server.nextHazardAt
        /\ v.gridMaintenance = s.server.gridMaintenance
    BY DEF SaveOK, ServerOK, ServerFields
  <2>2. s.server.boost # None => s.server.boost.mult \in Nat
    BY DEF SaveOK, ServerOK
  <2>. HIDE DEF v
  <2>. QED
    BY <2>1, <2>2, ServerFieldsOnly
<1>. HIDE DEF v
<1>. QED
  BY <1>2, <1>3, NewServer DEF SaveOK

\* claimAnomaly.
LEMMA AnomalyStep ==
    ASSUME Ready, ClaimAnomaly
    PROVE  Ends(Parts)
<1>. DEFINE output == TotalOutputPerSec(save, clock)
<1>1. CASE \E seconds \in config.anomaly.seconds :
              \E s \in ScheduledAnomaly(PayFlops(save, Larger(output * seconds, config.anomaly.floor)), clock) :
                  Succeed(s)
  <2>1. PICK seconds \in config.anomaly.seconds :
              \E s \in ScheduledAnomaly(PayFlops(save, Larger(output * seconds, config.anomaly.floor)), clock) :
                  Succeed(s)
    BY <1>1
  <2>. DEFINE n == Larger(output * seconds, config.anomaly.floor)
              p == PayFlops(save, n)
  <2>2. PICK s \in ScheduledAnomaly(p, clock) : save' = CheckAchievements(s, clock)
    BY <2>1 DEF Succeed
  <2>3. n \in Nat
    <3>1. output \in Nat
      BY TotalOutputNat DEF Ready
    <3>2. seconds \in Nat /\ config.anomaly.floor \in Nat
      BY ConfigOK DEF Ready, ValidConfigs
    <3>. HIDE DEF output
    <3>3. output * seconds \in Nat
      BY <3>1, <3>2, Counts
    <3>. QED
      BY <3>2, <3>3 DEF Larger
  <2>. HIDE DEF n
  <2>4. Step(save, p, clock, Parts)
    BY <2>3, PayFlopsStep DEF Ready
  <2>. HIDE DEF p
  <2>5. Step(p, s, clock, Parts)
    BY <2>4, ScheduledAnomalyStep DEF Step
  <2>6. Step(save, s, clock, Parts \cap Parts)
    BY <2>4, <2>5, KeepsMore DEF Ready
  <2>7. Step(save, s, clock, Parts)
    BY <2>6
  <2>. QED
    BY <2>2, <2>7 DEF Ends
<1>2. CASE \E mult \in config.anomaly.mults, lasts \in config.anomaly.seconds :
              \E s \in ScheduledAnomaly([save EXCEPT !.server.boost = [mult |-> mult, until |-> clock + lasts]], clock) :
                  Succeed(s)
  <2>1. PICK mult \in config.anomaly.mults, lasts \in config.anomaly.seconds :
              \E s \in ScheduledAnomaly([save EXCEPT !.server.boost = [mult |-> mult, until |-> clock + lasts]], clock) :
                  Succeed(s)
    BY <1>2
  <2>. DEFINE b == [mult |-> mult, until |-> clock + lasts]
              v == [save.server EXCEPT !.boost = b]
              p == [save EXCEPT !.server = v]
  <2>2. PICK s \in ScheduledAnomaly([save EXCEPT !.server.boost = b], clock) : save' = CheckAchievements(s, clock)
    BY <2>1 DEF Succeed
  <2>3. b.mult \in Nat
    BY ConfigOK DEF Ready, ValidConfigs
  <2>. HIDE DEF b
  <2>4. [save EXCEPT !.server.boost = b] = p
    BY DEF Ready, SaveOK
  <2>5. ServerOK(v, clock)
    <3>1. /\ DOMAIN v = ServerFields /\ v.boost = b
          /\ v.outages = save.server.outages /\ v.nextHazardAt = save.server.nextHazardAt
          /\ v.gridMaintenance = save.server.gridMaintenance
      BY DEF Ready, SaveOK, ServerOK, ServerFields
    <3>. HIDE DEF v
    <3>. QED
      BY <2>3, <3>1, ServerFieldsOnly DEF Ready
  <2>. HIDE DEF v
  <2>6. Step(save, p, clock, Parts)
    BY <2>5, NewServer DEF Ready
  <2>. HIDE DEF p
  <2>7. Step(p, s, clock, Parts)
    BY <2>2, <2>4, <2>6, ScheduledAnomalyStep DEF Step
  <2>8. Step(save, s, clock, Parts \cap Parts)
    BY <2>6, <2>7, KeepsMore DEF Ready
  <2>9. Step(save, s, clock, Parts)
    BY <2>8
  <2>. QED
    BY <2>2, <2>9 DEF Ends
<1>. QED
  BY <1>1, <1>2 DEF ClaimAnomaly

\* What a shop asks is a count.
LEMMA ShopCost ==
    ASSUME NEW defs, Shop(defs), NEW id \in DOMAIN defs, NEW level \in Nat
    PROVE  UpgradeCost(defs[id], level) \in Nat
<1>1. defs[id] \in [baseCost : Nat, costMult : Nat]
  BY DEF Shop
<1>2. level \in Int
  OBVIOUS
<1>. QED
  BY <1>1, <1>2, UpgradeCostNat

\* buySingularityUpgrade.
LEMMA ShardUpgradeStep ==
    ASSUME Ready, NEW id \in DOMAIN SingularityDefs, BuyShardUpgrade(id)
    PROVE  Ends(Parts)
<1>. DEFINE level == save.meta.shardUpgrades[id]
            cost == UpgradeCost(SingularityDefs[id], level)
            ups == [save.meta.shardUpgrades EXCEPT ![id] = level + 1]
            m == [[save.meta EXCEPT !.singularityShards = @ - cost] EXCEPT !.shardUpgrades = ups]
            x == [save EXCEPT !.meta = m]
<1>1. level \in Nat
  BY DEF Ready, SaveOK, MetaOK
<1>2. cost \in Nat
  <2>. HIDE DEF level
  <2>. QED BY <1>1, ShopCost, DefsAssumption
<1>3. /\ cost <= save.meta.singularityShards
      /\ save' = CheckAchievements([save EXCEPT !.meta.singularityShards = @ - cost, !.meta.shardUpgrades[id] = level + 1], clock)
  BY DEF BuyShardUpgrade, Succeed
<1>4. ups \in [DOMAIN SingularityDefs -> Nat]
  BY <1>1 DEF Ready, SaveOK, MetaOK
<1>. HIDE DEF level, cost
<1>5. [save EXCEPT !.meta.singularityShards = @ - cost, !.meta.shardUpgrades[id] = level + 1] = x
  BY DEF Ready, SaveOK, MetaOK, MetaFields
<1>. HIDE DEF ups
<1>6. /\ DOMAIN m = MetaFields /\ m.shardUpgrades = ups /\ m.singularityShards = save.meta.singularityShards - cost
      /\ \A k \in MetaFields \ {"shardUpgrades", "singularityShards"} : m[k] = save.meta[k]
  BY DEF Ready, SaveOK, MetaOK, MetaFields
<1>. HIDE DEF m
<1>7. MetaOK(m)
  BY <1>2, <1>3, <1>4, <1>6 DEF Ready, SaveOK, MetaOK, MetaFields
<1>8. SaveOK(x, clock) /\ x.meta = m
  BY <1>7, NewMeta DEF Ready
<1>9. \A c \in Counters : save.meta.stats[c] <= save.meta.stats[c]
  BY DEF Ready, SaveOK, MetaOK
<1>. HIDE DEF x
<1>10. Step(save, x, clock, Parts)
  BY <1>6, <1>8, <1>9 DEF Step, Keeps, Track, Work, Cores, Tapes, Wafers, Xp, MetaFields
<1>. QED
  BY <1>3, <1>5, <1>10 DEF Ends

\* What a supply costs.
LEMMA SupplyCostNat ==
    ASSUME Ready, NEW supply \in Supplies
    PROVE  SupplyCost(save, supply, clock) \in Nat
<1>1. TotalOutputPerSec(save, clock) \in Nat
  BY TotalOutputNat DEF Ready
<1>2. config.risk.priceSeconds[supply] \in Nat /\ config.risk.supplyPriceMin \in Nat
  BY ConfigOK DEF Ready, ValidConfigs
<1>3. TotalOutputPerSec(save, clock) * config.risk.priceSeconds[supply] \in Nat
  BY <1>1, <1>2, Counts
<1>. QED
  BY <1>2, <1>3 DEF SupplyCost, SupplyPrice

\* buySupply.
LEMMA SupplyStep ==
    ASSUME Ready, NEW id \in Supplies, BuySupply(id)
    PROVE  Ends(Parts)
<1>. DEFINE cost == SupplyCost(save, id, clock)
            ups == [save.meta.supplies EXCEPT ![id] = @ + 1]
            m == [save.meta EXCEPT !.supplies = ups]
            r == [save.run EXCEPT !.credits = @ - cost]
            y == [save EXCEPT !.run = r]
            x == [y EXCEPT !.meta = m]
<1>1. cost \in Nat
  BY SupplyCostNat
<1>2. /\ cost <= save.run.credits
      /\ save' = CheckAchievements([save EXCEPT !.run.credits = @ - cost, !.meta.supplies[id] = @ + 1], clock)
  BY DEF BuySupply, Succeed
<1>. HIDE DEF cost
<1>3. [save EXCEPT !.run.credits = @ - cost, !.meta.supplies[id] = @ + 1] = x
  BY DEF Ready, SaveOK, MetaOK, MetaFields
<1>4. ups \in [Supplies -> Nat]
  BY DEF Ready, SaveOK, MetaOK
<1>5. RunOK(r)
  <2>1. RunOK(save.run) /\ save.run.credits - cost \in Nat
    BY <1>1, <1>2 DEF Ready, SaveOK, RunOK
  <2>. QED BY <2>1 DEF RunOK
<1>. HIDE DEF ups, r
<1>6. Step(save, y, clock, Parts) /\ y.meta = save.meta
  BY <1>5, NewRun DEF Ready, SaveOK
<1>7. /\ DOMAIN m = MetaFields /\ m.supplies = ups
      /\ \A k \in MetaFields \ {"supplies"} : m[k] = save.meta[k]
  BY DEF Ready, SaveOK, MetaOK, MetaFields
<1>. HIDE DEF m
<1>8. MetaOK(m)
  BY <1>4, <1>7 DEF Ready, SaveOK, MetaOK, MetaFields
<1>. HIDE DEF y
<1>9. SaveOK(x, clock) /\ x.meta = m
  BY <1>6, <1>8, NewMeta DEF Step
<1>10. \A c \in Counters : save.meta.stats[c] <= save.meta.stats[c]
  BY DEF Ready, SaveOK, MetaOK
<1>. HIDE DEF x
<1>11. Step(save, x, clock, Parts)
  BY <1>7, <1>9, <1>10 DEF Step, Keeps, Track, Work, Cores, Tapes, Wafers, Xp, MetaFields
<1>. QED
  BY <1>2, <1>3, <1>11 DEF Ends

\* resolveOutage.
LEMMA ResolveStep ==
    ASSUME Ready, NEW o \in save.server.outages, ResolveOutage(o)
    PROVE  Ends(Parts)
<1>. DEFINE cost == PriceOfCure(o)
            e == [o EXCEPT !.endAt = clock]
            down == (save.server.outages \ {o}) \cup {e}
            v == [save.server EXCEPT !.outages = down]
            r == [save.run EXCEPT !.credits = @ - cost]
            y == [save EXCEPT !.run = r]
            x == [y EXCEPT !.server = v]
<1>0. OutageOK(o, clock) /\ clock \in Nat
  BY ClockAssumption DEF Ready, SaveOK, ServerOK, Positive
<1>1. cost \in Int
  <2>. DEFINE price == SupplyCost(save, SupplyForKind[o.kind], clock)
              mult == config.risk.cureMultiplier
              total == o.endAt - o.startAt
              left == o.endAt - clock
  <2>1. SupplyForKind[o.kind] \in Supplies
    BY <1>0 DEF ResolveOutage, OutageOK, Hazards, SupplyForKind, Supplies
  <2>2. price \in Int
    BY <2>1, SupplyCostNat
  <2>3. mult.num \in Nat /\ mult.den \in Nat /\ mult.den > 0
    BY ConfigOK DEF Ready, ValidConfigs, Ratios
  <2>4. total \in Nat /\ total > 0 /\ left \in Nat
    BY <1>0 DEF ResolveOutage, OutageOK
  <2>. DEFINE num == (price * mult.num) * (total + left)
              den == (1 * mult.den) * total
  <2>5. cost = (num + den - 1) \div den
    BY DEF PriceOfCure, CureCost, Times, Ceiling
  <2>. HIDE DEF price, mult, total, left, cost
  <2>6. price * mult.num \in Int /\ total + left \in Int /\ 1 * mult.den \in Nat /\ 1 * mult.den > 0
    BY <2>2, <2>3, <2>4
  <2>7. num \in Int /\ den \in Int /\ den > 0
    <3>1. \A a \in Int, c \in Int : a * c \in Int
      OBVIOUS
    <3>2. \A a \in Nat, c \in Nat : a > 0 /\ c > 0 => a * c > 0
      OBVIOUS
    <3>3. num \in Int
      BY <2>6, <3>1
    <3>. QED
      BY <2>4, <2>6, <3>1, <3>2, <3>3
  <2>. HIDE DEF num, den
  <2>8. num + den - 1 \in Int
    BY <2>7
  <2>. QED
    BY <2>5, <2>7, <2>8
<1>2. /\ cost <= save.run.credits
      /\ save' = CheckAchievements([save EXCEPT !.run.credits = @ - cost,
                            !.server.outages = (@ \ {o}) \cup {[o EXCEPT !.endAt = clock]}], clock)
  BY DEF ResolveOutage, Succeed
<1>. HIDE DEF cost
<1>3. [save EXCEPT !.run.credits = @ - cost, !.server.outages = (@ \ {o}) \cup {[o EXCEPT !.endAt = clock]}] = x
  BY DEF Ready, SaveOK, ServerOK
<1>4. OutageOK(e, clock)
  BY <1>0 DEF OutageOK
<1>. HIDE DEF e
<1>5. RunOK(r)
  <2>1. RunOK(save.run) /\ save.run.credits - cost \in Nat
    BY <1>1, <1>2 DEF Ready, SaveOK, RunOK
  <2>. QED BY <2>1 DEF RunOK
<1>. HIDE DEF r
<1>6. Step(save, y, clock, Parts) /\ y.server = save.server /\ y.meta = save.meta
  BY <1>5, NewRun DEF Ready, SaveOK
<1>7. IsFiniteSet(down) /\ \A p \in down : OutageOK(p, clock)
  <2>1. IsFiniteSet(save.server.outages) /\ \A p \in save.server.outages : OutageOK(p, clock)
    BY DEF Ready, SaveOK, ServerOK
  <2>. QED
    BY <1>4, <2>1, FS_RemoveElement, FS_AddElement
<1>. HIDE DEF down
<1>8. ServerOK(v, clock)
  BY <1>7 DEF Ready, SaveOK, ServerOK, ServerFields
<1>. HIDE DEF v, y
<1>9. Step(y, x, clock, Parts)
  BY <1>6, <1>8, NewServer DEF Step
<1>. HIDE DEF x
<1>10. Step(save, x, clock, Parts \cap Parts)
  BY <1>6, <1>9, KeepsMore DEF Ready
<1>11. Step(save, x, clock, Parts)
  BY <1>10
<1>. QED
  BY <1>2, <1>3, <1>11 DEF Ends

\* A new run has its types.
LEMMA FreshRunOK ==
    ASSUME NEW c \in Nat
    PROVE  RunOK(FreshRun) /\ RunOK([FreshRun EXCEPT !.credits = c])
<1>1. RunOK(FreshRun)
  BY DEF RunOK, FreshRun, RackSet, NodeSet
<1>. QED
  BY <1>1, RunCredits

\* migrate: cores are gained, and the record is not touched.
LEMMA MigrateStep ==
    ASSUME Ready, Migrate
    PROVE  \E x : /\ Step(save, x, clock, Parts \ {"cores"}) /\ save' = CheckAchievements(x, clock)
                  /\ x.meta.legacyCores >= save.meta.legacyCores
                  /\ x.meta.stats["bestLegacyCores"] = save.meta.stats["bestLegacyCores"]
<1>. DEFINE gain == MigrateGain(save)
            begin == 10 * Power(config.bootstrap, save.meta.shardUpgrades["bootstrap"])
            echo == save.meta.shardUpgrades["echocores"]
            st == [save.meta.stats EXCEPT !["migrates"] = @ + 1]
            m == [[save.meta EXCEPT !.legacyCores = @ + gain + echo] EXCEPT !.stats = st]
            r == [FreshRun EXCEPT !.credits = begin]
            y == [save EXCEPT !.run = r]
            x == [y EXCEPT !.meta = m]
<1>1. gain \in Nat
  BY ConfigOK DEF Ready, SaveOK, RunOK, MigrateGain, ValidConfigs, Positive
<1>2. echo \in Nat /\ begin \in Nat
  <2>1. echo \in Nat /\ save.meta.shardUpgrades["bootstrap"] \in Int
    BY DefsAssumption DEF Ready, SaveOK, MetaOK
  <2>2. config.bootstrap \in Nat
    BY ConfigOK DEF Ready, ValidConfigs
  <2>3. Power(config.bootstrap, save.meta.shardUpgrades["bootstrap"]) \in Nat
    BY <2>1, <2>2, PowerNat
  <2>. QED
    BY <2>1, <2>3, Counts
<1>3. save' = CheckAchievements([save EXCEPT !.run = [FreshRun EXCEPT !.credits = begin],
                                !.meta.legacyCores = @ + gain + echo,
                                !.meta.stats["migrates"] = @ + 1], clock)
  BY DEF Migrate, Succeed
<1>. HIDE DEF gain, begin, echo
<1>4. [save EXCEPT !.run = [FreshRun EXCEPT !.credits = begin],
                   !.meta.legacyCores = @ + gain + echo,
                   !.meta.stats["migrates"] = @ + 1] = x
  BY DEF Ready, SaveOK, MetaOK, MetaFields
<1>5. Step(save, y, clock, Parts) /\ y.meta = save.meta
  BY <1>2, FreshRunOK, NewRun DEF Ready, SaveOK
<1>6. /\ st \in [Counters -> Nat] /\ \A d \in Counters : save.meta.stats[d] <= st[d]
      /\ \A d \in Counters \ {"migrates"} : st[d] = save.meta.stats[d]
  <2>1. save.meta.stats \in [Counters -> Nat] /\ "migrates" \in Counters
    BY DEF Ready, SaveOK, MetaOK, Counters
  <2>. QED
    BY <2>1, Counted
<1>. HIDE DEF st, r
<1>7. /\ DOMAIN m = MetaFields /\ m.stats = st /\ m.legacyCores = save.meta.legacyCores + gain + echo
      /\ \A k \in MetaFields \ {"stats", "legacyCores"} : m[k] = save.meta[k]
  BY DEF Ready, SaveOK, MetaOK, MetaFields
<1>. HIDE DEF m
<1>8. MetaOK(m)
  BY <1>1, <1>2, <1>6, <1>7 DEF Ready, SaveOK, MetaOK, MetaFields
<1>. HIDE DEF y
<1>9. SaveOK(x, clock) /\ x.meta = m
  BY <1>5, <1>8, NewMeta DEF Step
<1>10. m.legacyCores >= save.meta.legacyCores
  BY <1>1, <1>2, <1>7 DEF Ready, SaveOK, MetaOK
<1>. HIDE DEF x
<1>11. Step(save, x, clock, Parts \ {"cores"})
  BY <1>6, <1>7, <1>9 DEF Step, Keeps, Track, Work, Tapes, Wafers, Xp, MetaFields, Counters
<1>. QED
  BY <1>3, <1>4, <1>6, <1>7, <1>9, <1>10, <1>11 DEF Counters

\* singularity: cores are lost, after the record has been taken.
LEMMA SingularityStep ==
    ASSUME Ready, Singularity
    PROVE  \E x : /\ Step(save, x, clock, Parts \ {"cores"}) /\ save' = CheckAchievements(x, clock)
                  /\ x.meta.legacyCores = 0
                  /\ x.meta.stats["bestLegacyCores"] = Larger(save.meta.stats["bestLegacyCores"], save.meta.legacyCores)
<1>. DEFINE shards == ShardsFor(save.meta.legacyCores)
            best == Larger(save.meta.stats["bestLegacyCores"], save.meta.legacyCores)
            su == [save.meta.stats EXCEPT !["bestLegacyCores"] = best]
            st == [su EXCEPT !["singularities"] = @ + 1]
            m == [[[save.meta EXCEPT !.legacyCores = 0] EXCEPT !.singularityShards = @ + shards] EXCEPT !.stats = st]
            y == [save EXCEPT !.run = FreshRun]
            x == [y EXCEPT !.meta = m]
<1>0. save.meta.legacyCores \in Nat /\ save.meta.stats["bestLegacyCores"] \in Nat
  BY DEF Ready, SaveOK, MetaOK, Counters
<1>1. shards \in Nat
  <2>. DEFINE c == save.meta.legacyCores
              S == {n \in 0 .. c : n * n <= c}
  <2>1. S \in SUBSET Int /\ 0 \in S /\ c \in Int /\ \A n \in S : n <= c
    BY <1>0
  <2>2. Max(S) \in S
    <3>. HIDE DEF S, c
    <3>. QED BY <2>1, MaxIn
  <2>3. S \in SUBSET Nat
    BY <1>0
  <2>. HIDE DEF S
  <2>. QED
    BY <2>2, <2>3 DEF ShardsFor, S
<1>2. best \in Nat /\ best >= save.meta.stats["bestLegacyCores"]
  BY <1>0 DEF Larger
<1>3. save' = CheckAchievements([RecordLegacyCorePeak(save) EXCEPT
                        !.run = FreshRun,
                        !.meta.legacyCores = 0,
                        !.meta.singularityShards = @ + shards,
                        !.meta.stats["singularities"] = @ + 1], clock)
  BY DEF Singularity, Succeed
<1>4. RecordLegacyCorePeak(save) = [save EXCEPT !.meta.stats["bestLegacyCores"] = best]
  BY DEF RecordLegacyCorePeak, Ready, SaveOK, MetaOK, MetaFields, Counters
<1>. HIDE DEF shards, best
<1>5. [[save EXCEPT !.meta.stats["bestLegacyCores"] = best] EXCEPT
                        !.run = FreshRun,
                        !.meta.legacyCores = 0,
                        !.meta.singularityShards = @ + shards,
                        !.meta.stats["singularities"] = @ + 1] = x
  <2>. DEFINE z == [save EXCEPT !.meta.stats["bestLegacyCores"] = best]
  <2>1. /\ DOMAIN z = DOMAIN save /\ z.run = save.run /\ z.server = save.server
        /\ z.meta = [save.meta EXCEPT !.stats = su]
    BY DEF Ready, SaveOK, MetaOK
  <2>2. [z EXCEPT !.run = FreshRun, !.meta.legacyCores = 0, !.meta.singularityShards = @ + shards,
                  !.meta.stats["singularities"] = @ + 1] = x
    <3>. HIDE DEF z, su
    <3>. QED BY <2>1, ZenonT(60) DEF Ready, SaveOK, MetaOK, MetaFields
  <2>. QED
    BY <2>2
<1>6. Step(save, y, clock, Parts) /\ y.meta = save.meta
  BY FreshRunOK, NewRun DEF Ready, SaveOK
<1>7. /\ su \in [Counters -> Nat] /\ \A d \in Counters : save.meta.stats[d] <= su[d]
      /\ \A d \in Counters \ {"bestLegacyCores"} : su[d] = save.meta.stats[d]
      /\ su["bestLegacyCores"] = best
  BY <1>2 DEF Ready, SaveOK, MetaOK, Counters
<1>. HIDE DEF su
<1>8. /\ st \in [Counters -> Nat] /\ \A d \in Counters : su[d] <= st[d]
      /\ \A d \in Counters \ {"singularities"} : st[d] = su[d]
  <2>1. "singularities" \in Counters
    BY DEF Counters
  <2>. QED
    BY <1>7, <2>1, Counted
<1>9. \A d \in Counters : save.meta.stats[d] <= st[d]
  <2>1. \A d \in Counters : save.meta.stats[d] \in Int /\ su[d] \in Int /\ st[d] \in Int
    BY <1>7, <1>8 DEF Ready, SaveOK, MetaOK
  <2>. QED
    BY <1>7, <1>8, <2>1
<1>. HIDE DEF st
<1>10. /\ DOMAIN m = MetaFields /\ m.stats = st /\ m.legacyCores = 0
       /\ m.singularityShards = save.meta.singularityShards + shards
       /\ \A k \in MetaFields \ {"stats", "legacyCores", "singularityShards"} : m[k] = save.meta[k]
  BY DEF Ready, SaveOK, MetaOK, MetaFields
<1>. HIDE DEF m
<1>11. MetaOK(m)
  BY <1>1, <1>8, <1>10 DEF Ready, SaveOK, MetaOK, MetaFields
<1>. HIDE DEF y
<1>12. SaveOK(x, clock) /\ x.meta = m
  BY <1>6, <1>11, NewMeta DEF Step
<1>. HIDE DEF x
<1>13. Step(save, x, clock, Parts \ {"cores"})
  BY <1>7, <1>8, <1>9, <1>10, <1>12 DEF Step, Keeps, Track, Work, Tapes, Wafers, Xp, MetaFields, Counters
<1>. QED
  <2>1. save' = CheckAchievements(x, clock)
    BY <1>3, <1>4, <1>5
  <2>2. x.meta.stats["bestLegacyCores"] = best /\ x.meta.legacyCores = 0
    BY <1>7, <1>8, <1>10, <1>12 DEF Counters
  <2>. QED
    BY <1>13, <2>1, <2>2 DEF best

\* buyUpgrade: wafers for a level.
LEMMA UpgradeStep ==
    ASSUME Ready, NEW id \in DOMAIN UpgradeDefs, BuyUpgrade(id)
    PROVE  \E x : /\ Step(save, x, clock, Parts \ {"wafers"}) /\ save' = CheckAchievements(x, clock)
                  /\ x.meta.stats = save.meta.stats
                  /\ x.meta.upgrades = [save.meta.upgrades EXCEPT ![id] = @ + 1]
                  /\ x.meta.wafers = save.meta.wafers - UpgradeCost(UpgradeDefs[id], save.meta.upgrades[id])
<1>. DEFINE level == save.meta.upgrades[id]
            cost == UpgradeCost(UpgradeDefs[id], level)
            ups == [save.meta.upgrades EXCEPT ![id] = level + 1]
            m == [[save.meta EXCEPT !.wafers = @ - cost] EXCEPT !.upgrades = ups]
            x == [save EXCEPT !.meta = m]
<1>1. level \in Nat
  BY DEF Ready, SaveOK, MetaOK
<1>2. cost \in Nat
  <2>. HIDE DEF level
  <2>. QED BY <1>1, ShopCost, DefsAssumption
<1>3. /\ cost <= save.meta.wafers
      /\ save' = CheckAchievements([save EXCEPT !.meta.wafers = @ - cost, !.meta.upgrades[id] = level + 1], clock)
  BY DEF BuyUpgrade, Succeed
<1>4. ups \in [DOMAIN UpgradeDefs -> Nat] /\ ups = [save.meta.upgrades EXCEPT ![id] = @ + 1]
  BY <1>1 DEF Ready, SaveOK, MetaOK
<1>. HIDE DEF cost
<1>5. [save EXCEPT !.meta.wafers = @ - cost, !.meta.upgrades[id] = level + 1] = x
  BY DEF Ready, SaveOK, MetaOK, MetaFields
<1>. HIDE DEF ups, level
<1>6. /\ DOMAIN m = MetaFields /\ m.upgrades = ups /\ m.wafers = save.meta.wafers - cost
      /\ \A k \in MetaFields \ {"upgrades", "wafers"} : m[k] = save.meta[k]
  BY DEF Ready, SaveOK, MetaOK, MetaFields
<1>. HIDE DEF m
<1>7. MetaOK(m)
  BY <1>2, <1>3, <1>4, <1>6 DEF Ready, SaveOK, MetaOK, MetaFields
<1>8. SaveOK(x, clock) /\ x.meta = m
  BY <1>7, NewMeta DEF Ready
<1>9. \A c \in Counters : save.meta.stats[c] <= save.meta.stats[c]
  BY DEF Ready, SaveOK, MetaOK
<1>. HIDE DEF x
<1>10. Step(save, x, clock, Parts \ {"wafers"})
  BY <1>6, <1>8, <1>9 DEF Step, Keeps, Track, Work, Cores, Tapes, Xp, MetaFields
<1>11. m.stats = save.meta.stats
  BY <1>6 DEF MetaFields
<1>. QED
  BY <1>3, <1>4, <1>5, <1>6, <1>8, <1>10, <1>11 DEF cost, level

\* buyTapeUpgrade: tapes for a level.
LEMMA TapeUpgradeStep ==
    ASSUME Ready, NEW id \in DOMAIN TapeUpgradeDefs, BuyTapeUpgrade(id)
    PROVE  \E x : /\ Step(save, x, clock, Parts \ {"tapes"}) /\ save' = CheckAchievements(x, clock)
                  /\ x.meta.stats = save.meta.stats
                  /\ x.meta.coldStorage.upgrades = [save.meta.coldStorage.upgrades EXCEPT ![id] = @ + 1]
                  /\ x.meta.coldStorage.tapes = save.meta.coldStorage.tapes - UpgradeCost(TapeUpgradeDefs[id], ColdLevel(save, id))
<1>. DEFINE level == ColdLevel(save, id)
            cost == UpgradeCost(TapeUpgradeDefs[id], level)
            ups == [save.meta.coldStorage.upgrades EXCEPT ![id] = level + 1]
            cs == [[save.meta.coldStorage EXCEPT !.tapes = @ - cost] EXCEPT !.upgrades = ups]
            m == [save.meta EXCEPT !.coldStorage = cs]
            x == [save EXCEPT !.meta = m]
<1>1. level \in Nat
  BY DEF Ready, SaveOK, MetaOK, ColdOK, ColdLevel
<1>2. cost \in Nat
  <2>. HIDE DEF level
  <2>. QED BY <1>1, ShopCost, DefsAssumption
<1>3. /\ cost <= save.meta.coldStorage.tapes
      /\ save' = CheckAchievements([save EXCEPT !.meta.coldStorage.tapes = @ - cost,
                                                !.meta.coldStorage.upgrades[id] = level + 1], clock)
  BY DEF BuyTapeUpgrade, Succeed
<1>4. ups \in [DOMAIN TapeUpgradeDefs -> Nat] /\ ups = [save.meta.coldStorage.upgrades EXCEPT ![id] = @ + 1]
  BY <1>1 DEF Ready, SaveOK, MetaOK, ColdOK, ColdLevel
<1>. HIDE DEF cost, level
<1>5. [save EXCEPT !.meta.coldStorage.tapes = @ - cost, !.meta.coldStorage.upgrades[id] = level + 1] = x
  BY DEF Ready, SaveOK, MetaOK, MetaFields, ColdOK
<1>. HIDE DEF ups
<1>6. /\ ColdOK(cs) /\ cs.tapes = save.meta.coldStorage.tapes - cost /\ cs.upgrades = ups
      /\ cs.trackStartedAt = save.meta.coldStorage.trackStartedAt
      /\ cs.blocksClaimed = save.meta.coldStorage.blocksClaimed
      /\ cs.trackCycle = save.meta.coldStorage.trackCycle /\ cs.job = save.meta.coldStorage.job
  BY <1>2, <1>3, <1>4 DEF Ready, SaveOK, MetaOK, ColdOK
<1>. HIDE DEF cs
<1>7. /\ DOMAIN m = MetaFields /\ m.coldStorage = cs
      /\ \A k \in MetaFields \ {"coldStorage"} : m[k] = save.meta[k]
  BY DEF Ready, SaveOK, MetaOK, MetaFields
<1>. HIDE DEF m
<1>8. MetaOK(m)
  BY <1>6, <1>7 DEF Ready, SaveOK, MetaOK, MetaFields
<1>9. SaveOK(x, clock) /\ x.meta = m
  BY <1>8, NewMeta DEF Ready
<1>10. \A c \in Counters : save.meta.stats[c] <= save.meta.stats[c]
  BY DEF Ready, SaveOK, MetaOK
<1>. HIDE DEF x
<1>11. Step(save, x, clock, Parts \ {"tapes"})
  BY <1>6, <1>7, <1>9, <1>10 DEF Step, Keeps, Track, Work, Cores, Wafers, Xp, MetaFields
<1>12. m.stats = save.meta.stats
  BY <1>7 DEF MetaFields
<1>. QED
  BY <1>3, <1>4, <1>5, <1>6, <1>7, <1>9, <1>11, <1>12 DEF cost, level

\* The xp that the levels from one to another ask for.
Climbed(from, to) == SumFunction([l \in from .. to - 1 |-> XpForLevel(l)])

\* A level's xp is a count.
LEMMA XpNat ==
    ASSUME PlayerOK, NEW l \in Nat
    PROVE  XpForLevel(l) \in Nat
<1>1. config.xpPerLevel \in Nat /\ l + 1 \in Nat
  BY ConfigOK DEF ValidConfigs, Positive
<1>. QED
  BY <1>1, Counts DEF XpForLevel

\* So is a climb's, and no climb costs nothing.
LEMMA ClimbedNat ==
    ASSUME PlayerOK, NEW from \in Nat, NEW to \in Nat
    PROVE  Climbed(from, to) \in Nat /\ Climbed(from, from) = 0
<1>. DEFINE f == [l \in from .. to - 1 |-> XpForLevel(l)]
            e == [l \in from .. from - 1 |-> XpForLevel(l)]
<1>1. IsFiniteSet(DOMAIN f) /\ \A l \in DOMAIN f : f[l] \in Nat
  <2>1. IsFiniteSet(from .. to - 1)
    BY FS_Interval
  <2>. QED
    BY <2>1, XpNat
<1>2. DOMAIN e = {}
  OBVIOUS
<1>3. SumFunction(f) \in Nat
  <2>. HIDE DEF f
  <2>. QED BY <1>1, SumNat
<1>4. SumFunction(e) = 0
  <2>. HIDE DEF e
  <2>. QED BY <1>2, SumOfNone
<1>. QED
  BY <1>3, <1>4 DEF Climbed

\* applyLevelUps climbs to a level the xp pays for.
LEMMA LevelUps ==
    ASSUME PlayerOK, NEW meta, meta.level \in Nat, meta.xp \in Nat, NEW gain \in Nat
    PROVE  \E level \in Nat :
              /\ level >= meta.level
              /\ Climbed(meta.level, level) \in Nat /\ Climbed(meta.level, level) <= meta.xp + gain
              /\ ApplyLevelUps(meta, gain)
                    = [meta EXCEPT !.level = level, !.xp = meta.xp + gain - Climbed(meta.level, level)]
<1>. DEFINE from == meta.level
            have == meta.xp + gain
            S == {l \in from .. from + meta.xp + gain : Climbed(from, l) <= have}
<1>1. from \in S
  <2>1. Climbed(from, from) = 0
    BY ClimbedNat
  <2>2. from \in from .. from + meta.xp + gain /\ 0 <= have
    OBVIOUS
  <2>. QED
    BY <2>1, <2>2
<1>2. S \in SUBSET Nat /\ \A l \in S : l <= from + meta.xp + gain /\ l >= from
  OBVIOUS
<1>3. Max(S) \in S
  <2>1. S \in SUBSET Int /\ S # {} /\ from + meta.xp + gain \in Int
    BY <1>1, <1>2
  <2>2. \A l \in S : l <= from + meta.xp + gain
    BY <1>2
  <2>. HIDE DEF S
  <2>. QED BY <2>1, <2>2, MaxIn
<1>4. ApplyLevelUps(meta, gain) = [meta EXCEPT !.level = Max(S), !.xp = meta.xp + gain - Climbed(from, Max(S))]
  BY DEF ApplyLevelUps, Climbed
<1>5. PICK level : level = Max(S)
  OBVIOUS
<1>6. level \in Nat /\ level >= from /\ Climbed(from, level) <= have
  BY <1>2, <1>3, <1>5
<1>7. Climbed(from, level) \in Nat
  BY <1>6, ClimbedNat
<1>. QED
  BY <1>4, <1>5, <1>6, <1>7

WithMeta(p, m) == [p EXCEPT !.meta = m]

\* Nothing but what is claimed was noted yet.
Claimed(m0, p) ==
    MetaOK(m0) /\ \A k \in MetaFields \ {"goalsCompleted", "repeatable"} : m0[k] = p.meta[k]

Climbs(y, m0, gain) ==
    \E level \in Nat :
        /\ Step(save, y, clock, Parts \ {"xp"})
        /\ level >= save.meta.level /\ y.meta.level = level
        /\ y.meta.xp = save.meta.xp + gain - Climbed(save.meta.level, level)
        /\ y.meta.goalsCompleted = m0.goalsCompleted /\ y.meta.repeatable = m0.repeatable

\* A claim that pays xp: the balance of wafers moves first, and nothing else does.
LEMMA ClimbStep ==
    ASSUME Ready, NEW p, Step(save, p, clock, Parts), NEW m0, NEW gain \in Nat, Claimed(m0, p)
    PROVE  Climbs(WithMeta(p, ApplyLevelUps(m0, gain)), m0, gain)
<1>0. /\ m0.level = save.meta.level /\ m0.xp = save.meta.xp
      /\ save.meta.level \in Nat /\ save.meta.xp \in Nat /\ PlayerOK
  BY DEF Ready, Step, Keeps, Xp, Parts, SaveOK, MetaOK, MetaFields, Claimed
<1>1. PICK level \in Nat :
              /\ level >= save.meta.level
              /\ Climbed(save.meta.level, level) \in Nat /\ Climbed(save.meta.level, level) <= save.meta.xp + gain
              /\ ApplyLevelUps(m0, gain)
                    = [m0 EXCEPT !.level = level, !.xp = save.meta.xp + gain - Climbed(save.meta.level, level)]
  <2>1. \E level \in Nat :
              /\ level >= m0.level
              /\ Climbed(m0.level, level) \in Nat /\ Climbed(m0.level, level) <= m0.xp + gain
              /\ ApplyLevelUps(m0, gain)
                    = [m0 EXCEPT !.level = level, !.xp = m0.xp + gain - Climbed(m0.level, level)]
    <3>1. m0.level \in Nat /\ m0.xp \in Nat
      BY <1>0
    <3>. QED
      BY <1>0, <3>1, LevelUps
  <2>. QED
    BY <1>0, <2>1
<1>. DEFINE xp == save.meta.xp + gain - Climbed(save.meta.level, level)
            m == [[m0 EXCEPT !.level = level] EXCEPT !.xp = xp]
            x == [p EXCEPT !.meta = m]
<1>2. ApplyLevelUps(m0, gain) = m
  BY <1>1
<1>3. xp \in Nat
  BY <1>0, <1>1
<1>. HIDE DEF xp
<1>4. /\ DOMAIN m = MetaFields /\ m.level = level /\ m.xp = xp
      /\ m.goalsCompleted = m0.goalsCompleted /\ m.repeatable = m0.repeatable
      /\ \A k \in MetaFields \ {"level", "xp", "goalsCompleted", "repeatable"} : m[k] = p.meta[k]
  BY DEF MetaOK, MetaFields, Claimed
<1>. HIDE DEF m
<1>5. MetaOK(m)
  BY <1>3, <1>4 DEF Step, SaveOK, MetaOK, MetaFields, Claimed
<1>6. SaveOK(x, clock) /\ x.meta = m
  BY <1>5, NewMeta DEF Step
<1>. HIDE DEF x
<1>7. Step(p, x, clock, Parts \ {"xp"})
  <2>1. \A c \in Counters : p.meta.stats[c] <= p.meta.stats[c]
    BY DEF Step, SaveOK, MetaOK
  <2>. QED
    BY <1>4, <1>6, <2>1 DEF Step, Keeps, Track, Work, Cores, Tapes, Wafers, MetaFields
<1>8. Step(save, x, clock, Parts \cap (Parts \ {"xp"}))
  BY <1>7, KeepsMore DEF Ready
<1>9. Parts \cap (Parts \ {"xp"}) = Parts \ {"xp"}
  OBVIOUS
<1>10. Step(save, x, clock, Parts \ {"xp"})
  BY <1>8, <1>9
<1>. QED
  <2>1. WithMeta(p, ApplyLevelUps(m0, gain)) = x
    BY <1>2 DEF x, WithMeta
  <2>2. Climbs(x, m0, gain)
    BY <1>1, <1>4, <1>6, <1>10 DEF xp, Climbs
  <2>. QED
    BY <2>1, <2>2, Zenon

\* claimGoal.
LEMMA GoalStep ==
    ASSUME Ready, NEW id \in DOMAIN GoalDefs, ClaimGoal(id)
    PROVE  \E level \in Nat : \E x :
              /\ Step(save, x, clock, Parts \ {"xp"}) /\ save' = CheckAchievements(x, clock)
              /\ id \notin save.meta.goalsCompleted
              /\ level >= save.meta.level /\ x.meta.level = level
              /\ x.meta.xp = save.meta.xp + GoalDefs[id].xp - Climbed(save.meta.level, level)
              /\ x.meta.goalsCompleted = save.meta.goalsCompleted \cup {id} /\ x.meta.repeatable = save.meta.repeatable
<1>. DEFINE p == PayWafers(save, GoalDefs[id].wafers)
            gain == GoalDefs[id].xp
            goals == save.meta.goalsCompleted \cup {id}
            m0 == [p.meta EXCEPT !.goalsCompleted = goals]
            x == [p EXCEPT !.meta = ApplyLevelUps(m0, gain)]
<1>1. GoalDefs[id].wafers \in Nat /\ gain \in Nat
  BY DefsAssumption
<1>2. Step(save, p, clock, Parts)
  BY <1>1, PayWafersStep DEF Ready
<1>3. /\ id \notin save.meta.goalsCompleted
      /\ save' = CheckAchievements([p EXCEPT !.meta = ApplyLevelUps([@ EXCEPT !.goalsCompleted = goals], gain)], clock)
  BY DEF ClaimGoal, Succeed
<1>. HIDE DEF p
<1>4. /\ DOMAIN m0 = MetaFields /\ m0.goalsCompleted = goals
      /\ \A k \in MetaFields \ {"goalsCompleted"} : m0[k] = p.meta[k]
  BY <1>2 DEF Step, SaveOK, MetaOK, MetaFields
<1>5. p.meta.goalsCompleted = save.meta.goalsCompleted /\ p.meta.repeatable = save.meta.repeatable
  BY <1>2 DEF Step, Keeps, Xp, Parts
<1>11. [p.meta EXCEPT !.goalsCompleted = goals] = m0
  OBVIOUS
<1>. HIDE DEF m0, gain
<1>6. MetaOK(m0)
  <2>1. goals \in SUBSET DOMAIN GoalDefs
    BY DEF Ready, SaveOK, MetaOK
  <2>. HIDE DEF goals
  <2>. QED
    BY <1>2, <1>4, <2>1 DEF Step, SaveOK, MetaOK, MetaFields
<1>7. m0.repeatable = save.meta.repeatable /\ m0.goalsCompleted = save.meta.goalsCompleted \cup {id}
  BY <1>4, <1>5 DEF MetaFields
<1>8. \A k \in MetaFields \ {"goalsCompleted", "repeatable"} : m0[k] = p.meta[k]
  BY <1>4
<1>9. PICK level \in Nat :
              /\ Step(save, x, clock, Parts \ {"xp"})
              /\ level >= save.meta.level /\ x.meta.level = level
              /\ x.meta.xp = save.meta.xp + gain - Climbed(save.meta.level, level)
              /\ x.meta.goalsCompleted = m0.goalsCompleted /\ x.meta.repeatable = m0.repeatable
  <2>1. Claimed(m0, p)
    BY <1>1, <1>2, <1>6, <1>8 DEF Claimed
  <2>2. Climbs(WithMeta(p, ApplyLevelUps(m0, gain)), m0, gain)
    BY <1>1, <1>2, <2>1, ClimbStep
  <2>3. Climbs(x, m0, gain)
    BY <2>2, Zenon DEF WithMeta
  <2>. QED
    BY <2>3, Zenon DEF Climbs
<1>10. save' = CheckAchievements(x, clock)
  BY <1>3, <1>11
<1>. QED
  BY <1>3, <1>7, <1>9, <1>10 DEF gain

\* claimRepeatable.
LEMMA RepeatableStep ==
    ASSUME Ready, NEW id \in DOMAIN RepeatableDefs, ClaimRepeatable(id)
    PROVE  \E level \in Nat : \E x :
              /\ Step(save, x, clock, Parts \ {"xp"}) /\ save' = CheckAchievements(x, clock)
              /\ RepeatablePay(RepeatableDefs[id], save.meta.repeatable[id]) \in Nat
              /\ level >= save.meta.level /\ x.meta.level = level
              /\ x.meta.xp = save.meta.xp + RepeatablePay(RepeatableDefs[id], save.meta.repeatable[id])
                                - Climbed(save.meta.level, level)
              /\ x.meta.goalsCompleted = save.meta.goalsCompleted
              /\ x.meta.repeatable = [save.meta.repeatable EXCEPT ![id] = @ + 1]
<1>. DEFINE gain == RepeatablePay(RepeatableDefs[id], save.meta.repeatable[id])
            p == PayWafers(save, gain)
            lv == save.meta.repeatable[id] + 1
            reps == [p.meta.repeatable EXCEPT ![id] = lv]
            m0 == [p.meta EXCEPT !.repeatable = reps]
            x == [p EXCEPT !.meta = ApplyLevelUps(m0, gain)]
<1>1. lv \in Nat /\ gain \in Nat
  <2>1. save.meta.repeatable[id] \in Nat /\ RepeatableDefs[id].pay \in Nat /\ RepeatableDefs[id].perLevel \in Nat
    BY DefsAssumption DEF Ready, SaveOK, MetaOK
  <2>2. save.meta.repeatable[id] * RepeatableDefs[id].perLevel \in Nat
    BY <2>1, Counts
  <2>. QED
    BY <2>1, <2>2 DEF RepeatablePay
<1>2. Step(save, p, clock, Parts)
  <2>. HIDE DEF gain
  <2>. QED BY <1>1, PayWafersStep DEF Ready
<1>3. save' = CheckAchievements([p EXCEPT !.meta = ApplyLevelUps([@ EXCEPT !.repeatable[id] = lv], gain)], clock)
  BY DEF ClaimRepeatable, Succeed
<1>. HIDE DEF p, gain
<1>4. [p.meta EXCEPT !.repeatable[id] = lv] = m0
  BY <1>2 DEF Step, SaveOK, MetaOK, MetaFields
<1>5. p.meta.goalsCompleted = save.meta.goalsCompleted /\ p.meta.repeatable = save.meta.repeatable
  BY <1>2 DEF Step, Keeps, Xp, Parts
<1>6. reps \in [DOMAIN RepeatableDefs -> Nat] /\ reps = [save.meta.repeatable EXCEPT ![id] = @ + 1]
  BY <1>1, <1>5 DEF Ready, SaveOK, MetaOK
<1>. HIDE DEF reps, lv
<1>7. /\ DOMAIN m0 = MetaFields /\ m0.repeatable = reps
      /\ \A k \in MetaFields \ {"repeatable"} : m0[k] = p.meta[k]
  BY <1>2 DEF Step, SaveOK, MetaOK, MetaFields
<1>. HIDE DEF m0
<1>8. MetaOK(m0)
  BY <1>2, <1>6, <1>7 DEF Step, SaveOK, MetaOK, MetaFields
<1>9. m0.repeatable = reps /\ m0.goalsCompleted = save.meta.goalsCompleted
  BY <1>5, <1>7 DEF MetaFields
<1>10. \A k \in MetaFields \ {"goalsCompleted", "repeatable"} : m0[k] = p.meta[k]
  BY <1>7
<1>11. PICK level \in Nat :
              /\ Step(save, x, clock, Parts \ {"xp"})
              /\ level >= save.meta.level /\ x.meta.level = level
              /\ x.meta.xp = save.meta.xp + gain - Climbed(save.meta.level, level)
              /\ x.meta.goalsCompleted = m0.goalsCompleted /\ x.meta.repeatable = m0.repeatable
  <2>1. Claimed(m0, p)
    BY <1>1, <1>2, <1>8, <1>10 DEF Claimed
  <2>2. Climbs(WithMeta(p, ApplyLevelUps(m0, gain)), m0, gain)
    BY <1>1, <1>2, <2>1, ClimbStep
  <2>3. Climbs(x, m0, gain)
    BY <2>2, Zenon DEF WithMeta
  <2>. QED
    BY <2>3, Zenon DEF Climbs
<1>12. save' = CheckAchievements(x, clock)
  BY <1>3, <1>4
<1>. QED
  BY <1>1, <1>6, <1>9, <1>11, <1>12 DEF gain

\* What a block pays is a count.
LEMMA BlockPayNat ==
    ASSUME PlayerOK, NEW s, SaveOK(s, clock), NEW i \in Blocks
    PROVE  BlockTapes(s, i) \in Nat /\ BlockFlops(s, i) \in Nat
<1>0. i \in Nat
  BY ClockAssumption DEF Blocks, Positive
<1>1. BlockFlops(s, i) \in Nat
  <2>1. TotalOutputPerSec(s, clock) \in Nat
    BY TotalOutputNat
  <2>2. config.batchQueue.flopsSeconds \in Nat
    BY ConfigOK DEF ValidConfigs
  <2>3. TotalOutputPerSec(s, clock) * config.batchQueue.flopsSeconds \in Nat
    BY <2>1, <2>2, Counts
  <2>. QED
    BY <2>3 DEF BlockFlops
<1>2. BlockTapes(s, i) \in Nat
  <2>. DEFINE base == config.batchQueue.blockBaseTapes
              jackpot == IF i = TotalBlocks - 1 THEN config.batchQueue.jackpot ELSE 1
              cycle == s.meta.coldStorage.trackCycle
              mult == TapeRewardMult(s)
  <2>1. base \in Nat /\ jackpot \in Nat
    BY ConfigOK DEF ValidConfigs, Positive
  <2>2. cycle \in Nat /\ mult \in Nat
    BY DefsAssumption DEF SaveOK, MetaOK, ColdOK, TapeRewardMult, ColdLevel
  <2>. HIDE DEF base, jackpot, cycle, mult
  <2>3. base * (i + 1) \in Nat
    BY <1>0, <2>1
  <2>4. base * (i + 1) * (1 + cycle) \in Nat
    BY <2>2, <2>3
  <2>5. base * (i + 1) * (1 + cycle) * jackpot \in Nat
    BY <2>1, <2>4
  <2>6. base * (i + 1) * (1 + cycle) * jackpot * mult \in Nat
    BY <2>2, <2>5
  <2>. QED
    BY <2>6 DEF BlockTapes, base, jackpot, cycle, mult
<1>. QED
  BY <1>1, <1>2

\* The blocks paid are marked as claimed.
LEMMA PayBlocksStep ==
    ASSUME PlayerOK, NEW s, SaveOK(s, clock), NEW bs \in SUBSET Blocks
    PROVE  /\ Step(s, PayBlocks(s, bs), clock, Parts \ {"track"})
           /\ Track(PayBlocks(s, bs)) = <<s.meta.coldStorage.trackStartedAt, s.meta.coldStorage.blocksClaimed \cup bs,
                                          s.meta.coldStorage.trackCycle>>
<1>0. IsFiniteSet(bs) /\ Cardinality(bs) \in Nat
  <2>1. IsFiniteSet(Blocks)
    BY FS_Interval, ClockAssumption DEF Blocks, Positive
  <2>. QED
    BY <2>1, FS_Subset, FS_CardinalityType
<1>. DEFINE ft == [i \in bs |-> BlockTapes(s, i)]
            ff == [i \in bs |-> BlockFlops(s, i)]
            tapes == SumFunction(ft)
            flops == SumFunction(ff)
            a == PayFlops(s, flops)
            p == PayTapes(a, tapes)
            n == Cardinality(bs)
            st == [p.meta.stats EXCEPT !["blocksClaimedLifetime"] = @ + n]
            bl == p.meta.coldStorage.blocksClaimed \cup bs
            cs == [p.meta.coldStorage EXCEPT !.blocksClaimed = bl]
            m == [[p.meta EXCEPT !.coldStorage = cs] EXCEPT !.stats = st]
            x == [p EXCEPT !.meta = m]
<1>1. PayBlocks(s, bs) = [p EXCEPT !.meta.coldStorage.blocksClaimed = @ \cup bs,
                                   !.meta.stats["blocksClaimedLifetime"] = @ + n]
  BY DEF PayBlocks
<1>2. tapes \in Nat /\ flops \in Nat
  <2>1. \A i \in bs : ft[i] \in Nat /\ ff[i] \in Nat
    BY BlockPayNat
  <2>2. DOMAIN ft = bs /\ DOMAIN ff = bs
    OBVIOUS
  <2>. HIDE DEF ft, ff
  <2>. QED
    BY <1>0, <2>1, <2>2, SumNat
<1>. HIDE DEF tapes, flops
<1>3. Step(s, a, clock, Parts)
  BY <1>2, PayFlopsStep
<1>. HIDE DEF a
<1>4. Step(a, p, clock, Parts)
  BY <1>2, <1>3, PayTapesStep DEF Step
<1>. HIDE DEF p
<1>5. Step(s, p, clock, Parts)
  <2>1. Step(s, p, clock, Parts \cap Parts)
    BY <1>3, <1>4, KeepsMore
  <2>. QED
    BY <2>1
<1>. HIDE DEF n
<1>6. [p EXCEPT !.meta.coldStorage.blocksClaimed = @ \cup bs,
                !.meta.stats["blocksClaimedLifetime"] = @ + n] = x
  BY <1>4 DEF Step, SaveOK, MetaOK, MetaFields
<1>7. /\ st \in [Counters -> Nat] /\ \A d \in Counters : p.meta.stats[d] <= st[d]
      /\ \A d \in Counters \ {"blocksClaimedLifetime"} : st[d] = p.meta.stats[d]
  <2>1. p.meta.stats \in [Counters -> Nat] /\ "blocksClaimedLifetime" \in Counters /\ n \in Nat
    BY <1>0, <1>4 DEF Step, SaveOK, MetaOK, Counters, n
  <2>. QED
    BY <2>1, Counted
<1>. HIDE DEF st
<1>8. bl \in SUBSET Blocks /\ bl = s.meta.coldStorage.blocksClaimed \cup bs
  BY <1>5 DEF Step, SaveOK, MetaOK, ColdOK, Keeps, Track, Parts
<1>. HIDE DEF bl
<1>9. /\ ColdOK(cs) /\ cs.blocksClaimed = bl
      /\ cs.trackStartedAt = p.meta.coldStorage.trackStartedAt /\ cs.trackCycle = p.meta.coldStorage.trackCycle
      /\ cs.tapes = p.meta.coldStorage.tapes /\ cs.upgrades = p.meta.coldStorage.upgrades
      /\ cs.job = p.meta.coldStorage.job
  BY <1>5, <1>8 DEF Step, SaveOK, MetaOK, ColdOK
<1>. HIDE DEF cs
<1>10. /\ DOMAIN m = MetaFields /\ m.coldStorage = cs /\ m.stats = st
       /\ \A k \in MetaFields \ {"coldStorage", "stats"} : m[k] = p.meta[k]
  BY <1>5 DEF Step, SaveOK, MetaOK, MetaFields
<1>. HIDE DEF m
<1>11. MetaOK(m)
  BY <1>5, <1>7, <1>9, <1>10 DEF Step, SaveOK, MetaOK, MetaFields
<1>12. SaveOK(x, clock) /\ x.meta = m
  BY <1>5, <1>11, NewMeta DEF Step
<1>. HIDE DEF x
<1>13. Step(p, x, clock, Parts \ {"track"})
  BY <1>7, <1>9, <1>10, <1>12 DEF Step, Keeps, Work, Cores, Tapes, Wafers, Xp, MetaFields, Counters
<1>14. Step(s, x, clock, Parts \cap (Parts \ {"track"}))
  BY <1>5, <1>13, KeepsMore
<1>15. Parts \cap (Parts \ {"track"}) = Parts \ {"track"}
  OBVIOUS
<1>16. Step(s, x, clock, Parts \ {"track"})
  BY <1>14, <1>15
<1>17. p.meta.coldStorage.trackStartedAt = s.meta.coldStorage.trackStartedAt /\ p.meta.coldStorage.trackCycle = s.meta.coldStorage.trackCycle
  BY <1>5 DEF Step, Keeps, Track, Parts
<1>18. Track(x) = <<s.meta.coldStorage.trackStartedAt, s.meta.coldStorage.blocksClaimed \cup bs, s.meta.coldStorage.trackCycle>>
  BY <1>8, <1>9, <1>10, <1>12, <1>17 DEF Track
<1>. QED
  BY <1>1, <1>6, <1>16, <1>18

\* claimBlock and claimAllBlocks: only blocks that have arrived.
LEMMA ClaimBlocksStep ==
    ASSUME Ready, NEW i \in Blocks, ClaimBlock(i) \/ ClaimAllBlocks
    PROVE  \E x : \E bs \in SUBSET Arrived(save) :
              /\ Step(save, x, clock, Parts \ {"track"}) /\ save' = CheckAchievements(x, clock)
              /\ Track(x) = <<save.meta.coldStorage.trackStartedAt, save.meta.coldStorage.blocksClaimed \cup bs,
                              save.meta.coldStorage.trackCycle>>
<1>1. \E bs \in SUBSET Arrived(save) : save' = CheckAchievements(PayBlocks(save, bs), clock)
  <2>1. CASE ClaimBlock(i)
    BY <2>1 DEF ClaimBlock, Succeed
  <2>2. CASE ClaimAllBlocks
    BY <2>2 DEF ClaimAllBlocks, Succeed
  <2>. QED
    BY <2>1, <2>2
<1>2. PICK bs \in SUBSET Arrived(save) : save' = CheckAchievements(PayBlocks(save, bs), clock)
  BY <1>1
<1>3. bs \in SUBSET Blocks
  BY DEF Arrived
<1>4. PICK x : x = PayBlocks(save, bs)
  OBVIOUS
<1>5. /\ Step(save, x, clock, Parts \ {"track"})
      /\ Track(x) = <<save.meta.coldStorage.trackStartedAt, save.meta.coldStorage.blocksClaimed \cup bs,
                      save.meta.coldStorage.trackCycle>>
  BY <1>3, <1>4, PayBlocksStep DEF Ready
<1>. QED
  BY <1>2, <1>4, <1>5

\* resetTrack: only a full track, and only a head start is given away.
LEMMA ResetStep ==
    ASSUME Ready, ResetTrack
    PROVE  \E x :
              /\ Step(save, x, clock, Parts \ {"track"}) /\ save' = CheckAchievements(x, clock)
              /\ save.meta.coldStorage.blocksClaimed = Blocks
              /\ Track(x) = <<clock, HeadStart(save), save.meta.coldStorage.trackCycle + 1>>
<1>. DEFINE reset == [save EXCEPT !.meta.coldStorage.trackCycle = @ + 1,
                                  !.meta.coldStorage.trackStartedAt = clock,
                                  !.meta.coldStorage.blocksClaimed = {}]
            cs == [[[save.meta.coldStorage EXCEPT !.trackCycle = @ + 1] EXCEPT !.trackStartedAt = clock]
                      EXCEPT !.blocksClaimed = {}]
            m == [save.meta EXCEPT !.coldStorage = cs]
            y == [save EXCEPT !.meta = m]
            x == PayBlocks(y, HeadStart(save))
<1>0. clock \in Nat
  BY ClockAssumption DEF Ready, Positive
<1>1. reset = y
  BY DEF Ready, SaveOK, MetaOK, MetaFields, ColdOK
<1>2. save.meta.coldStorage.blocksClaimed = Blocks /\ save' = CheckAchievements(PayBlocks(reset, HeadStart(save)), clock)
  BY DEF ResetTrack, Succeed
<1>. HIDE DEF reset
<1>3. /\ ColdOK(cs) /\ cs.blocksClaimed = {} /\ cs.trackStartedAt = clock
      /\ cs.trackCycle = save.meta.coldStorage.trackCycle + 1
      /\ cs.tapes = save.meta.coldStorage.tapes /\ cs.upgrades = save.meta.coldStorage.upgrades
      /\ cs.job = save.meta.coldStorage.job
  BY <1>0 DEF Ready, SaveOK, MetaOK, ColdOK
<1>. HIDE DEF cs
<1>4. /\ DOMAIN m = MetaFields /\ m.coldStorage = cs
      /\ \A k \in MetaFields \ {"coldStorage"} : m[k] = save.meta[k]
  BY DEF Ready, SaveOK, MetaOK, MetaFields
<1>. HIDE DEF m
<1>5. MetaOK(m)
  BY <1>3, <1>4 DEF Ready, SaveOK, MetaOK, MetaFields
<1>6. SaveOK(y, clock) /\ y.meta = m
  BY <1>5, NewMeta DEF Ready
<1>7. \A c \in Counters : save.meta.stats[c] <= save.meta.stats[c]
  BY DEF Ready, SaveOK, MetaOK
<1>. HIDE DEF y
<1>8. Step(save, y, clock, Parts \ {"track"})
  BY <1>3, <1>4, <1>6, <1>7 DEF Step, Keeps, Work, Cores, Tapes, Wafers, Xp, MetaFields
<1>9. HeadStart(save) \in SUBSET Blocks
  BY DEF HeadStart
<1>10. /\ Step(y, x, clock, Parts \ {"track"})
       /\ Track(x) = <<y.meta.coldStorage.trackStartedAt, y.meta.coldStorage.blocksClaimed \cup HeadStart(save),
                       y.meta.coldStorage.trackCycle>>
  BY <1>6, <1>9, PayBlocksStep DEF Ready
<1>. HIDE DEF x
<1>11. Step(save, x, clock, (Parts \ {"track"}) \cap (Parts \ {"track"}))
  BY <1>8, <1>10, KeepsMore DEF Ready
<1>12. Step(save, x, clock, Parts \ {"track"})
  BY <1>11
<1>13. Track(x) = <<clock, HeadStart(save), save.meta.coldStorage.trackCycle + 1>>
  BY <1>3, <1>4, <1>6, <1>10
<1>. QED
  BY <1>1, <1>2, <1>12, <1>13 DEF x

\* The two jobs.
LEMMA JobTypesAre ==
    ASSUME PlayerOK
    PROVE  /\ JobTypes = {"defrag", "deep"}
           /\ \A type \in JobTypes : /\ config.batchQueue.jobs[type].duration \in Nat
                                     /\ config.batchQueue.jobs[type].tapes \in Nat
  BY ConfigOK DEF ValidConfigs, JobTypes, Positive

\* A job put in the slot, or taken out of it.
LEMMA NewJob ==
    ASSUME NEW s, NEW now, SaveOK(s, now), NEW job, JobOK(job)
    PROVE  LET x == [s EXCEPT !.meta.coldStorage.job = job]
           IN  /\ Step(s, x, now, Parts \ {"work"})
               /\ Work(x) = <<job, s.meta.stats["jobsCompletedLifetime"], s.meta.stats["deepJobsCompletedLifetime"]>>
<1>. DEFINE cs == [s.meta.coldStorage EXCEPT !.job = job]
            m == [s.meta EXCEPT !.coldStorage = cs]
            x == [s EXCEPT !.meta = m]
<1>1. [s EXCEPT !.meta.coldStorage.job = job] = x
  BY DEF SaveOK, MetaOK, MetaFields
<1>2. /\ ColdOK(cs) /\ cs.job = job
      /\ cs.blocksClaimed = s.meta.coldStorage.blocksClaimed
      /\ cs.trackStartedAt = s.meta.coldStorage.trackStartedAt /\ cs.trackCycle = s.meta.coldStorage.trackCycle
      /\ cs.tapes = s.meta.coldStorage.tapes /\ cs.upgrades = s.meta.coldStorage.upgrades
  BY DEF SaveOK, MetaOK, ColdOK
<1>. HIDE DEF cs
<1>3. /\ DOMAIN m = MetaFields /\ m.coldStorage = cs
      /\ \A k \in MetaFields \ {"coldStorage"} : m[k] = s.meta[k]
  BY DEF SaveOK, MetaOK, MetaFields
<1>. HIDE DEF m
<1>4. MetaOK(m)
  BY <1>2, <1>3 DEF SaveOK, MetaOK, MetaFields
<1>5. SaveOK(x, now) /\ x.meta = m
  BY <1>4, NewMeta
<1>6. \A c \in Counters : s.meta.stats[c] <= s.meta.stats[c]
  BY DEF SaveOK, MetaOK
<1>. HIDE DEF x
<1>7. Step(s, x, now, Parts \ {"work"})
  BY <1>2, <1>3, <1>5, <1>6 DEF Step, Keeps, Track, Cores, Tapes, Wafers, Xp, MetaFields
<1>8. Work(x) = <<job, s.meta.stats["jobsCompletedLifetime"], s.meta.stats["deepJobsCompletedLifetime"]>>
  BY <1>2, <1>3, <1>5 DEF Work, MetaFields
<1>. QED
  BY <1>1, <1>7, <1>8

\* startJob and cancelJob: a job starts with nothing accrued.
LEMMA StartCancelStep ==
    ASSUME Ready, NEW type \in JobTypes, StartJob(type) \/ CancelJob
    PROVE  \E x : \E job :
              /\ Step(save, x, clock, Parts \ {"work"}) /\ save' = CheckAchievements(x, clock)
              /\ job # None => job.type \in JobTypes /\ job.accruedOfflineSec = 0
              /\ Work(x) = <<job, save.meta.stats["jobsCompletedLifetime"], save.meta.stats["deepJobsCompletedLifetime"]>>
<1>1. PICK job : /\ save' = CheckAchievements([save EXCEPT !.meta.coldStorage.job = job], clock)
                 /\ JobOK(job)
                 /\ job # None => job.type \in JobTypes /\ job.accruedOfflineSec = 0
  <2>1. CASE StartJob(type)
    <3>. DEFINE job == [type |-> type, accruedOfflineSec |-> 0, startedAt |-> clock]
    <3>1. JobOK(job) /\ job.type \in JobTypes /\ job.accruedOfflineSec = 0
      BY JobTypesAre DEF Ready, JobOK
    <3>2. save' = CheckAchievements([save EXCEPT !.meta.coldStorage.job = job], clock)
      BY <2>1 DEF StartJob, Succeed
    <3>. HIDE DEF job
    <3>. QED
      BY <3>1, <3>2
  <2>2. CASE CancelJob
    BY <2>2 DEF CancelJob, Succeed, JobOK
  <2>. QED
    BY <2>1, <2>2
<1>2. PICK x : x = [save EXCEPT !.meta.coldStorage.job = job]
  OBVIOUS
<1>3. /\ Step(save, x, clock, Parts \ {"work"})
      /\ Work(x) = <<job, save.meta.stats["jobsCompletedLifetime"], save.meta.stats["deepJobsCompletedLifetime"]>>
  BY <1>1, <1>2, NewJob DEF Ready
<1>. QED
  BY <1>1, <1>2, <1>3

\* claimJob: only a job whose time has been accrued is counted.
LEMMA ClaimJobStep ==
    ASSUME Ready, ClaimJob
    PROVE  \E x : LET job == save.meta.coldStorage.job
                      deep == IF job.type = "deep" THEN 1 ELSE 0
                  IN  /\ Step(save, x, clock, Parts \ {"work"}) /\ save' = CheckAchievements(x, clock)
                      /\ job # None /\ job.type \in JobTypes
                      /\ job.accruedOfflineSec >= config.batchQueue.jobs[job.type].duration
                      /\ Work(x) = <<None, save.meta.stats["jobsCompletedLifetime"] + 1,
                                     save.meta.stats["deepJobsCompletedLifetime"] + deep>>
<1>. DEFINE job == save.meta.coldStorage.job
            deep == IF job.type = "deep" THEN 1 ELSE 0
            tapes == config.batchQueue.jobs[job.type].tapes * TapeRewardMult(save)
            p == PayTapes(save, tapes)
            su == [p.meta.stats EXCEPT !["jobsCompletedLifetime"] = @ + 1]
            st == [su EXCEPT !["deepJobsCompletedLifetime"] = @ + deep]
            cs == [p.meta.coldStorage EXCEPT !.job = None]
            m == [[p.meta EXCEPT !.coldStorage = cs] EXCEPT !.stats = st]
            x == [p EXCEPT !.meta = m]
<1>0. /\ job # None /\ job.accruedOfflineSec >= config.batchQueue.jobs[job.type].duration
      /\ save' = CheckAchievements([p EXCEPT !.meta.coldStorage.job = None,
                                !.meta.stats["jobsCompletedLifetime"] = @ + 1,
                                !.meta.stats["deepJobsCompletedLifetime"] = @ + deep], clock)
  BY DEF ClaimJob, Succeed
<1>1. job.type \in JobTypes
  BY <1>0, JobTypesAre DEF Ready, SaveOK, MetaOK, ColdOK, JobOK
<1>2. deep \in Nat
  OBVIOUS
<1>3. tapes \in Nat
  <2>1. TapeRewardMult(save) \in Nat
    BY DefsAssumption DEF Ready, SaveOK, MetaOK, ColdOK, TapeRewardMult, ColdLevel
  <2>2. config.batchQueue.jobs[job.type].tapes \in Nat
    BY <1>1, JobTypesAre DEF Ready
  <2>. QED
    BY <2>1, <2>2, Counts
<1>. HIDE DEF tapes, deep
<1>4. Step(save, p, clock, Parts)
  BY <1>3, PayTapesStep DEF Ready
<1>. HIDE DEF p
<1>5. [p EXCEPT !.meta.coldStorage.job = None,
                !.meta.stats["jobsCompletedLifetime"] = @ + 1,
                !.meta.stats["deepJobsCompletedLifetime"] = @ + deep] = x
  <2>1. DOMAIN p = {"run", "meta", "server"} /\ DOMAIN p.meta = MetaFields
    BY <1>4 DEF Step, SaveOK, MetaOK
  <2>. DEFINE a == [p EXCEPT !.meta.coldStorage.job = None, !.meta.stats["jobsCompletedLifetime"] = @ + 1]
              ma == [[p.meta EXCEPT !.coldStorage = cs] EXCEPT !.stats = su]
  <2>2. DOMAIN a = DOMAIN p /\ a.run = p.run /\ a.server = p.server /\ a.meta = ma
    <3>. HIDE DEF su
    <3>1. [p.meta.stats EXCEPT !["jobsCompletedLifetime"] = @ + 1] = su
      BY DEF su
    <3>. QED
      BY <2>1, <3>1 DEF MetaFields
  <2>. HIDE DEF cs, su
  <2>3. DOMAIN ma = MetaFields /\ ma.stats = su /\ [ma EXCEPT !.stats = st] = m
    BY <2>1 DEF MetaFields
  <2>4. [a EXCEPT !.meta.stats["deepJobsCompletedLifetime"] = @ + deep] = x
    <3>1. [a EXCEPT !.meta.stats["deepJobsCompletedLifetime"] = @ + deep] = [a EXCEPT !.meta = [ma EXCEPT !.stats = st]]
      <4>. HIDE DEF a, ma
      <4>. QED BY <2>1, <2>2, <2>3 DEF MetaFields
    <3>2. [a EXCEPT !.meta = m] = x
      <4>. HIDE DEF a, m
      <4>. QED BY <2>1, <2>2
    <3>. QED
      BY <2>3, <3>1, <3>2, Zenon
  <2>5. [a EXCEPT !.meta.stats["deepJobsCompletedLifetime"] = @ + deep]
           = [p EXCEPT !.meta.coldStorage.job = None, !.meta.stats["jobsCompletedLifetime"] = @ + 1,
                       !.meta.stats["deepJobsCompletedLifetime"] = @ + deep]
    OBVIOUS
  <2>. QED
    BY <2>4, <2>5, Zenon
<1>6. /\ su \in [Counters -> Nat] /\ \A d \in Counters : p.meta.stats[d] <= su[d]
      /\ \A d \in Counters \ {"jobsCompletedLifetime"} : su[d] = p.meta.stats[d]
      /\ su["jobsCompletedLifetime"] = p.meta.stats["jobsCompletedLifetime"] + 1
  <2>1. p.meta.stats \in [Counters -> Nat] /\ "jobsCompletedLifetime" \in Counters /\ 1 \in Nat
    BY <1>4 DEF Step, SaveOK, MetaOK, Counters
  <2>. QED
    BY <2>1, Counted
<1>. HIDE DEF su
<1>7. /\ st \in [Counters -> Nat] /\ \A d \in Counters : su[d] <= st[d]
      /\ \A d \in Counters \ {"deepJobsCompletedLifetime"} : st[d] = su[d]
      /\ st["deepJobsCompletedLifetime"] = su["deepJobsCompletedLifetime"] + deep
  <2>1. "deepJobsCompletedLifetime" \in Counters
    BY DEF Counters
  <2>. QED
    BY <1>2, <1>6, <2>1, Counted
<1>. HIDE DEF st
<1>8. \A d \in Counters : p.meta.stats[d] <= st[d]
  <2>1. \A d \in Counters : p.meta.stats[d] \in Int /\ su[d] \in Int /\ st[d] \in Int
    BY <1>4, <1>6, <1>7 DEF Step, SaveOK, MetaOK
  <2>. QED
    BY <1>6, <1>7, <2>1
<1>9. /\ ColdOK(cs) /\ cs.job = None
      /\ cs.blocksClaimed = p.meta.coldStorage.blocksClaimed
      /\ cs.trackStartedAt = p.meta.coldStorage.trackStartedAt /\ cs.trackCycle = p.meta.coldStorage.trackCycle
      /\ cs.tapes = p.meta.coldStorage.tapes /\ cs.upgrades = p.meta.coldStorage.upgrades
  BY <1>4 DEF Step, SaveOK, MetaOK, ColdOK, JobOK
<1>. HIDE DEF cs
<1>10. /\ DOMAIN m = MetaFields /\ m.coldStorage = cs /\ m.stats = st
       /\ \A k \in MetaFields \ {"coldStorage", "stats"} : m[k] = p.meta[k]
  BY <1>4 DEF Step, SaveOK, MetaOK, MetaFields
<1>. HIDE DEF m
<1>11. MetaOK(m)
  BY <1>4, <1>7, <1>9, <1>10 DEF Step, SaveOK, MetaOK, MetaFields
<1>12. SaveOK(x, clock) /\ x.meta = m
  BY <1>4, <1>11, NewMeta DEF Step
<1>. HIDE DEF x
<1>13. Step(p, x, clock, Parts \ {"work"})
  BY <1>6, <1>7, <1>8, <1>9, <1>10, <1>12 DEF Step, Keeps, Track, Cores, Tapes, Wafers, Xp, MetaFields, Counters
<1>14. Step(save, x, clock, Parts \cap (Parts \ {"work"}))
  BY <1>4, <1>13, KeepsMore DEF Ready
<1>15. Parts \cap (Parts \ {"work"}) = Parts \ {"work"}
  OBVIOUS
<1>16. Step(save, x, clock, Parts \ {"work"})
  BY <1>14, <1>15
<1>17. /\ p.meta.stats["jobsCompletedLifetime"] = save.meta.stats["jobsCompletedLifetime"]
       /\ p.meta.stats["deepJobsCompletedLifetime"] = save.meta.stats["deepJobsCompletedLifetime"]
  BY <1>4 DEF Step, Keeps, Work, Parts
<1>18. Work(x) = <<None, save.meta.stats["jobsCompletedLifetime"] + 1, save.meta.stats["deepJobsCompletedLifetime"] + deep>>
  BY <1>6, <1>7, <1>9, <1>10, <1>12, <1>17 DEF Work, Counters
<1>. QED
  BY <1>0, <1>1, <1>5, <1>16, <1>18 DEF deep

\* A list has its size once padded.
LEMMA PaddedOnce == \A list : PadTo3(PadTo3(list)) = PadTo3(list)
  BY DEF PadTo3, Field

\* Parts kept by two steps.
LEMMA PartsCap ==
    ASSUME NEW k
    PROVE  Parts \cap Parts = Parts /\ Parts \cap (Parts \ {k}) = Parts \ {k}
           /\ (Parts \ {k}) \cap Parts = Parts \ {k} /\ (Parts \ {k}) \cap (Parts \ {k}) = Parts \ {k}
  OBVIOUS

\* One counter of a save goes up, and a block of its meta is rewritten.
LEMMA ContractStep ==
    ASSUME Ready, NEW i \in 1 .. BoardSize, ClaimContract(i)
    PROVE  \E x : /\ Step(save, x, clock, Parts \ {"board"}) /\ save' = CheckAchievements(x, clock)
                  /\ x.meta.contracts = [save.meta.contracts EXCEPT !.claimed = @ \cup {i}]
<1>. DEFINE scaled == 1 + save.meta.level
            nw == config.social.contractWafers * scaled
            nt == config.social.contractTapes * scaled
            w == PayWafers(save, nw)
            p == PayTapes(w, nt)
            st == [p.meta.stats EXCEPT !["contractsCompletedLifetime"] = @ + 1]
            co == [p.meta.contracts EXCEPT !.claimed = @ \cup {i}]
            m == [[p.meta EXCEPT !.contracts = co] EXCEPT !.stats = st]
            x == [p EXCEPT !.meta = m]
<1>1. save' = CheckAchievements([p EXCEPT !.meta.contracts.claimed = @ \cup {i},
                                          !.meta.stats["contractsCompletedLifetime"] = @ + 1], clock)
  BY DEF ClaimContract, Succeed
<1>2. nw \in Nat /\ nt \in Nat
  <2>1. config.social.contractWafers \in Nat /\ config.social.contractTapes \in Nat /\ scaled \in Nat
    BY ConfigOK DEF Ready, ValidConfigs, SaveOK, MetaOK
  <2>. QED
    BY <2>1, Counts
<1>. HIDE DEF nw, nt
<1>3. Step(save, w, clock, Parts)
  BY <1>2, PayWafersStep DEF Ready
<1>. HIDE DEF w
<1>3a. Step(w, p, clock, Parts)
  BY <1>2, <1>3, PayTapesStep DEF Step
<1>. HIDE DEF p
<1>4. Step(save, p, clock, Parts)
  BY <1>3, <1>3a, KeepsMore, PartsCap DEF Ready
<1>5. [p EXCEPT !.meta.contracts.claimed = @ \cup {i}, !.meta.stats["contractsCompletedLifetime"] = @ + 1] = x
  BY <1>4 DEF Step, SaveOK, MetaOK, MetaFields
<1>6. /\ st \in [Counters -> Nat] /\ \A d \in Counters : p.meta.stats[d] <= st[d]
      /\ \A d \in Counters \ {"contractsCompletedLifetime"} : st[d] = p.meta.stats[d]
  <2>1. p.meta.stats \in [Counters -> Nat] /\ "contractsCompletedLifetime" \in Counters /\ 1 \in Nat
    BY <1>4 DEF Step, SaveOK, MetaOK, Counters
  <2>. QED
    BY <2>1, Counted
<1>. HIDE DEF st
<1>7. ContractsOK(co) /\ co = [save.meta.contracts EXCEPT !.claimed = @ \cup {i}]
  <2>. DEFINE c == save.meta.contracts
              F == {"dateKey", "targets", "baseline", "claimed"}
  <2>1. co = [c EXCEPT !.claimed = @ \cup {i}] /\ ContractsOK(c)
    BY <1>4 DEF Ready, SaveOK, MetaOK, Step, Keeps, Parts
  <2>2. c = [dateKey |-> c.dateKey, targets |-> c.targets, baseline |-> c.baseline, claimed |-> c.claimed]
        /\ c.targets = PadTo3(c.targets) /\ c.claimed \cup {i} \in SUBSET (1 .. BoardSize)
    BY <2>1 DEF ContractsOK
  <2>. HIDE DEF co, c
  <2>3. co = [dateKey |-> c.dateKey, targets |-> c.targets, baseline |-> c.baseline, claimed |-> c.claimed \cup {i}]
    BY <2>1, <2>2
  <2>4. ContractsOK(co)
    BY <2>2, <2>3 DEF ContractsOK
  <2>. QED
    BY <2>1, <2>4 DEF c
<1>. HIDE DEF co
<1>8. /\ DOMAIN m = MetaFields /\ m.contracts = co /\ m.stats = st
      /\ \A k \in MetaFields \ {"contracts", "stats"} : m[k] = p.meta[k]
  BY <1>4 DEF Step, SaveOK, MetaOK, MetaFields
<1>. HIDE DEF m
<1>9. MetaOK(m)
  BY <1>4, <1>6, <1>7, <1>8 DEF Step, SaveOK, MetaOK, MetaFields
<1>10. SaveOK(x, clock) /\ x.meta = m
  BY <1>4, <1>9, NewMeta DEF Step
<1>. HIDE DEF x
<1>11. Step(p, x, clock, Parts \ {"board"})
  BY <1>6, <1>8, <1>10 DEF Step, Keeps, Track, Work, Cores, Tapes, Wafers, Xp, MetaFields, Counters
<1>12. Step(save, x, clock, Parts \ {"board"})
  <2>1. Step(save, x, clock, Parts \cap (Parts \ {"board"}))
    BY <1>4, <1>11, KeepsMore DEF Ready
  <2>. QED
    BY <2>1, PartsCap
<1>. QED
  BY <1>1, <1>5, <1>7, <1>8, <1>10, <1>12

\* A day of the streak is a count.
LEMMA StreakDayNat ==
    ASSUME PlayerOK, NEW k, StreakOK(k), NEW today
    PROVE  NextStreakCount(k, today) \in Nat
<1>1. config.social.streakMaxDay \in Nat
  BY ConfigOK DEF ValidConfigs, Positive
<1>. QED
  BY <1>1 DEF NextStreakCount, StreakOK, Smaller

\* What a day of the streak pays.
LEMMA StreakRewardStep ==
    ASSUME Ready, NEW day \in Nat
    PROVE  Step(save, StreakReward(save, day), clock, Parts)
<1>. DEFINE n == config.social.streakWafers * day
            t == config.social.streakTapes
            o == TotalOutputPerSec(save, clock) * day
<1>1. n \in Nat /\ t \in Nat
  <2>1. config.social.streakWafers \in Nat /\ t \in Nat
    BY ConfigOK DEF Ready, ValidConfigs
  <2>. QED
    BY <2>1, Counts
<1>2. o \in Nat
  BY TotalOutputNat, Counts DEF Ready
<1>. HIDE DEF n, t, o
<1>3. Step(save, PayWafers(save, n), clock, Parts)
  BY <1>1, PayWafersStep DEF Ready
<1>4. Step(PayWafers(save, n), PayTapes(PayWafers(save, n), t), clock, Parts)
  <2>. DEFINE w == PayWafers(save, n)
  <2>1. SaveOK(w, clock)
    BY <1>3 DEF Step
  <2>. HIDE DEF w
  <2>2. Step(w, PayTapes(w, t), clock, Parts)
    BY <1>1, <2>1, PayTapesStep
  <2>. QED
    BY <2>2 DEF w
<1>5. Step(save, PayTapes(PayWafers(save, n), t), clock, Parts)
  BY <1>3, <1>4, KeepsMore, PartsCap DEF Ready
<1>6. Step(save, PayFlops(save, o), clock, Parts)
  BY <1>2, PayFlopsStep DEF Ready
<1>7. \/ StreakReward(save, day) = PayTapes(PayWafers(save, n), t)
      \/ StreakReward(save, day) = PayWafers(save, n)
      \/ StreakReward(save, day) = PayFlops(save, o)
  BY DEF StreakReward, n, t, o
<1>. QED
  BY <1>3, <1>5, <1>6, <1>7

\* claimStreak.
LEMMA StreakStep ==
    ASSUME Ready, ClaimStreak
    PROVE  \E x : /\ Step(save, x, clock, Parts \ {"streak"}) /\ save' = CheckAchievements(x, clock)
                  /\ x.meta.streak = [count |-> NextStreakCount(save.meta.streak, UtcDateKey(clock)),
                                      lastClaimDate |-> UtcDateKey(clock)]
<1>. DEFINE today == UtcDateKey(clock)
            day == NextStreakCount(save.meta.streak, today)
            p == StreakReward(save, day)
            best == Larger(p.meta.stats["bestStreak"], day)
            st == [p.meta.stats EXCEPT !["bestStreak"] = best]
            k == [count |-> day, lastClaimDate |-> today]
            m == [[p.meta EXCEPT !.streak = k] EXCEPT !.stats = st]
            x == [p EXCEPT !.meta = m]
<1>1. save' = CheckAchievements([p EXCEPT !.meta.streak = k, !.meta.stats["bestStreak"] = Larger(@, day)], clock)
  BY DEF ClaimStreak, Succeed
<1>2. day \in Nat
  BY StreakDayNat DEF Ready, SaveOK, MetaOK
<1>3. today \in Int
  BY ClockAssumption DEF Ready, UtcDateKey, Positive
<1>. HIDE DEF day, today
<1>4. Step(save, p, clock, Parts)
  BY <1>2, StreakRewardStep
<1>. HIDE DEF p
<1>5. [p EXCEPT !.meta.streak = k, !.meta.stats["bestStreak"] = Larger(@, day)] = x
  <2>. HIDE DEF k
  <2>. QED BY <1>4 DEF Step, SaveOK, MetaOK, MetaFields
<1>6. best \in Nat /\ best >= p.meta.stats["bestStreak"]
  BY <1>2, <1>4 DEF Step, SaveOK, MetaOK, Counters, Larger
<1>. HIDE DEF best
<1>7. /\ st \in [Counters -> Nat] /\ \A d \in Counters : p.meta.stats[d] <= st[d]
      /\ \A d \in Counters \ {"bestStreak"} : st[d] = p.meta.stats[d]
  BY <1>4, <1>6 DEF Step, SaveOK, MetaOK, Counters
<1>. HIDE DEF st
<1>8. StreakOK(k)
  BY <1>2, <1>3 DEF StreakOK
<1>. HIDE DEF k
<1>9. /\ DOMAIN m = MetaFields /\ m.streak = k /\ m.stats = st
      /\ \A f \in MetaFields \ {"streak", "stats"} : m[f] = p.meta[f]
  BY <1>4 DEF Step, SaveOK, MetaOK, MetaFields
<1>. HIDE DEF m
<1>10. MetaOK(m)
  BY <1>4, <1>7, <1>8, <1>9 DEF Step, SaveOK, MetaOK, MetaFields
<1>11. SaveOK(x, clock) /\ x.meta = m
  BY <1>4, <1>10, NewMeta DEF Step
<1>. HIDE DEF x
<1>12. Step(p, x, clock, Parts \ {"streak"})
  BY <1>7, <1>9, <1>11 DEF Step, Keeps, Track, Work, Cores, Tapes, Wafers, Xp, MetaFields, Counters
<1>13. Step(save, x, clock, Parts \ {"streak"})
  <2>1. Step(save, x, clock, Parts \cap (Parts \ {"streak"}))
    BY <1>4, <1>12, KeepsMore DEF Ready
  <2>. QED
    BY <2>1, PartsCap
<1>. QED
  BY <1>1, <1>5, <1>9, <1>11, <1>13 DEF k, day, today

\* A new save has its types.
LEMMA InitialOK ==
    ASSUME NEW now \in Nat
    PROVE  SaveOK(InitialState(now), now) /\ InitialState(now).meta = FreshMeta(now)
<1>1. RunOK(FreshRun)
  BY FreshRunOK
<1>2. MetaOK(FreshMeta(now))
  <2>1. ContractsOK([dateKey |-> None, targets |-> PadTo3(Nothing), baseline |-> Nothing, claimed |-> {}])
    BY PaddedOnce DEF ContractsOK
  <2>. QED
    BY <2>1 DEF MetaOK, FreshMeta, MetaFields, StreakOK, ColdOK, JobOK
<1>3. ServerOK(FreshServer, now)
  BY FS_EmptySet DEF ServerOK, FreshServer, ServerFields
<1>. QED
  BY <1>1, <1>2, <1>3 DEF SaveOK, InitialState

\* hardReset.
LEMMA HardResetStep ==
    ASSUME Ready, HardReset
    PROVE  \E x : SaveOK(x, clock) /\ x.meta = FreshMeta(clock) /\ save' = CheckAchievements(x, clock)
<1>1. PICK x \in ScheduledAnomaly(InitialState(clock), clock) : save' = CheckAchievements(x, clock)
  BY DEF HardReset, Succeed
<1>2. clock \in Nat
  BY ClockAssumption DEF Ready, Positive
<1>3. SaveOK(x, clock) /\ x.meta = FreshMeta(clock)
  <2>. DEFINE s == InitialState(clock)
  <2>1. SaveOK(s, clock) /\ s.meta = FreshMeta(clock)
    BY <1>2, InitialOK
  <2>. HIDE DEF s
  <2>2. x \in ScheduledAnomaly(s, clock)
    BY <1>1 DEF s
  <2>. QED
    BY <2>1, <2>2, ScheduledAnomalyStep DEF Step
<1>. QED
  BY <1>1, <1>3

\* A stored record over its default.
LEMMA OverIs ==
    ASSUME NEW r, NEW base, DOMAIN r \subseteq DOMAIN base
    PROVE  /\ DOMAIN Over(r, base) = DOMAIN base
           /\ \A k \in DOMAIN r : Over(r, base)[k] = r[k]
           /\ \A k \in DOMAIN base \ DOMAIN r : Over(r, base)[k] = base[k]
           /\ \A k \in DOMAIN base : Over(r, base)[k] = Field(r, k, base[k])
  BY DEF Over, Field

\* The blocks of a save as migrateSave reads them back.
ReadRun(run, base) ==
    [Over(run, base) EXCEPT
        !.tiers = PadArray(Field(run, "tiers", Nothing), base.tiers),
        !.grid = PadArray(Field(run, "grid", Nothing), base.grid),
        !.overclock = PadArray(Field(run, "overclock", Nothing), base.overclock)]

ReadCold(cold, base) ==
    [Over(cold, base) EXCEPT
        !.blocksClaimed = Field(cold, "blocksClaimed", {}) \cap Blocks,
        !.upgrades = Within(cold, "upgrades", base)]

ReadBoard(contracts, base) ==
    [Over(contracts, base) EXCEPT
        !.targets = PadTo3(Field(contracts, "targets", Nothing)),
        !.claimed = Field(contracts, "claimed", {}) \cap (1 .. BoardSize)]

ReadMeta(meta, base) ==
    [Over(meta, base) EXCEPT
        !.upgrades = Within(meta, "upgrades", base),
        !.shardUpgrades = Within(meta, "shardUpgrades", base),
        !.repeatable = Within(meta, "repeatable", base),
        !.stats = Within(meta, "stats", base),
        !.streak = Within(meta, "streak", base),
        !.contracts = ReadBoard(Field(meta, "contracts", Nothing), base.contracts),
        !.supplies = ReadSupplies(meta),
        !.coldStorage = ReadCold(Field(meta, "coldStorage", Nothing), base.coldStorage)]

ReadServer(server, base) ==
    LET maintenance == Field(server, "gridMaintenance", None)
    IN  [Over(server, base) EXCEPT
            !.outages = {o \in Field(server, "outages", {}) : o.endAt > o.startAt},
            !.gridMaintenance = IF maintenance = None THEN None
                                ELSE IF maintenance.endAt > maintenance.startAt THEN maintenance ELSE None]

\* migrateSave, part by part.
LEMMA MigrateIs ==
    ASSUME NEW row, NEW now
    PROVE  MigrateSave(row, now) =
              [run |-> ReadRun(Field(row, "run", Nothing), FreshRun),
               meta |-> ReadMeta(Field(row, "meta", Nothing), FreshMeta(now)),
               server |-> ReadServer(Field(row, "server", Nothing), FreshServer)]
<1>1. /\ InitialState(now).run = FreshRun /\ InitialState(now).meta = FreshMeta(now)
      /\ InitialState(now).server = FreshServer
  BY DEF InitialState
<1>. QED
  BY <1>1, Zenon DEF MigrateSave, ReadRun, ReadMeta, ReadServer, ReadCold, ReadBoard, ReadColdStorage, ReadContracts

\* What a new save's parts hold.
LEMMA FreshDomains ==
    ASSUME NEW now
    PROVE  /\ DOMAIN FreshRun = {"credits", "lifetimeRun", "tiers", "grid", "overclock", "heat", "heatCooldownUntil"}
           /\ DOMAIN FreshMeta(now) = MetaFields
           /\ DOMAIN FreshServer = ServerFields
           /\ DOMAIN FreshMeta(now).coldStorage = {"trackStartedAt", "blocksClaimed", "trackCycle", "tapes", "upgrades", "job"}
  BY DEF FreshRun, FreshMeta, FreshServer, MetaFields, ServerFields

\* Reading what is whole changes nothing.
LEMMA SameOver ==
    ASSUME NEW r, NEW base, DOMAIN r = DOMAIN base
    PROVE  DOMAIN Over(r, base) = DOMAIN r /\ \A k \in DOMAIN r : Over(r, base)[k] = r[k]
  BY OverIs

\* The same for a table.
LEMMA OverFcn ==
    ASSUME NEW S, NEW T, NEW r \in [S -> T], NEW base, DOMAIN base = S
    PROVE  Over(r, base) = r
  BY DEF Over, Field

\* A lane read whole, racks.
LEMMA PadRacks ==
    ASSUME NEW list \in [Tiers -> RackSet]
    PROVE  PadArray(list, FreshRun.tiers) = list
<1>1. DOMAIN FreshRun.tiers = Tiers /\ \A i \in Tiers : DOMAIN FreshRun.tiers[i] = {"owned", "manager", "ready"}
  BY DEF FreshRun
<1>2. ASSUME NEW i \in Tiers PROVE Over(list[i], FreshRun.tiers[i]) = list[i]
  <2>1. list[i] \in RackSet
    OBVIOUS
  <2>2. DOMAIN list[i] = {"owned", "manager", "ready"} /\ list[i] = [k \in {"owned", "manager", "ready"} |-> list[i][k]]
    BY <2>1 DEF RackSet
  <2>. DEFINE u == list[i]  b == FreshRun.tiers[i]
  <2>3. DOMAIN b = {"owned", "manager", "ready"}
    BY <1>1
  <2>. HIDE DEF u, b
  <2>4. Over(u, b) = [k \in {"owned", "manager", "ready"} |-> u[k]]
    BY <2>2, <2>3 DEF Over, Field, u
  <2>. QED
    BY <2>2, <2>4 DEF u, b
<1>. QED
  BY <1>1, <1>2 DEF PadArray, Field

\* A lane read whole, nodes.
LEMMA PadNodes ==
    ASSUME NEW S, NEW list \in [S -> NodeSet], NEW fresh, fresh = [i \in S |-> [owned |-> 0]]
    PROVE  PadArray(list, fresh) = list
<1>1. DOMAIN fresh = S /\ \A i \in S : DOMAIN fresh[i] = {"owned"}
  OBVIOUS
<1>2. ASSUME NEW i \in S PROVE Over(list[i], fresh[i]) = list[i]
  <2>1. list[i] \in NodeSet
    OBVIOUS
  <2>2. DOMAIN list[i] = {"owned"} /\ list[i] = [k \in {"owned"} |-> list[i][k]]
    BY <2>1 DEF NodeSet
  <2>. DEFINE u == list[i]  b == fresh[i]
  <2>3. DOMAIN b = {"owned"}
    BY <1>1
  <2>. HIDE DEF u, b
  <2>4. Over(u, b) = [k \in {"owned"} |-> u[k]]
    BY <2>2, <2>3 DEF Over, Field, u
  <2>. QED
    BY <2>2, <2>4 DEF u, b
<1>. QED
  BY <1>1, <1>2 DEF PadArray, Field

\* A run that is whole is read as it is.
LEMMA ReadRunOK ==
    ASSUME NEW r, RunOK(r)
    PROVE  RunOK(ReadRun(r, FreshRun))
<1>. DEFINE F == {"credits", "lifetimeRun", "tiers", "grid", "overclock", "heat", "heatCooldownUntil"}
            q == ReadRun(r, FreshRun)
<1>1. DOMAIN r = F /\ DOMAIN FreshRun = F
  BY FreshDomains DEF RunOK
<1>2. /\ PadArray(r.tiers, FreshRun.tiers) = r.tiers
      /\ PadArray(r.grid, FreshRun.grid) = r.grid
      /\ PadArray(r.overclock, FreshRun.overclock) = r.overclock
  <2>1. FreshRun.grid = [i \in Grid |-> [owned |-> 0]] /\ FreshRun.overclock = [i \in Overclock |-> [owned |-> 0]]
    BY DEF FreshRun
  <2>. QED
    BY <2>1, PadRacks, PadNodes DEF RunOK
<1>3. Field(r, "tiers", Nothing) = r.tiers /\ Field(r, "grid", Nothing) = r.grid
      /\ Field(r, "overclock", Nothing) = r.overclock
  BY <1>1 DEF Field
<1>. DEFINE o == Over(r, FreshRun)
<1>4. DOMAIN o = F /\ \A k \in F : o[k] = r[k]
  BY <1>1, SameOver
<1>. HIDE DEF o
<1>5. q = [o EXCEPT !.tiers = r.tiers, !.grid = r.grid, !.overclock = r.overclock]
  BY <1>2, <1>3 DEF ReadRun, o
<1>6. DOMAIN q = F /\ \A k \in F : q[k] = r[k]
  <2>. HIDE DEF q
  <2>. QED BY <1>4, <1>5
<1>. HIDE DEF q
<1>7. /\ q.credits = r.credits /\ q.lifetimeRun = r.lifetimeRun /\ q.heat = r.heat
      /\ q.tiers = r.tiers /\ q.grid = r.grid /\ q.overclock = r.overclock
  BY <1>6
<1>8. RunOK(q)
  BY <1>6, <1>7 DEF RunOK
<1>. QED
  BY <1>8 DEF q

\* So is Cold Storage.
LEMMA ReadColdOK ==
    ASSUME NEW c, ColdOK(c), NEW now
    PROVE  /\ ColdOK(ReadCold(c, FreshMeta(now).coldStorage))
           /\ \A k \in DOMAIN c : ReadCold(c, FreshMeta(now).coldStorage)[k] = c[k]
<1>. DEFINE base == FreshMeta(now).coldStorage
            F == {"trackStartedAt", "blocksClaimed", "trackCycle", "tapes", "upgrades", "job"}
            q == ReadCold(c, base)
            o == Over(c, base)
<1>1. DOMAIN c = F /\ DOMAIN base = F
  BY FreshDomains DEF ColdOK
<1>2. DOMAIN base.upgrades = DOMAIN TapeUpgradeDefs
  BY DEF FreshMeta
<1>. HIDE DEF base
<1>3. DOMAIN o = F /\ \A k \in F : o[k] = c[k]
  BY <1>1, SameOver
<1>4a. Field(c, "blocksClaimed", {}) \cap Blocks = c.blocksClaimed
  BY <1>1 DEF Field, ColdOK
<1>4. Within(c, "upgrades", base) = c.upgrades
  <2>1. Field(c, "upgrades", Nothing) = c.upgrades
    BY <1>1 DEF Field
  <2>2. Over(c.upgrades, base.upgrades) = c.upgrades
    BY <1>2, OverFcn DEF ColdOK
  <2>. QED
    BY <2>1, <2>2 DEF Within
<1>. HIDE DEF o
<1>5. q = [o EXCEPT !.blocksClaimed = c.blocksClaimed, !.upgrades = c.upgrades]
  BY <1>4, <1>4a DEF ReadCold, o
<1>6. DOMAIN q = F /\ \A k \in F : q[k] = c[k]
  <2>. HIDE DEF q
  <2>. QED BY <1>3, <1>5
<1>. HIDE DEF q
<1>7. ColdOK(q)
  BY <1>6 DEF ColdOK
<1>. QED
  BY <1>1, <1>6, <1>7 DEF q, base

\* So is the board.
LEMMA ReadBoardOK ==
    ASSUME NEW c, ContractsOK(c), NEW base, DOMAIN base = {"dateKey", "targets", "baseline", "claimed"}
    PROVE  ReadBoard(c, base) = c
<1>. DEFINE F == {"dateKey", "targets", "baseline", "claimed"}
<1>1. c = [k \in F |-> c[k]] /\ DOMAIN c = F
  BY DEF ContractsOK
<1>2. Over(c, base) = [k \in F |-> c[k]]
  BY <1>1 DEF Over, Field
<1>3. PadTo3(Field(c, "targets", Nothing)) = c.targets /\ Field(c, "claimed", {}) \cap (1 .. BoardSize) = c.claimed
  BY <1>1 DEF ContractsOK, Field
<1>4. ReadBoard(c, base) = [[k \in F |-> c[k]] EXCEPT !.targets = c.targets, !.claimed = c.claimed]
  BY <1>2, <1>3 DEF ReadBoard
<1>5. [[k \in F |-> c[k]] EXCEPT !.targets = c.targets, !.claimed = c.claimed] = [k \in F |-> c[k]]
  OBVIOUS
<1>. QED
  BY <1>1, <1>4, <1>5

\* So is the streak.
LEMMA ReadStreakOK ==
    ASSUME NEW k, StreakOK(k), NEW base, DOMAIN base = {"count", "lastClaimDate"}
    PROVE  Over(k, base) = k
<1>1. k \in [{"count", "lastClaimDate"} -> Int \cup {None}]
  BY DEF StreakOK
<1>. QED
  BY <1>1, OverFcn

\* So is meta.
LEMMA ReadMetaOK ==
    ASSUME NEW m, MetaOK(m), NEW now
    PROVE  LET q == ReadMeta(m, FreshMeta(now))
           IN  /\ MetaOK(q)
               /\ \A k \in MetaFields \ {"coldStorage"} : q[k] = m[k]
               /\ \A k \in DOMAIN m.coldStorage : q.coldStorage[k] = m.coldStorage[k]
<1>. DEFINE base == FreshMeta(now)
            q == ReadMeta(m, base)
            o == Over(m, base)
            cs == ReadCold(m.coldStorage, base.coldStorage)
<1>1. DOMAIN m = MetaFields /\ DOMAIN base = MetaFields
  BY FreshDomains DEF MetaOK
<1>2. /\ DOMAIN base.upgrades = DOMAIN UpgradeDefs /\ DOMAIN base.shardUpgrades = DOMAIN SingularityDefs
      /\ DOMAIN base.repeatable = DOMAIN RepeatableDefs /\ DOMAIN base.stats = Counters
      /\ DOMAIN base.streak = {"count", "lastClaimDate"}
      /\ DOMAIN base.contracts = {"dateKey", "targets", "baseline", "claimed"}
  BY DEF FreshMeta
<1>3. ColdOK(cs) /\ \A k \in DOMAIN m.coldStorage : cs[k] = m.coldStorage[k]
  BY ReadColdOK DEF MetaOK
<1>. HIDE DEF base, cs
<1>4. DOMAIN o = MetaFields /\ \A k \in MetaFields : o[k] = m[k]
  BY <1>1, SameOver
<1>. HIDE DEF o
<1>5. /\ \A k \in MetaFields : Field(m, k, Nothing) = m[k]
  BY <1>1 DEF Field
<1>6. /\ Within(m, "upgrades", base) = m.upgrades
      /\ Within(m, "shardUpgrades", base) = m.shardUpgrades
      /\ Within(m, "repeatable", base) = m.repeatable
      /\ Within(m, "stats", base) = m.stats
      /\ Within(m, "streak", base) = m.streak
      /\ ReadBoard(Field(m, "contracts", Nothing), base.contracts) = m.contracts
      /\ ReadSupplies(m) = m.supplies
  <2>1. Field(m, "upgrades", Nothing) = m.upgrades /\ Field(m, "shardUpgrades", Nothing) = m.shardUpgrades
        /\ Field(m, "repeatable", Nothing) = m.repeatable /\ Field(m, "stats", Nothing) = m.stats
        /\ Field(m, "supplies", Nothing) = m.supplies /\ Field(m, "streak", Nothing) = m.streak
        /\ Field(m, "contracts", Nothing) = m.contracts
    BY <1>5 DEF MetaFields
  <2>2. /\ Over(m.upgrades, base.upgrades) = m.upgrades
        /\ Over(m.shardUpgrades, base.shardUpgrades) = m.shardUpgrades
        /\ Over(m.repeatable, base.repeatable) = m.repeatable
        /\ Over(m.stats, base.stats) = m.stats
    BY <1>2, OverFcn DEF MetaOK
  <2>3. Over(m.streak, base.streak) = m.streak /\ ReadBoard(m.contracts, base.contracts) = m.contracts
    BY <1>2, ReadStreakOK, ReadBoardOK DEF MetaOK
  <2>4. ReadSupplies(m) = m.supplies
    <3>1. ReadSupplies(m) = [id \in Supplies |-> Larger(0, Field(m.supplies, id, 0))]
      BY <2>1 DEF ReadSupplies
    <3>2. m.supplies \in [Supplies -> Nat]
      BY DEF MetaOK
    <3>. QED
      BY <3>1, <3>2 DEF Field, Larger
  <2>. QED
    BY <2>1, <2>2, <2>3, <2>4 DEF Within
<1>7. q = [o EXCEPT !.upgrades = m.upgrades, !.shardUpgrades = m.shardUpgrades, !.repeatable = m.repeatable,
                    !.stats = m.stats, !.streak = m.streak, !.contracts = m.contracts, !.supplies = m.supplies,
                    !.coldStorage = cs]
  <2>1. Field(m, "coldStorage", Nothing) = m.coldStorage
    BY <1>5 DEF MetaFields
  <2>. QED
    BY <1>6, <2>1 DEF ReadMeta, o, cs
<1>8. /\ DOMAIN q = MetaFields /\ q.coldStorage = cs
      /\ \A k \in MetaFields \ {"coldStorage"} : q[k] = m[k]
  <2>. HIDE DEF q
  <2>. QED BY <1>4, <1>7 DEF MetaFields
<1>. HIDE DEF q
<1>9. MetaOK(q)
  BY <1>3, <1>8 DEF MetaOK, MetaFields
<1>. QED
  BY <1>3, <1>8, <1>9 DEF q, base

\* Of the server part only malformed outages are dropped.
LEMMA ReadServerOK ==
    ASSUME NEW v, NEW t, ServerOK(v, t)
    PROVE  ServerOK(ReadServer(v, FreshServer), t)
<1>. DEFINE q == ReadServer(v, FreshServer)
            o == Over(v, FreshServer)
            down == {p \in v.outages : p.endAt > p.startAt}
            gm == IF v.gridMaintenance = None THEN None
                  ELSE IF v.gridMaintenance.endAt > v.gridMaintenance.startAt THEN v.gridMaintenance ELSE None
<1>1. DOMAIN v = ServerFields /\ DOMAIN FreshServer = ServerFields
  BY FreshDomains DEF ServerOK
<1>2. DOMAIN o = ServerFields /\ \A k \in ServerFields : o[k] = v[k]
  BY <1>1, SameOver
<1>3. q = [o EXCEPT !.outages = down, !.gridMaintenance = gm]
  <2>1. Field(v, "outages", {}) = v.outages /\ Field(v, "gridMaintenance", None) = v.gridMaintenance
    BY <1>1 DEF Field, ServerFields
  <2>. QED
    BY <2>1 DEF ReadServer
<1>4. IsFiniteSet(down) /\ \A p \in down : OutageOK(p, t)
  BY FS_Subset DEF ServerOK
<1>5. gm # None => gm.startAt \in Nat /\ gm.endAt \in Nat
  BY DEF ServerOK
<1>. HIDE DEF o, q, down, gm
<1>6. /\ DOMAIN q = ServerFields /\ q.outages = down /\ q.gridMaintenance = gm
      /\ q.boost = v.boost /\ q.nextHazardAt = v.nextHazardAt
  BY <1>2, <1>3 DEF ServerFields
<1>7. ServerOK(q, t)
  BY <1>4, <1>5, <1>6 DEF ServerOK
<1>. QED
  BY <1>7 DEF q

\* What is stored is read back as it was, but for outages and windows without an extent.
LEMMA StoredIsKept ==
    ASSUME NEW s, NEW t, SaveOK(s, t), NEW now
    PROVE  Step(s, MigrateSave(s, now), t, Parts) /\ MigrateSave(s, now).meta.upgrades = s.meta.upgrades
           /\ MigrateSave(s, now).meta.contracts = s.meta.contracts
<1>. DEFINE r == ReadRun(s.run, FreshRun)
            m == ReadMeta(s.meta, FreshMeta(now))
            v == ReadServer(s.server, FreshServer)
            x == MigrateSave(s, now)
<1>1. x = [run |-> r, meta |-> m, server |-> v]
  <2>1. Field(s, "run", Nothing) = s.run /\ Field(s, "meta", Nothing) = s.meta /\ Field(s, "server", Nothing) = s.server
    BY DEF Field, SaveOK
  <2>. QED
    BY <2>1, MigrateIs
<1>2. RunOK(r) /\ ServerOK(v, t)
  BY ReadRunOK, ReadServerOK DEF SaveOK
<1>3. /\ MetaOK(m)
      /\ \A k \in MetaFields \ {"coldStorage"} : m[k] = s.meta[k]
      /\ \A k \in DOMAIN s.meta.coldStorage : m.coldStorage[k] = s.meta.coldStorage[k]
  BY ReadMetaOK DEF SaveOK
<1>. HIDE DEF r, m, v, x
<1>4. SaveOK(x, t) /\ x.meta = m
  BY <1>1, <1>2, <1>3 DEF SaveOK
<1>5. /\ m.legacyCores = s.meta.legacyCores /\ m.wafers = s.meta.wafers /\ m.level = s.meta.level
      /\ m.xp = s.meta.xp /\ m.goalsCompleted = s.meta.goalsCompleted /\ m.upgrades = s.meta.upgrades
      /\ m.repeatable = s.meta.repeatable
      /\ m.stats = s.meta.stats /\ m.contracts = s.meta.contracts
      /\ m.streak = s.meta.streak
  BY <1>3 DEF MetaFields
<1>6. /\ m.coldStorage.trackStartedAt = s.meta.coldStorage.trackStartedAt
      /\ m.coldStorage.blocksClaimed = s.meta.coldStorage.blocksClaimed
      /\ m.coldStorage.trackCycle = s.meta.coldStorage.trackCycle
      /\ m.coldStorage.tapes = s.meta.coldStorage.tapes
      /\ m.coldStorage.upgrades = s.meta.coldStorage.upgrades
      /\ m.coldStorage.job = s.meta.coldStorage.job
  BY <1>3 DEF SaveOK, MetaOK, ColdOK
<1>7. \A c \in Counters : s.meta.stats[c] <= s.meta.stats[c]
  BY DEF SaveOK, MetaOK
<1>8. Step(s, x, t, Parts)
  BY <1>4, <1>5, <1>6, <1>7 DEF Step, Keeps, Track, Work, Cores, Tapes, Wafers, Xp
<1>. QED
  BY <1>4, <1>5, <1>8 DEF x

(***************************************************************************)
(* What migrateSave makes of the row a player came with.                   *)
(***************************************************************************)
RowOK(row) ==
    /\ DOMAIN row \subseteq {"run", "meta", "server"}
    /\ RunRow(Field(row, "run", Nothing)) /\ MetaRow(Field(row, "meta", Nothing))
    /\ ServerRow(Field(row, "server", Nothing))

\* The empty row.
LEMMA NothingIs == DOMAIN Nothing = {} /\ \A k, d : Field(Nothing, k, d) = d
<1>1. DOMAIN Nothing = {}
  BY DEF Nothing
<1>. QED
  BY <1>1 DEF Field

\* The rows players come with.
LEMMA RowsOK ==
    /\ RowOK(Nothing)
    /\ \A p \in Players : p.row # None => RowOK(p.row)
<1>1. RowOK(Nothing)
  <2>0. \A fields, S : Of(Nothing, fields, S) /\ Some(Nothing, fields, S)
    BY NothingIs DEF Of, Some
  <2>1. RunRow(Nothing)
    <3>1. \A lane \in Lanes : \A i \in DOMAIN Field(Nothing, lane, Nothing) : FALSE
      BY NothingIs
    <3>. QED
      BY <2>0, <3>1, NothingIs DEF RunRow
  <2>2. ContractsRow(Nothing) /\ ColdStorageRow(Nothing)
    BY <2>0, NothingIs DEF ContractsRow, ColdStorageRow
  <2>3. MetaRow(Nothing)
    BY <2>0, <2>2, NothingIs DEF MetaRow
  <2>4. ServerRow(Nothing)
    BY <2>0, NothingIs, FS_EmptySet DEF ServerRow
  <2>. QED
    BY <2>1, <2>3, <2>4, NothingIs DEF RowOK
<1>2. ASSUME NEW p \in Players, p.row # None PROVE RowOK(p.row)
  BY <1>2, RowAssumption DEF RowOK
<1>. QED
  BY <1>1, <1>2

\* A table of counts read over one of noughts.
LEMMA CountsOver ==
    ASSUME NEW S, NEW base \in [S -> Nat], NEW r, Some(r, S, Nat)
    PROVE  Over(r, base) \in [S -> Nat]
<1>1. DOMAIN r \cup DOMAIN base = S /\ \A k \in S : Field(r, k, base[k]) \in Nat
  BY DEF Some, Of, Field
<1>. QED
  BY <1>1 DEF Over

RackRow(list) ==
    \A i \in DOMAIN list :
        /\ DOMAIN list[i] \subseteq {"owned", "manager", "ready"}
        /\ Of(list[i], {"owned", "ready"}, Nat) /\ Of(list[i], {"manager"}, BOOLEAN)

NodeRow(list) == \A i \in DOMAIN list : DOMAIN list[i] \subseteq {"owned"} /\ Of(list[i], {"owned", "ready"}, Nat)

\* The racks of a row.
LEMMA RowRacks ==
    ASSUME NEW list, RackRow(list)
    PROVE  PadArray(list, FreshRun.tiers) \in [Tiers -> RackSet]
<1>. DEFINE F == {"owned", "manager", "ready"}
<1>1. ASSUME NEW i PROVE LET u == Field(list, i, Nothing)
                         IN  DOMAIN u \subseteq F /\ Of(u, {"owned", "ready"}, Nat) /\ Of(u, {"manager"}, BOOLEAN)
  <2>1. CASE i \in DOMAIN list
    BY <2>1 DEF RackRow, Field
  <2>2. CASE i \notin DOMAIN list
    BY <2>2, NothingIs DEF Field, Of
  <2>. QED
    BY <2>1, <2>2
<1>2. ASSUME NEW u, NEW base \in RackSet, DOMAIN u \subseteq F, Of(u, {"owned", "ready"}, Nat), Of(u, {"manager"}, BOOLEAN)
      PROVE  Over(u, base) \in RackSet
  <2>1. DOMAIN base = F /\ base.owned \in Nat /\ base.manager \in BOOLEAN /\ base.ready \in Nat
    BY DEF RackSet
  <2>2. Over(u, base) = [k \in F |-> Field(u, k, base[k])]
    BY <1>2, <2>1 DEF Over
  <2>3. Field(u, "owned", base.owned) \in Nat /\ Field(u, "ready", base.ready) \in Nat
        /\ Field(u, "manager", base.manager) \in BOOLEAN
    BY <1>2, <2>1 DEF Of, Field
  <2>. QED
    BY <2>2, <2>3 DEF RackSet
<1>3. DOMAIN FreshRun.tiers = Tiers /\ \A i \in Tiers : FreshRun.tiers[i] \in RackSet
  BY DEF FreshRun, RackSet
<1>. QED
  BY <1>1, <1>2, <1>3 DEF PadArray

\* The units of its other lanes.
LEMMA RowNodes ==
    ASSUME NEW list, NodeRow(list), NEW S, NEW fresh, fresh = [i \in S |-> [owned |-> 0]]
    PROVE  PadArray(list, fresh) \in [S -> NodeSet]
<1>1. ASSUME NEW i PROVE LET u == Field(list, i, Nothing)
                         IN  DOMAIN u \subseteq {"owned"} /\ ("owned" \in DOMAIN u => u.owned \in Nat)
  <2>1. CASE i \in DOMAIN list
    BY <2>1 DEF NodeRow, Field, Of
  <2>2. CASE i \notin DOMAIN list
    BY <2>2, NothingIs DEF Field
  <2>. QED
    BY <2>1, <2>2
<1>2. ASSUME NEW u, NEW base, base = [owned |-> 0], DOMAIN u \subseteq {"owned"}, "owned" \in DOMAIN u => u.owned \in Nat
      PROVE  Over(u, base) \in NodeSet
  <2>1. DOMAIN base = {"owned"} /\ base.owned = 0
    BY <1>2
  <2>2. Over(u, base) = [k \in {"owned"} |-> Field(u, k, base[k])]
    BY <1>2, <2>1 DEF Over
  <2>3. Field(u, "owned", base.owned) \in Nat
    BY <1>2, <2>1 DEF Field
  <2>. QED
    BY <2>2, <2>3 DEF NodeSet
<1>3. DOMAIN fresh = S /\ \A i \in S : fresh[i] = [owned |-> 0]
  OBVIOUS
<1>. QED
  BY <1>1, <1>2, <1>3 DEF PadArray

\* The run of a row, read into a new one.
LEMMA RowRun ==
    ASSUME NEW run, RunRow(run)
    PROVE  RunOK(ReadRun(run, FreshRun))
<1>. DEFINE F == {"credits", "lifetimeRun", "tiers", "grid", "overclock", "heat", "heatCooldownUntil"}
            o == Over(run, FreshRun)
            tiers == PadArray(Field(run, "tiers", Nothing), FreshRun.tiers)
            grid == PadArray(Field(run, "grid", Nothing), FreshRun.grid)
            overclock == PadArray(Field(run, "overclock", Nothing), FreshRun.overclock)
            q == ReadRun(run, FreshRun)
<1>1. tiers \in [Tiers -> RackSet] /\ grid \in [Grid -> NodeSet] /\ overclock \in [Overclock -> NodeSet]
  <2>1. /\ RackRow(Field(run, "tiers", Nothing))
        /\ NodeRow(Field(run, "grid", Nothing)) /\ NodeRow(Field(run, "overclock", Nothing))
    BY DEF RunRow, Lanes, RackRow, NodeRow
  <2>2. FreshRun.grid = [i \in Grid |-> [owned |-> 0]] /\ FreshRun.overclock = [i \in Overclock |-> [owned |-> 0]]
    BY DEF FreshRun
  <2>. QED
    BY <2>1, <2>2, RowRacks, RowNodes
<1>2. DOMAIN FreshRun = F /\ DOMAIN run \subseteq F
  BY FreshDomains DEF RunRow
<1>3. DOMAIN o = F /\ \A k \in F : o[k] = Field(run, k, FreshRun[k])
  BY <1>2, OverIs
<1>4. o.credits \in Nat /\ o.lifetimeRun \in Nat /\ o.heat \in Nat
  <2>1. FreshRun.credits = 10 /\ FreshRun.lifetimeRun = 0 /\ FreshRun.heat = 0
    BY DEF FreshRun
  <2>2. o.credits = Field(run, "credits", 10) /\ o.lifetimeRun = Field(run, "lifetimeRun", 0) /\ o.heat = Field(run, "heat", 0)
    BY <1>3, <2>1
  <2>. QED
    BY <2>2 DEF RunRow, Of, Field
<1>5. q = [o EXCEPT !.tiers = tiers, !.grid = grid, !.overclock = overclock]
  BY DEF ReadRun
<1>. HIDE DEF o, tiers, grid, overclock, q
<1>6. /\ DOMAIN q = F /\ q.tiers = tiers /\ q.grid = grid /\ q.overclock = overclock
      /\ q.credits = o.credits /\ q.lifetimeRun = o.lifetimeRun /\ q.heat = o.heat
  BY <1>3, <1>5
<1>7. RunOK(q)
  BY <1>1, <1>4, <1>6 DEF RunOK
<1>. QED
  BY <1>7 DEF q

\* A row's meta, part by part.
LEMMA MetaParts ==
    ASSUME NEW meta, DOMAIN meta \subseteq MetaFields, NEW base, DOMAIN base = MetaFields, NEW q, q = ReadMeta(meta, base)
    PROVE  /\ DOMAIN q = MetaFields
           /\ q.upgrades = Within(meta, "upgrades", base) /\ q.shardUpgrades = Within(meta, "shardUpgrades", base)
           /\ q.repeatable = Within(meta, "repeatable", base) /\ q.stats = Within(meta, "stats", base)
           /\ q.streak = Within(meta, "streak", base) /\ q.supplies = ReadSupplies(meta)
           /\ q.contracts = ReadBoard(Field(meta, "contracts", Nothing), base.contracts)
           /\ q.coldStorage = ReadCold(Field(meta, "coldStorage", Nothing), base.coldStorage)
           /\ \A k \in {"legacyCores", "wafers", "level", "xp", "singularityShards", "goalsCompleted", "achievements"} :
                  q[k] = Field(meta, k, base[k])
<1>. DEFINE o == Over(meta, base)
            u == Within(meta, "upgrades", base)
            sh == Within(meta, "shardUpgrades", base)
            rp == Within(meta, "repeatable", base)
            st == Within(meta, "stats", base)
            sk == Within(meta, "streak", base)
            su == ReadSupplies(meta)
            bo == ReadBoard(Field(meta, "contracts", Nothing), base.contracts)
            cs == ReadCold(Field(meta, "coldStorage", Nothing), base.coldStorage)
<1>1. q = [o EXCEPT !.upgrades = u, !.shardUpgrades = sh, !.repeatable = rp, !.stats = st, !.streak = sk,
                    !.contracts = bo, !.supplies = su, !.coldStorage = cs]
  BY DEF ReadMeta
<1>2. DOMAIN o = MetaFields /\ \A k \in MetaFields : o[k] = Field(meta, k, base[k])
  BY OverIs
<1>. HIDE DEF o, u, sh, rp, st, sk, su, bo, cs
<1>3. /\ DOMAIN q = MetaFields
      /\ q.upgrades = u /\ q.shardUpgrades = sh /\ q.repeatable = rp /\ q.stats = st /\ q.streak = sk
      /\ q.contracts = bo /\ q.supplies = su /\ q.coldStorage = cs
      /\ \A k \in MetaFields \ {"upgrades", "shardUpgrades", "repeatable", "stats", "streak", "contracts", "supplies",
                                "coldStorage"} : q[k] = o[k]
  BY <1>1, <1>2 DEF MetaFields
<1>4. \A k \in {"legacyCores", "wafers", "level", "xp", "singularityShards", "goalsCompleted", "achievements"} :
          q[k] = Field(meta, k, base[k])
  BY <1>2, <1>3 DEF MetaFields
<1>. QED
  BY <1>3, <1>4 DEF u, sh, rp, st, sk, su, bo, cs

\* A row's Cold Storage, part by part.
LEMMA ColdParts ==
    ASSUME NEW cold, ColdStorageRow(cold), NEW now, NEW q, q = ReadCold(cold, FreshMeta(now).coldStorage)
    PROVE  /\ DOMAIN q = {"trackStartedAt", "blocksClaimed", "trackCycle", "tapes", "upgrades", "job"}
           /\ q.blocksClaimed = Field(cold, "blocksClaimed", {}) \cap Blocks
           /\ q.upgrades = Over(Field(cold, "upgrades", Nothing), [id \in DOMAIN TapeUpgradeDefs |-> 0])
           /\ q.trackStartedAt = Field(cold, "trackStartedAt", now)
           /\ q.trackCycle = Field(cold, "trackCycle", 0) /\ q.tapes = Field(cold, "tapes", 0)
           /\ q.job = Field(cold, "job", None)
<1>. DEFINE F == {"trackStartedAt", "blocksClaimed", "trackCycle", "tapes", "upgrades", "job"}
            base == FreshMeta(now).coldStorage
            o == Over(cold, base)
            bl == Field(cold, "blocksClaimed", {}) \cap Blocks
            u == Within(cold, "upgrades", base)
<1>1. /\ DOMAIN base = F /\ base.upgrades = [id \in DOMAIN TapeUpgradeDefs |-> 0] /\ base.trackStartedAt = now
      /\ base.trackCycle = 0 /\ base.tapes = 0 /\ base.job = None
  BY DEF FreshMeta
<1>. HIDE DEF base
<1>2. DOMAIN cold \subseteq F
  BY DEF ColdStorageRow
<1>3. DOMAIN o = F /\ \A k \in F : o[k] = Field(cold, k, base[k])
  BY <1>1, <1>2, OverIs
<1>4. q = [o EXCEPT !.blocksClaimed = bl, !.upgrades = u]
  BY DEF ReadCold, base
<1>5. u = Over(Field(cold, "upgrades", Nothing), [id \in DOMAIN TapeUpgradeDefs |-> 0])
  BY <1>1 DEF Within
<1>. HIDE DEF o, bl, u
<1>6. DOMAIN q = F /\ q.blocksClaimed = bl /\ q.upgrades = u /\ \A k \in F \ {"blocksClaimed", "upgrades"} : q[k] = o[k]
  BY <1>3, <1>4
<1>7. /\ q.trackStartedAt = Field(cold, "trackStartedAt", base.trackStartedAt)
      /\ q.trackCycle = Field(cold, "trackCycle", base.trackCycle)
      /\ q.tapes = Field(cold, "tapes", base.tapes) /\ q.job = Field(cold, "job", base.job)
  BY <1>3, <1>6
<1>. QED
  BY <1>1, <1>5, <1>6, <1>7 DEF bl

\* Cold Storage of a row, and a track that is not ahead of its reading.
LEMMA RowCold ==
    ASSUME NEW cold, ColdStorageRow(cold), NEW now \in Nat, Start <= now, NEW q, q = ReadCold(cold, FreshMeta(now).coldStorage)
    PROVE  ColdOK(q) /\ q.trackStartedAt <= now
<1>1. Field(cold, "trackStartedAt", now) \in Nat /\ Field(cold, "trackStartedAt", now) <= now
  <2>1. Start \in Nat
    BY ClockAssumption DEF Positive
  <2>2. "trackStartedAt" \in DOMAIN cold => cold.trackStartedAt \in 0 .. Start
    BY DEF ColdStorageRow, Of
  <2>. QED
    BY <2>1, <2>2 DEF Field
<1>2. Field(cold, "trackCycle", 0) \in Nat /\ Field(cold, "tapes", 0) \in Nat
  BY DEF ColdStorageRow, Of, Field
<1>3. Over(Field(cold, "upgrades", Nothing), [id \in DOMAIN TapeUpgradeDefs |-> 0]) \in [DOMAIN TapeUpgradeDefs -> Nat]
  BY CountsOver DEF ColdStorageRow
<1>4. JobOK(Field(cold, "job", None))
  <2>. DEFINE job == Field(cold, "job", None)
  <2>1. job # None => job \in [type : {"defrag", "deep"}, accruedOfflineSec : Nat, startedAt : Nat]
    BY DEF ColdStorageRow
  <2>. HIDE DEF job
  <2>2. JobOK(job)
    BY <2>1 DEF JobOK
  <2>. QED
    BY <2>2 DEF job
<1>. QED
  BY <1>1, <1>2, <1>3, <1>4, ColdParts DEF ColdOK

\* A board as a row has it: of some day, its targets and counters numbers.
DayRow(c) ==
    /\ c.dateKey \in {None} \cup {UtcDateKey(t) : t \in 0 .. Start}
    /\ \A i \in 1 .. BoardSize : c.targets[i] \in Int
    /\ DOMAIN c.baseline \subseteq DOMAIN ContractDefs /\ \A m : Field(c.baseline, m, 0) \in Int

\* The board of a row.
LEMMA RowBoard ==
    ASSUME NEW c, ContractsRow(c), NEW now
    PROVE  LET q == ReadBoard(c, FreshMeta(now).contracts) IN ContractsOK(q) /\ DayRow(q)
<1>. DEFINE F == {"dateKey", "targets", "baseline", "claimed"}
            base == FreshMeta(now).contracts
            q == ReadBoard(c, base)
            o == Over(c, base)
            list == Field(c, "targets", Nothing)
            ta == PadTo3(list)
            cl == Field(c, "claimed", {}) \cap (1 .. BoardSize)
<1>1. DOMAIN base = F /\ base.dateKey = None /\ base.baseline = Nothing
  BY DEF FreshMeta
<1>. HIDE DEF base
<1>2. DOMAIN o = F /\ \A k \in F : o[k] = Field(c, k, base[k])
  BY <1>1, OverIs DEF ContractsRow
<1>3. q = [o EXCEPT !.targets = ta, !.claimed = cl]
  BY DEF ReadBoard
<1>4. ta = PadTo3(ta) /\ \A i \in 1 .. BoardSize : ta[i] \in Int
  <2>1. \A i \in DOMAIN list : list[i] \in Int
    BY DEF ContractsRow, Of
  <2>. HIDE DEF list
  <2>2. \A i \in 1 .. BoardSize : ta[i] = Field(list, i, 0)
    BY DEF PadTo3
  <2>. QED
    BY <2>1, <2>2, PaddedOnce DEF Field
<1>. HIDE DEF o, ta, cl, q
<1>5. /\ DOMAIN q = F /\ q.targets = ta /\ q.claimed = cl /\ q.dateKey = Field(c, "dateKey", None)
      /\ q.baseline = Field(c, "baseline", Nothing) /\ q = [k \in F |-> q[k]]
  <2>1. /\ q.targets = ta /\ q.claimed = cl /\ q.dateKey = o.dateKey /\ q.baseline = o.baseline
        /\ DOMAIN q = F /\ q = [k \in F |-> q[k]]
    BY <1>2, <1>3
  <2>. QED
    BY <1>1, <1>2, <2>1
<1>6. q = [dateKey |-> q.dateKey, targets |-> q.targets, baseline |-> q.baseline, claimed |-> q.claimed]
  BY <1>5
<1>7. q.dateKey \in {None} \cup {UtcDateKey(t) : t \in 0 .. Start}
  <2>1. "dateKey" \in DOMAIN c => c.dateKey \in {None} \cup {UtcDateKey(t) : t \in 0 .. Start}
    BY DEF ContractsRow, Of
  <2>. QED
    BY <1>5, <2>1 DEF Field
<1>8. DOMAIN q.baseline \subseteq DOMAIN ContractDefs /\ \A m : Field(q.baseline, m, 0) \in Int
  BY <1>5 DEF ContractsRow, Some, Of, Field
<1>9. ContractsOK(q) /\ DayRow(q)
  BY <1>4, <1>5, <1>6, <1>7, <1>8 DEF ContractsOK, DayRow, cl
<1>. QED
  BY <1>9 DEF q, base

\* The meta of a row, read into a new one.
LEMMA RowMeta ==
    ASSUME NEW meta, MetaRow(meta), NEW now \in Nat, Start <= now, NEW q, q = ReadMeta(meta, FreshMeta(now))
    PROVE  MetaOK(q) /\ q.coldStorage.trackStartedAt <= now /\ DayRow(q.contracts)
<1>. DEFINE base == FreshMeta(now)
            zero(S) == [id \in S |-> 0]
<1>1. DOMAIN base = MetaFields /\ DOMAIN meta \subseteq MetaFields
  BY FreshDomains DEF MetaRow
<1>2. /\ base.upgrades = zero(DOMAIN UpgradeDefs) /\ base.shardUpgrades = zero(DOMAIN SingularityDefs)
      /\ base.repeatable = zero(DOMAIN RepeatableDefs) /\ base.stats = zero(Counters)
      /\ base.streak = [count |-> 0, lastClaimDate |-> None]
      /\ base.legacyCores = 0 /\ base.wafers = 0 /\ base.level = 0 /\ base.xp = 0 /\ base.singularityShards = 0
      /\ base.goalsCompleted = {}
  BY DEF FreshMeta
<1>3. \A S : zero(S) \in [S -> Nat]
  OBVIOUS
<1>4. ColdOK(ReadCold(Field(meta, "coldStorage", Nothing), base.coldStorage))
      /\ ReadCold(Field(meta, "coldStorage", Nothing), base.coldStorage).trackStartedAt <= now
  BY RowCold DEF MetaRow
<1>5. LET b == ReadBoard(Field(meta, "contracts", Nothing), base.contracts) IN ContractsOK(b) /\ DayRow(b)
  BY RowBoard DEF MetaRow
<1>6. /\ Some(Field(meta, "upgrades", Nothing), DOMAIN UpgradeDefs, Nat)
      /\ Some(Field(meta, "shardUpgrades", Nothing), DOMAIN SingularityDefs, Nat)
      /\ Some(Field(meta, "repeatable", Nothing), DOMAIN RepeatableDefs, Nat)
      /\ Some(Field(meta, "stats", Nothing), Counters, Nat)
  BY DEF MetaRow
<1>7. ReadSupplies(meta) \in [Supplies -> Nat]
  <2>. DEFINE supplies == Field(meta, "supplies", Nothing)
  <2>1. Some(supplies, Supplies, Int)
    BY DEF MetaRow
  <2>2. ReadSupplies(meta) = [id \in Supplies |-> Larger(0, Field(supplies, id, 0))]
    BY DEF ReadSupplies
  <2>. HIDE DEF supplies
  <2>3. \A id \in Supplies : Field(supplies, id, 0) \in Int
    BY <2>1 DEF Some, Of, Field
  <2>4. \A n \in Int : Larger(0, n) \in Nat
    BY DEF Larger
  <2>. QED
    BY <2>2, <2>3, <2>4
<1>8. StreakOK(Over(Field(meta, "streak", Nothing), [count |-> 0, lastClaimDate |-> None]))
  <2>. DEFINE k == Field(meta, "streak", Nothing)
              b == [count |-> 0, lastClaimDate |-> None]
  <2>1. DOMAIN k \subseteq {"count", "lastClaimDate"} /\ Of(k, {"count"}, Nat) /\ Of(k, {"lastClaimDate"}, Int \cup {None})
    BY DEF MetaRow
  <2>2. DOMAIN b = {"count", "lastClaimDate"} /\ b.count = 0 /\ b.lastClaimDate = None
    OBVIOUS
  <2>. HIDE DEF k, b
  <2>3. Over(k, b) = [f \in {"count", "lastClaimDate"} |-> Field(k, f, b[f])]
    BY <2>1, <2>2 DEF Over
  <2>4. Field(k, "count", b["count"]) \in Nat /\ Field(k, "lastClaimDate", b["lastClaimDate"]) \in Int \cup {None}
    BY <2>1, <2>2 DEF Of, Field
  <2>. QED
    BY <2>3, <2>4 DEF StreakOK, b, k
<1>. HIDE DEF base, zero
<1>9. /\ Within(meta, "upgrades", base) \in [DOMAIN UpgradeDefs -> Nat]
      /\ Within(meta, "shardUpgrades", base) \in [DOMAIN SingularityDefs -> Nat]
      /\ Within(meta, "repeatable", base) \in [DOMAIN RepeatableDefs -> Nat]
      /\ Within(meta, "stats", base) \in [Counters -> Nat]
  BY <1>2, <1>3, <1>6, CountsOver DEF Within
<1>10. StreakOK(Within(meta, "streak", base))
  BY <1>2, <1>8 DEF Within
<1>11. /\ Field(meta, "legacyCores", base.legacyCores) \in Nat /\ Field(meta, "wafers", base.wafers) \in Nat
       /\ Field(meta, "level", base.level) \in Nat /\ Field(meta, "xp", base.xp) \in Nat
       /\ Field(meta, "singularityShards", base.singularityShards) \in Nat
  BY <1>2 DEF MetaRow, Of, Field
<1>12. Field(meta, "goalsCompleted", base.goalsCompleted) \in SUBSET DOMAIN GoalDefs
  BY <1>2 DEF MetaRow
<1>13. /\ DOMAIN q = MetaFields
       /\ q.upgrades = Within(meta, "upgrades", base) /\ q.shardUpgrades = Within(meta, "shardUpgrades", base)
       /\ q.repeatable = Within(meta, "repeatable", base) /\ q.stats = Within(meta, "stats", base)
       /\ q.streak = Within(meta, "streak", base) /\ q.supplies = ReadSupplies(meta)
       /\ q.contracts = ReadBoard(Field(meta, "contracts", Nothing), base.contracts)
       /\ q.coldStorage = ReadCold(Field(meta, "coldStorage", Nothing), base.coldStorage)
       /\ \A k \in {"legacyCores", "wafers", "level", "xp", "singularityShards", "goalsCompleted", "achievements"} :
              q[k] = Field(meta, k, base[k])
  BY <1>1, MetaParts DEF base
<1>. QED
  BY <1>4, <1>5, <1>7, <1>9, <1>10, <1>11, <1>12, <1>13 DEF MetaOK

\* The server part of a row, as its last save left it.
LEMMA RowServer ==
    ASSUME NEW server, ServerRow(server), NEW q, q = ReadServer(server, FreshServer)
    PROVE  ServerOK(q, Start - 1)
<1>. DEFINE o == Over(server, FreshServer)
            f == Field(server, "outages", {})
            down == {p \in f : p.endAt > p.startAt}
            m == Field(server, "gridMaintenance", None)
            gm == IF m = None THEN None ELSE IF m.endAt > m.startAt THEN m ELSE None
<1>1. q = [o EXCEPT !.outages = down, !.gridMaintenance = gm]
  BY DEF ReadServer
<1>2. DOMAIN FreshServer = ServerFields /\ FreshServer.boost = None /\ FreshServer.nextHazardAt = 0
      /\ DOMAIN server \subseteq ServerFields
  <2>1. FreshServer.boost = None /\ FreshServer.nextHazardAt = 0
    BY DEF FreshServer
  <2>. QED
    BY <2>1, FreshDomains DEF ServerRow
<1>3. DOMAIN o = ServerFields /\ \A k \in ServerFields : o[k] = Field(server, k, FreshServer[k])
  BY <1>2, OverIs
<1>4. IsFiniteSet(down) /\ \A p \in down : OutageOK(p, Start - 1)
  <2>1. IsFiniteSet(f)
    BY DEF ServerRow
  <2>2. \A p \in f : /\ DOMAIN p = {"id", "kind", "scope", "factor", "startAt", "endAt", "source"}
                     /\ p.factor \in 0 .. Full /\ p.startAt \in Nat /\ p.endAt \in Nat /\ p.startAt < Start
                     /\ p.source = "hazard" => p.kind \in Range(HazardKinds)
    BY DEF ServerRow
  <2>. HIDE DEF f
  <2>3. Start \in Nat /\ 0 .. Full \subseteq Nat /\ Range(HazardKinds) \subseteq Hazards
    <3>1. HazardKinds = <<"ransomware", "ispOutage", "driveFailure">>
      BY DEF HazardKinds
    <3>2. Range(HazardKinds) \subseteq Hazards
      BY <3>1 DEF Range, Hazards
    <3>. QED
      BY <3>2, ClockAssumption DEF Positive
  <2>4. \A p \in down : OutageOK(p, Start - 1)
    BY <2>2, <2>3 DEF OutageOK
  <2>. QED
    BY <2>1, <2>4, FS_Subset
<1>5. gm # None => gm.startAt \in Nat /\ gm.endAt \in Nat
  <2>1. m # None => m \in [index : Nat, startAt : Nat, endAt : Nat]
    BY DEF ServerRow
  <2>. HIDE DEF m
  <2>. QED BY <2>1
<1>6. Field(server, "boost", None) # None => Field(server, "boost", None).mult \in Nat
  BY DEF ServerRow
<1>7. Field(server, "nextHazardAt", 0) \in Nat
  BY DEF ServerRow, Of, Field
<1>. HIDE DEF o, down, gm
<1>8. /\ DOMAIN q = ServerFields /\ q.outages = down /\ q.gridMaintenance = gm
      /\ q.boost = Field(server, "boost", None) /\ q.nextHazardAt = Field(server, "nextHazardAt", 0)
  BY <1>1, <1>2, <1>3 DEF ServerFields
<1>. QED
  BY <1>4, <1>5, <1>6, <1>7, <1>8 DEF ServerOK

\* What migrateSave reads of a row is a save, whatever the row lacks.
LEMMA RowRead ==
    ASSUME NEW row, RowOK(row), NEW now \in Nat, Start <= now, NEW x, x = MigrateSave(row, now)
    PROVE  /\ SaveOK(x, Start - 1) /\ SaveOK(x, now)
           /\ x.meta.coldStorage.trackStartedAt <= now /\ DayRow(x.meta.contracts)
<1>. DEFINE r == ReadRun(Field(row, "run", Nothing), FreshRun)
            m == ReadMeta(Field(row, "meta", Nothing), FreshMeta(now))
            v == ReadServer(Field(row, "server", Nothing), FreshServer)
<1>1. x = [run |-> r, meta |-> m, server |-> v]
  BY MigrateIs
<1>2. RunOK(r) /\ MetaOK(m) /\ m.coldStorage.trackStartedAt <= now /\ DayRow(m.contracts) /\ ServerOK(v, Start - 1)
  BY RowRun, RowMeta, RowServer DEF RowOK
<1>. HIDE DEF r, m, v
<1>3. ServerOK(v, now)
  <2>1. Start \in Nat /\ Start - 1 <= now
    BY ClockAssumption DEF Positive
  <2>2. \A o : OutageOK(o, Start - 1) => OutageOK(o, now)
    BY <2>1 DEF OutageOK
  <2>. QED
    BY <1>2, <2>2 DEF ServerOK
<1>. QED
  BY <1>1, <1>2, <1>3 DEF SaveOK

\* Read at two times, a row is the same save, but for a track it does not know.
LEMMA RowSame ==
    ASSUME NEW row, RowOK(row), NEW a \in Nat, Start <= a, NEW b \in Nat, Start <= b,
           NEW x, x = MigrateSave(row, a), NEW y, y = MigrateSave(row, b)
    PROVE  /\ Step(x, y, b, Parts \ {"track"}) /\ x.run = y.run /\ x.server = y.server
           /\ \A k \in MetaFields \ {"coldStorage"} : x.meta[k] = y.meta[k]
           /\ Track(y) = Track(x) \/ Track(y) = <<b, Track(x)[2], Track(x)[3]>>
<1>. DEFINE meta == Field(row, "meta", Nothing)
            cold == Field(meta, "coldStorage", Nothing)
            p == ReadMeta(meta, FreshMeta(a))
            q == ReadMeta(meta, FreshMeta(b))
            A == FreshMeta(a)
            B == FreshMeta(b)
<1>1. x.meta = p /\ y.meta = q /\ x.run = y.run /\ x.server = y.server
  BY MigrateIs
<1>2. /\ A.upgrades = B.upgrades /\ A.shardUpgrades = B.shardUpgrades /\ A.repeatable = B.repeatable
      /\ A.stats = B.stats /\ A.streak = B.streak /\ A.contracts = B.contracts
      /\ A.legacyCores = B.legacyCores /\ A.wafers = B.wafers /\ A.level = B.level /\ A.xp = B.xp
      /\ A.singularityShards = B.singularityShards /\ A.goalsCompleted = B.goalsCompleted
      /\ A.achievements = B.achievements
  BY DEF FreshMeta
<1>3. DOMAIN meta \subseteq MetaFields /\ DOMAIN A = MetaFields /\ DOMAIN B = MetaFields
      /\ ColdStorageRow(cold)
  BY FreshDomains DEF RowOK, MetaRow
<1>4. /\ p.coldStorage = ReadCold(cold, A.coldStorage) /\ q.coldStorage = ReadCold(cold, B.coldStorage)
      /\ \A k \in MetaFields \ {"coldStorage"} : p[k] = q[k]
  <2>. HIDE DEF A, B
  <2>1. /\ A.upgrades = B.upgrades /\ A.shardUpgrades = B.shardUpgrades /\ A.repeatable = B.repeatable
        /\ A.stats = B.stats /\ A.streak = B.streak /\ A.contracts = B.contracts
        /\ \A k \in {"legacyCores", "wafers", "level", "xp", "singularityShards", "goalsCompleted", "achievements"} :
               A[k] = B[k]
    BY <1>2
  <2>2. /\ DOMAIN p = MetaFields
        /\ p.upgrades = Within(meta, "upgrades", A) /\ p.shardUpgrades = Within(meta, "shardUpgrades", A)
        /\ p.repeatable = Within(meta, "repeatable", A) /\ p.stats = Within(meta, "stats", A)
        /\ p.streak = Within(meta, "streak", A) /\ p.supplies = ReadSupplies(meta)
        /\ p.contracts = ReadBoard(Field(meta, "contracts", Nothing), A.contracts)
        /\ p.coldStorage = ReadCold(cold, A.coldStorage)
        /\ \A k \in {"legacyCores", "wafers", "level", "xp", "singularityShards", "goalsCompleted", "achievements"} :
               p[k] = Field(meta, k, A[k])
    <3>. HIDE DEF meta
    <3>. QED BY <1>3, MetaParts DEF A
  <2>3. /\ DOMAIN q = MetaFields
        /\ q.upgrades = Within(meta, "upgrades", B) /\ q.shardUpgrades = Within(meta, "shardUpgrades", B)
        /\ q.repeatable = Within(meta, "repeatable", B) /\ q.stats = Within(meta, "stats", B)
        /\ q.streak = Within(meta, "streak", B) /\ q.supplies = ReadSupplies(meta)
        /\ q.contracts = ReadBoard(Field(meta, "contracts", Nothing), B.contracts)
        /\ q.coldStorage = ReadCold(cold, B.coldStorage)
        /\ \A k \in {"legacyCores", "wafers", "level", "xp", "singularityShards", "goalsCompleted", "achievements"} :
               q[k] = Field(meta, k, B[k])
    <3>. HIDE DEF meta
    <3>. QED BY <1>3, MetaParts DEF B
  <2>4. /\ \A k \in {"upgrades", "shardUpgrades", "repeatable", "stats", "streak"} : Within(meta, k, A) = Within(meta, k, B)
    BY <2>1 DEF Within
  <2>5. /\ p.upgrades = q.upgrades /\ p.shardUpgrades = q.shardUpgrades /\ p.repeatable = q.repeatable
        /\ p.stats = q.stats /\ p.streak = q.streak /\ p.supplies = q.supplies /\ p.contracts = q.contracts
    <3>. HIDE DEF p, q, meta
    <3>. QED BY <2>1, <2>2, <2>3, <2>4
  <2>6. \A k \in {"legacyCores", "wafers", "level", "xp", "singularityShards", "goalsCompleted", "achievements"} : p[k] = q[k]
    BY <2>1, <2>2, <2>3
  <2>. HIDE DEF p, q, meta, cold
  <2>. QED
    BY <2>2, <2>3, <2>5, <2>6 DEF MetaFields
<1>. DEFINE c == p.coldStorage
            d == q.coldStorage
<1>5. /\ d.blocksClaimed = c.blocksClaimed /\ d.upgrades = c.upgrades /\ d.trackCycle = c.trackCycle
      /\ d.tapes = c.tapes /\ d.job = c.job
      /\ d.trackStartedAt = c.trackStartedAt \/ d.trackStartedAt = b
  <2>. HIDE DEF cold, p, q, meta
  <2>1. /\ c.blocksClaimed = Field(cold, "blocksClaimed", {}) \cap Blocks
        /\ c.upgrades = Over(Field(cold, "upgrades", Nothing), [id \in DOMAIN TapeUpgradeDefs |-> 0])
        /\ c.trackStartedAt = Field(cold, "trackStartedAt", a)
        /\ c.trackCycle = Field(cold, "trackCycle", 0) /\ c.tapes = Field(cold, "tapes", 0)
        /\ c.job = Field(cold, "job", None)
    BY <1>3, <1>4, ColdParts
  <2>2. /\ d.blocksClaimed = Field(cold, "blocksClaimed", {}) \cap Blocks
        /\ d.upgrades = Over(Field(cold, "upgrades", Nothing), [id \in DOMAIN TapeUpgradeDefs |-> 0])
        /\ d.trackStartedAt = Field(cold, "trackStartedAt", b)
        /\ d.trackCycle = Field(cold, "trackCycle", 0) /\ d.tapes = Field(cold, "tapes", 0)
        /\ d.job = Field(cold, "job", None)
    BY <1>3, <1>4, ColdParts
  <2>. HIDE DEF c, d
  <2>. QED
    BY <2>1, <2>2 DEF Field
<1>6. SaveOK(y, b) /\ SaveOK(x, a)
  BY RowRead
<1>. HIDE DEF A, B, p, q, cold, meta
<1>7. /\ x.meta.coldStorage = c /\ y.meta.coldStorage = d
      /\ \A k \in MetaFields \ {"coldStorage"} : x.meta[k] = y.meta[k]
  BY <1>1, <1>4
<1>. HIDE DEF c, d
<1>8. /\ y.meta.legacyCores = x.meta.legacyCores /\ y.meta.wafers = x.meta.wafers /\ y.meta.level = x.meta.level
      /\ y.meta.xp = x.meta.xp /\ y.meta.goalsCompleted = x.meta.goalsCompleted
      /\ y.meta.upgrades = x.meta.upgrades /\ y.meta.repeatable = x.meta.repeatable
      /\ y.meta.stats = x.meta.stats /\ y.meta.contracts = x.meta.contracts /\ y.meta.streak = x.meta.streak
  BY <1>7 DEF MetaFields
<1>9. \A s \in Counters : x.meta.stats[s] <= x.meta.stats[s]
  BY <1>6 DEF SaveOK, MetaOK
<1>10. Step(x, y, b, Parts \ {"track"})
  BY <1>5, <1>6, <1>7, <1>8, <1>9 DEF Step, Keeps, Work, Cores, Tapes, Wafers, Xp
<1>11. Track(y) = Track(x) \/ Track(y) = <<b, Track(x)[2], Track(x)[3]>>
  BY <1>5, <1>7 DEF Track
<1>. QED
  BY <1>1, <1>7, <1>10, <1>11

\* Bounds of a quotient.
LEMMA DivBounds ==
    ASSUME NEW d \in Nat, NEW r \in Nat, NEW l \in Nat, d < r
    PROVE  l > 0 => (d * l) \div r \in 0 .. l - 1
<1>. SUFFICES ASSUME l > 0 PROVE (d * l) \div r \in 0 .. l - 1
  OBVIOUS
<1>. DEFINE a == d * l
            q == a \div r
<1>1. a \in Nat /\ a <= (r - 1) * l
  <2>1. d <= r - 1 /\ r - 1 \in Nat
    OBVIOUS
  <2>2. \A x, y, z \in Nat : x <= y => x * z <= y * z
    OBVIOUS
  <2>. QED
    BY <2>1, <2>2
<1>. HIDE DEF a
<1>2. q \in Nat /\ q * r <= a
  BY <1>1
<1>3. (r - 1) * l = r * l - l
  OBVIOUS
<1>4. ~(q >= l)
  <2>. SUFFICES ASSUME q >= l PROVE FALSE
    OBVIOUS
  <2>. HIDE DEF q
  <2>1. q * r >= l * r
    <3>1. \A x, y, z \in Nat : x <= y => x * z <= y * z
      OBVIOUS
    <3>. QED
      BY <1>2, <3>1
  <2>2. l * r = r * l /\ q * r \in Int /\ l * r \in Int
    BY <1>2
  <2>. QED
    BY <1>1, <1>2, <1>3, <2>1, <2>2
<1>. QED
  BY <1>2, <1>4 DEF a

\* A draw from a set is one of its members.
LEMMA PickIn ==
    ASSUME NEW S, NEW list \in Seq(S), list # <<>>, NEW t \in 0 .. MaxClock, NEW salt \in 0 .. 2
    PROVE  Pick(list, t, salt) \in S
<1>. DEFINE d == Draw[<<t, salt>>]
            l == Len(list)
<1>1. d \in 0 .. DrawRange - 1 /\ DrawRange \in Nat
  BY DrawAssumption DEF Positive
<1>2. l \in Nat /\ l > 0
  OBVIOUS
<1>3. (d * l) \div DrawRange \in 0 .. l - 1
  <2>1. d \in Nat /\ d < DrawRange
    BY <1>1
  <2>. HIDE DEF d, l
  <2>. QED BY <1>1, <1>2, <2>1, DivBounds
<1>4. 1 + (d * l) \div DrawRange \in 1 .. Len(list)
  <2>. DEFINE q == (d * l) \div DrawRange
  <2>1. q \in 0 .. l - 1
    BY <1>3
  <2>. HIDE DEF q
  <2>2. 1 + q \in 1 .. l
    BY <1>2, <2>1
  <2>. QED
    BY <2>2 DEF q
<1>. DEFINE i == 1 + (d * l) \div DrawRange
<1>5. list[i] \in S
  <2>. HIDE DEF i
  <2>. QED BY <1>4 DEF i
<1>. QED
  BY <1>5 DEF Pick

\* What may be rolled for.
LEMMA HazardOK ==
    ASSUME PlayerOK, NEW t \in 0 .. MaxClock, NEW s, NEW now, t <= now
    PROVE  LET h == HazardFrom(t, s)
           IN  h # None => OutageOK(h, now) /\ h.kind \in Hazards
<1>. DEFINE Enabled(k) == IF config.risk.kinds[k].enabled THEN <<k>> ELSE <<>>
            kinds == Enabled(HazardKinds[1]) \o Enabled(HazardKinds[2]) \o Enabled(HazardKinds[3])
            kind == Pick(kinds, t, 0)
            Hazard(scope) == [id |-> <<"hazard", t>>, kind |-> kind, scope |-> scope,
                          factor |-> config.risk.kinds[kind].factor,
                          startAt |-> t, endAt |-> t + config.risk.kinds[kind].duration,
                          source |-> "hazard"]
<1>1. kinds \in Seq(Hazards)
  <2>1. HazardKinds[1] \in Hazards /\ HazardKinds[2] \in Hazards /\ HazardKinds[3] \in Hazards
    BY DEF HazardKinds, Hazards
  <2>2. \A k \in Hazards : Enabled(k) \in Seq(Hazards)
    OBVIOUS
  <2>3. \A u, v \in Seq(Hazards) : u \o v \in Seq(Hazards)
    OBVIOUS
  <2>. HIDE DEF Enabled
  <2>. QED
    BY <2>1, <2>2, <2>3
<1>2. kinds # <<>> => kind \in Hazards
  <2>1. 0 \in 0 .. 2
    OBVIOUS
  <2>. HIDE DEF kinds
  <2>. QED BY <1>1, <2>1, PickIn
<1>3. \A k \in Hazards : config.risk.kinds[k].factor \in Nat /\ config.risk.kinds[k].duration \in Nat
  BY ConfigOK DEF ValidConfigs, Positive, Hazards
<1>4. HazardFrom(t, s) # None => kinds # <<>> /\ \E scope : HazardFrom(t, s) = Hazard(scope)
  BY DEF HazardFrom
<1>5. t \in Nat
  OBVIOUS
<1>. HIDE DEF kinds, kind
<1>6. \A scope : kind \in Hazards => OutageOK(Hazard(scope), now) /\ Hazard(scope).kind \in Hazards
  BY <1>3, <1>5 DEF OutageOK
<1>. HIDE DEF Hazard
<1>. QED
  BY <1>2, <1>4, <1>6

\* scheduleNextHazard.
LEMMA ScheduledHazardsStep ==
    ASSUME PlayerOK, NEW s, NEW now, SaveOK(s, now), NEW t \in Nat, NEW x \in ScheduledHazards(s, t)
    PROVE  Step(s, x, now, Parts) /\ x.server.nextHazardAt \in Nat
<1>1. PICK d \in config.risk.hazardDelays : x = [s EXCEPT !.server.nextHazardAt = t + d]
  BY DEF ScheduledHazards
<1>. DEFINE n == t + d
            v == [s.server EXCEPT !.nextHazardAt = n]
<1>2. n \in Nat
  BY ConfigOK DEF ValidConfigs, Positive
<1>. HIDE DEF n
<1>3. x = [s EXCEPT !.server = v]
  BY <1>1 DEF SaveOK, n
<1>4. ServerOK(v, now) /\ v.nextHazardAt = n
  BY <1>2 DEF SaveOK, ServerOK, ServerFields
<1>. HIDE DEF v
<1>. QED
  BY <1>2, <1>3, <1>4, NewServer DEF SaveOK

\* A supply absorbs a hazard.
LEMMA AbsorbStep ==
    ASSUME NEW s, NEW now, SaveOK(s, now), NEW h, OutageOK(h, now), h.kind \in Hazards
    PROVE  Step(s, AbsorbOrGoDown(s, h), now, Parts)
<1>. DEFINE supply == SupplyForKind[h.kind]
            absorbed == s.meta.supplies[supply] >= 1
            notices == s.server.outageNotices \cup {[kind |-> h.kind, absorbed |-> absorbed, at |-> h.startAt]}
            v == [s.server EXCEPT !.outageNotices = notices]
            told == [s EXCEPT !.server = v]
            ups == [s.meta.supplies EXCEPT ![supply] = @ - 1]
            m == [s.meta EXCEPT !.supplies = ups]
            down == s.server.outages \cup {h}
            w == [v EXCEPT !.outages = down]
<1>1. supply \in Supplies
  BY DEF SupplyForKind, Hazards, Supplies
<1>. HIDE DEF supply
<1>2. [s EXCEPT !.server.outageNotices = notices] = told
  BY DEF SaveOK
<1>3. AbsorbOrGoDown(s, h) = IF absorbed THEN [told EXCEPT !.meta.supplies[supply] = @ - 1]
                             ELSE [told EXCEPT !.server.outages = @ \cup {h}]
  BY <1>2 DEF AbsorbOrGoDown, supply
<1>. HIDE DEF notices
<1>4. ServerOK(v, now) /\ DOMAIN v = ServerFields /\ v.outages = s.server.outages
  BY DEF SaveOK, ServerOK, ServerFields
<1>5. Step(s, told, now, Parts) /\ told.meta = s.meta /\ told.server = v /\ told.run = s.run
  BY <1>4, NewServer DEF SaveOK
<1>6. CASE absorbed
  <2>1. ups \in [Supplies -> Nat]
    BY <1>1, <1>6 DEF SaveOK, MetaOK
  <2>2. [told EXCEPT !.meta.supplies[supply] = @ - 1] = [told EXCEPT !.meta = m]
    <3>. HIDE DEF told, v
    <3>. QED BY <1>5 DEF Step, SaveOK
  <2>. HIDE DEF ups
  <2>3. /\ DOMAIN m = MetaFields /\ m.supplies = ups
        /\ \A k \in MetaFields \ {"supplies"} : m[k] = s.meta[k]
    BY DEF SaveOK, MetaOK, MetaFields
  <2>. HIDE DEF m
  <2>4. MetaOK(m)
    BY <2>1, <2>3 DEF SaveOK, MetaOK, MetaFields
  <2>. DEFINE x == [told EXCEPT !.meta = m]
  <2>5. SaveOK(x, now) /\ x.meta = m
    <3>. HIDE DEF told
    <3>. QED BY <1>5, <2>4, NewMeta DEF Step
  <2>6. \A c \in Counters : s.meta.stats[c] <= s.meta.stats[c]
    BY DEF SaveOK, MetaOK
  <2>. HIDE DEF x
  <2>7. Step(s, x, now, Parts)
    BY <2>3, <2>5, <2>6 DEF Step, Keeps, Track, Work, Cores, Tapes, Wafers, Xp, MetaFields
  <2>. QED
    BY <1>3, <1>6, <2>2, <2>7 DEF x
<1>7. CASE ~absorbed
  <2>1. IsFiniteSet(down) /\ \A o \in down : OutageOK(o, now)
    BY FS_AddElement DEF SaveOK, ServerOK
  <2>2. [told EXCEPT !.server.outages = @ \cup {h}] = [told EXCEPT !.server = w]
    <3>. HIDE DEF told, v
    <3>. QED BY <1>4, <1>5 DEF Step, SaveOK
  <2>. HIDE DEF v, down
  <2>3. ServerOK(w, now)
    BY <1>4, <2>1 DEF ServerOK, ServerFields
  <2>. HIDE DEF w, told
  <2>4. Step(told, [told EXCEPT !.server = w], now, Parts)
    BY <1>5, <2>3, NewServer DEF Step
  <2>5. Step(s, [told EXCEPT !.server = w], now, Parts)
    BY <1>5, <2>4, KeepsMore, PartsCap
  <2>. QED
    BY <1>3, <1>7, <2>2, <2>5
<1>. QED
  BY <1>6, <1>7

\* fireHazard.
LEMMA FireHazardStep ==
    ASSUME PlayerOK, NEW s, NEW now \in 0 .. MaxClock, SaveOK(s, now), Due(s, now), NEW x \in FireHazard(s)
    PROVE  Step(s, x, now, Parts)
<1>. DEFINE t == s.server.nextHazardAt
            h == HazardFrom(t, s)
            isNew == h # None /\ \A o \in s.server.outages : o.id # <<"hazard", t>>
            y == IF isNew THEN AbsorbOrGoDown(s, h) ELSE s
<1>1. t \in 0 .. MaxClock /\ t <= now /\ t \in Nat
  BY ClockAssumption DEF SaveOK, ServerOK, Due
<1>2. x \in ScheduledHazards(y, t)
  BY DEF FireHazard
<1>3. h # None => OutageOK(h, now) /\ h.kind \in Hazards
  <2>. HIDE DEF t
  <2>. QED BY <1>1, HazardOK
<1>4. Step(s, s, now, Parts)
  BY KeepsAll
<1>. HIDE DEF h, t
<1>5. Step(s, y, now, Parts)
  BY <1>3, <1>4, AbsorbStep
<1>. HIDE DEF y
<1>6. Step(y, x, now, Parts)
  BY <1>1, <1>2, <1>5, ScheduledHazardsStep DEF Step
<1>. QED
  BY <1>5, <1>6, KeepsMore, PartsCap

\* What may have fired, hazard by hazard, when FireDueHazards ends.
Firing(s, now, fired) ==
    /\ fired[0] = {s} /\ \A k \in 0 .. MaxHazards : k # 0 => fired[k] = FireDue(fired[k - 1], now)
    /\ FireDueHazards(s, now) = IF ~RiskOn("hazardsEnabled") THEN {s}
                                ELSE IF s.server.nextHazardAt = 0 THEN ScheduledHazards(s, now)
                                ELSE Reschedule(fired[MaxHazards], now)

\* There is one such function.
LEMMA FiringExists ==
    ASSUME NEW s, NEW now
    PROVE  \E fired : Firing(s, now, fired)
<1>. DEFINE D == 0 .. MaxHazards
            Solves(f) == f = [k \in D |-> IF k = 0 THEN {s} ELSE FireDue(f[k - 1], now)]
            fired == CHOOSE f : Solves(f)
<1>0. MaxHazards \in Nat
  BY DrawAssumption DEF Positive
<1>1. \E f : Solves(f)
  <2>. DEFINE Up(f, k) == IF k = 0 THEN {s} ELSE FireDue(f[k - 1], now)
              Good(n) == \E f : DOMAIN f = D /\ f = [k \in D |-> f[k]] /\ \A k \in D : k <= n => f[k] = Up(f, k)
              Ns == {n \in Nat : Good(n)}
  <2>1. 0 \in Ns
    <3>. DEFINE f == [k \in D |-> {s}]
    <3>1. DOMAIN f = D /\ f = [k \in D |-> f[k]] /\ \A k \in D : k <= 0 => f[k] = Up(f, k)
      OBVIOUS
    <3>. QED
      BY <3>1
  <2>2. ASSUME NEW n \in Ns PROVE n + 1 \in Ns
    <3>1. PICK f : DOMAIN f = D /\ f = [k \in D |-> f[k]] /\ \A k \in D : k <= n => f[k] = Up(f, k)
      BY <2>2
    <3>. DEFINE g == [k \in D |-> IF k = n + 1 THEN FireDue(f[n], now) ELSE f[k]]
    <3>2. ASSUME NEW k \in D, k <= n + 1 PROVE g[k] = Up(g, k)
      <4>1. n \in Nat /\ k \in Nat
        BY <1>0
      <4>2. CASE k = n + 1
        <5>0. k <= MaxHazards /\ 0 <= n /\ n <= MaxHazards
          BY <1>0, <4>1, <4>2
        <5>1. k # 0 /\ k - 1 = n /\ n \in D /\ n # n + 1
          BY <1>0, <4>1, <4>2, <5>0
        <5>2. g[k] = FireDue(f[n], now) /\ g[n] = f[n]
          BY <4>2, <5>1
        <5>. QED
          BY <4>2, <5>1, <5>2
      <4>3. CASE k # n + 1
        <5>1. k <= n /\ g[k] = f[k]
          BY <3>2, <4>1, <4>3
        <5>2. CASE k = 0
          BY <3>1, <5>1, <5>2
        <5>3. CASE k # 0
          <6>1. k - 1 \in D /\ k - 1 # n + 1
            BY <1>0, <4>1, <5>1, <5>3
          <6>2. g[k - 1] = f[k - 1]
            BY <6>1
          <6>3. f[k] = FireDue(f[k - 1], now)
            BY <3>1, <5>1, <5>3
          <6>. QED
            BY <5>1, <5>3, <6>2, <6>3
        <5>. QED
          BY <5>2, <5>3
      <4>. QED
        BY <4>2, <4>3
    <3>3. DOMAIN g = D /\ g = [k \in D |-> g[k]]
      OBVIOUS
    <3>. HIDE DEF g
    <3>4. Good(n + 1)
      BY <3>2, <3>3
    <3>. HIDE DEF Good
    <3>. QED
      BY <2>2, <3>4
  <2>3. Ns = Nat
    <3>. HIDE DEF Good
    <3>. QED BY <2>1, <2>2, AllNumbers
  <2>4. Good(MaxHazards)
    <3>. HIDE DEF Good
    <3>. QED BY <1>0, <2>3
  <2>5. PICK f : f = [k \in D |-> f[k]] /\ \A k \in D : k <= MaxHazards => f[k] = Up(f, k)
    BY <2>4
  <2>6. \A k \in D : f[k] = Up(f, k)
    BY <2>5
  <2>. QED
    BY <2>5, <2>6
<1>2. Solves(fired)
  <2>. HIDE DEF Solves
  <2>. QED BY <1>1
<1>3. fired[0] = {s} /\ \A k \in D : k # 0 => fired[k] = FireDue(fired[k - 1], now)
  <2>. HIDE DEF fired
  <2>1. fired = [k \in D |-> IF k = 0 THEN {s} ELSE FireDue(fired[k - 1], now)]
    BY <1>2
  <2>2. 0 \in D
    BY <1>0
  <2>3. \A k \in D : fired[k] = IF k = 0 THEN {s} ELSE FireDue(fired[k - 1], now)
    BY <2>1
  <2>. QED BY <2>2, <2>3
<1>4. FireDueHazards(s, now) = IF ~RiskOn("hazardsEnabled") THEN {s}
                               ELSE IF s.server.nextHazardAt = 0 THEN ScheduledHazards(s, now)
                               ELSE Reschedule(fired[MaxHazards], now)
  BY DEF FireDueHazards
<1>. HIDE DEF fired
<1>. QED
  BY <1>3, <1>4 DEF Firing

\* Every state that may be left when no more than k hazards have fired.
LEMMA FiredStep ==
    ASSUME PlayerOK, NEW s, NEW now \in 0 .. MaxClock, SaveOK(s, now), NEW x \in FireDueHazards(s, now)
    PROVE  Step(s, x, now, Parts)
<1>. DEFINE D == 0 .. MaxHazards
            Reached(T) == \A y \in T : Step(s, y, now, Parts)
<1>0. now \in Nat /\ MaxHazards \in Nat
  BY DrawAssumption DEF Positive
<1>1. PICK fired : Firing(s, now, fired)
  BY FiringExists
<1>3. fired[0] = {s} /\ \A k \in D : k # 0 => fired[k] = FireDue(fired[k - 1], now)
  BY <1>1 DEF Firing
<1>4. FireDueHazards(s, now) = IF ~RiskOn("hazardsEnabled") THEN {s}
                               ELSE IF s.server.nextHazardAt = 0 THEN ScheduledHazards(s, now)
                               ELSE Reschedule(fired[MaxHazards], now)
  BY <1>1 DEF Firing
<1>5. Reached({s})
  BY KeepsAll
<1>6. ASSUME NEW T, Reached(T) PROVE Reached(FireDue(T, now))
  <2>1. ASSUME NEW y \in FireDue(T, now) PROVE Step(s, y, now, Parts)
    <3>1. PICK z \in T : y \in IF Due(z, now) THEN FireHazard(z) ELSE {z}
      BY <2>1 DEF FireDue
    <3>2. Step(s, z, now, Parts)
      BY <1>6, <3>1
    <3>3. Step(z, y, now, Parts)
      <4>1. CASE Due(z, now)
        BY <3>1, <3>2, <4>1, FireHazardStep DEF Step
      <4>2. CASE ~Due(z, now)
        BY <3>1, <3>2, <4>2, KeepsAll DEF Step
      <4>. QED
        BY <4>1, <4>2
    <3>. QED
      BY <3>2, <3>3, KeepsMore, PartsCap
  <2>. QED
    BY <2>1
<1>7. Reached(fired[MaxHazards])
  <2>. DEFINE Ns == {n \in Nat : n <= MaxHazards => Reached(fired[n])}
  <2>1. 0 \in Ns
    BY <1>3, <1>5
  <2>2. ASSUME NEW n \in Ns PROVE n + 1 \in Ns
    <3>1. n + 1 <= MaxHazards => fired[n + 1] = FireDue(fired[n], now)
      <4>1. n \in Nat /\ n + 1 # 0 /\ (n + 1) - 1 = n
        OBVIOUS
      <4>2. n + 1 <= MaxHazards => n + 1 \in D
        BY <1>0, <4>1
      <4>. QED
        BY <1>3, <4>1, <4>2
    <3>. HIDE DEF Reached
    <3>. QED
      BY <1>0, <1>6, <2>2, <3>1
  <2>3. Ns = Nat
    <3>. HIDE DEF Reached
    <3>. QED BY <2>1, <2>2, AllNumbers
  <2>. HIDE DEF Reached
  <2>. QED
    BY <1>0, <2>3
<1>8. CASE ~RiskOn("hazardsEnabled")
  BY <1>4, <1>5, <1>8
<1>9. CASE RiskOn("hazardsEnabled") /\ s.server.nextHazardAt = 0
  BY <1>0, <1>4, <1>9, ScheduledHazardsStep
<1>10. CASE RiskOn("hazardsEnabled") /\ s.server.nextHazardAt # 0
  <2>1. PICK z \in fired[MaxHazards] : x \in IF Due(z, now) THEN ScheduledHazards(z, now) ELSE {z}
    BY <1>4, <1>10 DEF Reschedule
  <2>2. Step(s, z, now, Parts)
    BY <1>7, <2>1
  <2>3. Step(z, x, now, Parts)
    <3>1. CASE Due(z, now)
      BY <1>0, <2>1, <2>2, <3>1, ScheduledHazardsStep DEF Step
    <3>2. CASE ~Due(z, now)
      BY <2>1, <2>2, <3>2, KeepsAll DEF Step
    <3>. QED
      BY <3>1, <3>2
  <2>. QED
    BY <2>2, <2>3, KeepsMore, PartsCap
<1>. QED
  BY <1>8, <1>9, <1>10

\* Due maintenance becomes an outage.
LEMMA ActivateMaintenanceStep ==
    ASSUME NEW s, NEW now \in Nat, SaveOK(s, now)
    PROVE  Step(s, ActivateDueMaintenance(s, now), now, Parts)
<1>. DEFINE gm == s.server.gridMaintenance
            outage == [id |-> <<"maintenance", gm.startAt>>, kind |-> "maintenance",
                   scope |-> [lane |-> "grid", index |-> gm.index], factor |-> 0,
                   startAt |-> gm.startAt, endAt |-> gm.endAt, source |-> "scheduled"]
            outs == s.server.outages \cup {outage}
            v == [[s.server EXCEPT !.gridMaintenance = None] EXCEPT !.outages = outs]
            x == [s EXCEPT !.server = v]
<1>1. CASE ~RiskOn("maintenanceEnabled") \/ gm = None \/ gm.startAt > now
  <2>1. ActivateDueMaintenance(s, now) = s
    BY <1>1 DEF ActivateDueMaintenance
  <2>. QED
    BY <2>1, KeepsAll
<1>2. CASE RiskOn("maintenanceEnabled") /\ gm # None /\ ~(gm.startAt > now)
  <2>1. ActivateDueMaintenance(s, now) = x
    BY <1>2 DEF ActivateDueMaintenance, SaveOK, ServerOK, ServerFields
  <2>2. gm.startAt \in Nat /\ gm.endAt \in Nat /\ gm.startAt <= now
    BY <1>2 DEF SaveOK, ServerOK
  <2>3. OutageOK(outage, now)
    BY <2>2 DEF OutageOK
  <2>. HIDE DEF outage, gm
  <2>4. IsFiniteSet(outs) /\ \A o \in outs : OutageOK(o, now)
    BY <2>3, FS_AddElement DEF SaveOK, ServerOK
  <2>. HIDE DEF outs
  <2>5. DOMAIN v = ServerFields /\ v.outages = outs /\ v.gridMaintenance = None
        /\ v.boost = s.server.boost /\ v.nextHazardAt = s.server.nextHazardAt
    BY DEF SaveOK, ServerOK, ServerFields
  <2>. HIDE DEF v
  <2>6. ServerOK(v, now)
    BY <2>4, <2>5 DEF SaveOK, ServerOK
  <2>. QED
    BY <2>1, <2>6, NewServer
<1>. QED
  BY <1>1, <1>2

\* scheduleMaintenance.
LEMMA ScheduledMaintenanceStep ==
    ASSUME PlayerOK, NEW s, NEW now \in Nat, SaveOK(s, now), NEW x \in ScheduledMaintenance(s, now)
    PROVE  Step(s, x, now, Parts)
<1>1. PICK i \in Grid, d \in config.risk.maintenanceDelays :
         x = [s EXCEPT !.server.gridMaintenance =
                 [index |-> i, startAt |-> now + d, endAt |-> now + d + config.risk.maintenanceDuration]]
  BY DEF ScheduledMaintenance
<1>. DEFINE w == [index |-> i, startAt |-> now + d, endAt |-> now + d + config.risk.maintenanceDuration]
            v == [s.server EXCEPT !.gridMaintenance = w]
<1>2. w.startAt \in Nat /\ w.endAt \in Nat
  <2>1. d \in Nat /\ config.risk.maintenanceDuration \in Nat
    BY ConfigOK DEF ValidConfigs, Positive
  <2>. QED
    BY <2>1
<1>3. x = [s EXCEPT !.server = v]
  BY <1>1 DEF SaveOK
<1>. HIDE DEF w
<1>4. ServerOK(v, now)
  BY <1>2 DEF SaveOK, ServerOK, ServerFields
<1>. HIDE DEF v
<1>. QED
  BY <1>3, <1>4, NewServer

\* The load path schedules what is not scheduled.
LEMMA ScheduledStep ==
    ASSUME PlayerOK, NEW s, NEW now \in Nat, SaveOK(s, now), NEW x \in Scheduled(s, now)
    PROVE  Step(s, x, now, Parts)
<1>. DEFINE A == IF AnomalyMissed(s, now) THEN ScheduledAnomaly(s, now) ELSE {s}
            H(a) == IF a.server.nextHazardAt = 0 THEN ScheduledHazards(a, now) ELSE {a}
            M(h) == IF h.server.gridMaintenance = None THEN ScheduledMaintenance(h, now) ELSE {h}
<1>1. PICK h \in UNION {H(a) : a \in A} : x \in M(h)
  BY DEF Scheduled
<1>2. PICK a \in A : h \in H(a)
  BY <1>1
<1>3. Step(s, a, now, Parts)
  <2>1. CASE AnomalyMissed(s, now)
    BY <2>1, ScheduledAnomalyStep
  <2>2. CASE ~AnomalyMissed(s, now)
    <3>1. a = s
      BY <2>2
    <3>. QED
      BY <3>1, KeepsAll
  <2>. QED
    BY <2>1, <2>2
<1>4. SaveOK(a, now)
  BY <1>3 DEF Step
<1>. HIDE DEF A
<1>5. Step(a, h, now, Parts)
  <2>1. CASE a.server.nextHazardAt = 0
    BY <1>2, <1>4, <2>1, ScheduledHazardsStep
  <2>2. CASE a.server.nextHazardAt # 0
    <3>1. h = a
      BY <1>2, <2>2
    <3>. QED
      BY <1>4, <3>1, KeepsAll
  <2>. QED
    BY <2>1, <2>2
<1>6. Step(s, h, now, Parts) /\ SaveOK(h, now)
  BY <1>3, <1>5, KeepsMore, PartsCap DEF Step
<1>. HIDE DEF H
<1>7. Step(h, x, now, Parts)
  <2>1. CASE h.server.gridMaintenance = None
    BY <1>1, <1>6, <2>1, ScheduledMaintenanceStep
  <2>2. CASE h.server.gridMaintenance # None
    <3>1. x = h
      BY <1>1, <2>2
    <3>. QED
      BY <1>6, <3>1, KeepsAll
  <2>. QED
    BY <2>1, <2>2
<1>. QED
  BY <1>6, <1>7, KeepsMore, PartsCap

\* What the risk system does to the gap.
LEMMA StruckStep ==
    ASSUME PlayerOK, NEW s, NEW last, NEW now \in 0 .. MaxClock, SaveOK(s, now), NEW x \in Struck(s, last, now)
    PROVE  Step(s, x, now, Parts)
<1>. DEFINE v == [s.server EXCEPT !.outageNotices = {}]
            y == [s EXCEPT !.server = v]
<1>0. now \in Nat
  OBVIOUS
<1>1. [s EXCEPT !.server.outageNotices = {}] = y
  BY DEF SaveOK
<1>2. CASE now - last < 1
  BY <1>2, KeepsAll DEF Struck
<1>3. CASE ~(now - last < 1)
  <2>1. x \in Strike(y, now)
    BY <1>1, <1>3 DEF Struck
  <2>2. ServerOK(v, now)
    BY DEF SaveOK, ServerOK, ServerFields
  <2>. HIDE DEF v
  <2>3. Step(s, y, now, Parts) /\ SaveOK(y, now)
    BY <2>2, NewServer DEF Step
  <2>. HIDE DEF y
  <2>4. CASE riskEnabled
    <3>1. x \in FireDueHazards(ActivateDueMaintenance(y, now), now)
      BY <2>1, <2>4 DEF Strike
    <3>. DEFINE z == ActivateDueMaintenance(y, now)
    <3>2. Step(y, z, now, Parts) /\ SaveOK(z, now) /\ x \in FireDueHazards(z, now)
      BY <1>0, <2>3, <3>1, ActivateMaintenanceStep DEF Step
    <3>. HIDE DEF z
    <3>3. Step(z, x, now, Parts)
      BY <3>2, FiredStep
    <3>4. Step(y, x, now, Parts)
      BY <2>3, <3>2, <3>3, KeepsMore, PartsCap
    <3>. QED
      BY <2>3, <3>4, KeepsMore, PartsCap
  <2>5. CASE ~riskEnabled
    <3>. DEFINE w == [y.server EXCEPT !.outages = {}, !.gridMaintenance = None]
    <3>1. x = [y EXCEPT !.server = w]
      BY <2>1, <2>3, <2>5 DEF Strike, SaveOK
    <3>2. DOMAIN w = ServerFields /\ w.outages = {} /\ w.gridMaintenance = None
          /\ w.boost = y.server.boost /\ w.nextHazardAt = y.server.nextHazardAt
      BY <2>3 DEF SaveOK, ServerOK, ServerFields
    <3>. HIDE DEF w
    <3>3. ServerOK(w, now)
      BY <2>3, <3>2, FS_EmptySet DEF SaveOK, ServerOK
    <3>4. Step(y, x, now, Parts)
      BY <2>3, <3>1, <3>3, NewServer
    <3>. QED
      BY <2>3, <3>4, KeepsMore, PartsCap
  <2>. QED
    BY <2>4, <2>5
<1>. QED
  BY <1>2, <1>3

\* A part of a sum of counts is at most the whole.
LEMMA SumWithin ==
    ASSUME NEW f, IsFiniteSet(DOMAIN f), \A i \in DOMAIN f : f[i] \in Nat, NEW T \in SUBSET DOMAIN f
    PROVE  SumFunction([i \in T |-> f[i]]) <= SumFunction(f)
<1>. DEFINE On(e) == [i \in T |-> e[i]]
            Fits(e) == /\ IsFiniteSet(DOMAIN e) /\ (\A i \in DOMAIN e : e[i] \in Nat) /\ T \in SUBSET DOMAIN e
            Good(n) == \A e : Fits(e) /\ Cardinality(DOMAIN e) = n /\ e = [i \in DOMAIN e |-> e[i]]
                              => SumFunction(On(e)) <= SumFunction(e)
            Ns == {n \in Nat : Good(n)}
<1>1. ASSUME NEW e, Fits(e), e = [i \in DOMAIN e |-> e[i]], DOMAIN e = T
      PROVE  SumFunction(On(e)) <= SumFunction(e)
  <2>1. On(e) = e
    BY <1>1
  <2>2. SumFunction(e) \in Nat
    BY <1>1, SumNat
  <2>. HIDE DEF On
  <2>. QED
    BY <2>1, <2>2
<1>2. 0 \in Ns
  <2>1. ASSUME NEW e, Fits(e), Cardinality(DOMAIN e) = 0, e = [i \in DOMAIN e |-> e[i]]
        PROVE  SumFunction(On(e)) <= SumFunction(e)
    <3>1. DOMAIN e = {}
      BY <2>1, FS_EmptySet
    <3>2. DOMAIN e = T
      BY <2>1, <3>1
    <3>. QED
      BY <1>1, <2>1, <3>2
  <2>. QED
    BY <2>1
<1>3. ASSUME NEW n \in Ns PROVE n + 1 \in Ns
  <2>1. ASSUME NEW e, Fits(e), Cardinality(DOMAIN e) = n + 1, e = [i \in DOMAIN e |-> e[i]]
        PROVE  SumFunction(On(e)) <= SumFunction(e)
    <3>1. CASE DOMAIN e = T
      BY <1>1, <2>1, <3>1
    <3>2. CASE DOMAIN e # T
      <4>1. PICK x \in DOMAIN e : x \notin T
        BY <2>1, <3>2
      <4>. DEFINE r == Rest(e, x)
      <4>2. IntSum(e)
        BY <2>1 DEF IntSum, IntsOn
      <4>3. SumFunction(e) = e[x] + SumFunction(r)
        BY <4>2, SumSplit
      <4>4. DOMAIN r = DOMAIN e \ {x} /\ r = [i \in DOMAIN r |-> r[i]] /\ \A i \in DOMAIN r : r[i] = e[i]
        BY DEF Rest
      <4>5. Cardinality(DOMAIN r) = n
        <5>1. Cardinality(DOMAIN e \ {x}) = Cardinality(DOMAIN e) - 1
          <6>. DEFINE D == DOMAIN e
          <6>1. IsFiniteSet(D) /\ x \in D
            BY <2>1, <4>1
          <6>. HIDE DEF D
          <6>2. Cardinality(D \ {x}) = Cardinality(D) - 1
            BY <6>1, FS_RemoveElement
          <6>. QED
            BY <6>2 DEF D
        <5>. QED
          BY <2>1, <4>4, <5>1
      <4>. HIDE DEF r
      <4>6. Fits(r)
        BY <2>1, <4>1, <4>4, FS_RemoveElement
      <4>7. SumFunction(On(r)) <= SumFunction(r)
        BY <1>3, <4>4, <4>5, <4>6
      <4>8. On(r) = On(e)
        BY <2>1, <4>1, <4>4
      <4>9. SumFunction(r) \in Nat /\ e[x] \in Nat
        BY <2>1, <4>6, SumNat
      <4>10. SumFunction(On(e)) \in Nat
        <5>. DEFINE q == On(e)
        <5>1. IsFiniteSet(DOMAIN q) /\ \A i \in DOMAIN q : q[i] \in Nat
          BY <2>1, FS_Subset
        <5>. HIDE DEF q
        <5>2. SumFunction(q) \in Nat
          BY <5>1, SumNat
        <5>. QED
          BY <5>2 DEF q
      <4>. HIDE DEF On
      <4>. QED
        BY <4>3, <4>7, <4>8, <4>9, <4>10
    <3>. QED
      BY <3>1, <3>2
  <2>. HIDE DEF On, Fits
  <2>. QED
    BY <1>3, <2>1
<1>4. Ns = Nat
  <2>. HIDE DEF Good
  <2>. QED BY <1>2, <1>3, AllNumbers
<1>. DEFINE e == [i \in DOMAIN f |-> f[i]]
<1>5. Fits(e) /\ DOMAIN e = DOMAIN f /\ e = [i \in DOMAIN e |-> e[i]] /\ On(e) = On(f)
  OBVIOUS
<1>6. Cardinality(DOMAIN e) \in Nat
  BY <1>5, FS_CardinalityType
<1>7. SumFunction(On(e)) <= SumFunction(e)
  <2>. HIDE DEF e, On, Fits
  <2>. QED BY <1>4, <1>5, <1>6
<1>8. SumFunction(e) = SumFunction(f)
  <2>1. IntSum(f) /\ IntSum(e)
    BY DEF IntSum, IntsOn
  <2>2. PICK g \in [SUBSET (DOMAIN f) -> Int] : Summing(f, DOMAIN f, g) /\ SumFunction(f) = g[DOMAIN f]
    BY <2>1, SumIs
  <2>3. PICK h \in [SUBSET (DOMAIN e) -> Int] : Summing(e, DOMAIN e, h) /\ SumFunction(e) = h[DOMAIN e]
    <3>. HIDE DEF e
    <3>. QED BY <2>1, SumIs
  <2>4. \A i \in DOMAIN f : f[i] = e[i]
    OBVIOUS
  <2>5. DOMAIN e = DOMAIN f
    OBVIOUS
  <2>. HIDE DEF e
  <2>6. DOMAIN e \in SUBSET DOMAIN f /\ IsFiniteSet(DOMAIN f) /\ \A i \in DOMAIN e : f[i] = e[i]
    BY <2>4, <2>5
  <2>7. \A U \in SUBSET DOMAIN e : g[U] = h[U]
    BY <2>2, <2>3, <2>6, SumsAgree
  <2>. QED
    BY <2>2, <2>3, <2>5, <2>7
<1>. QED
  <2>. HIDE DEF e
  <2>. QED BY <1>5, <1>7, <1>8

\* What outages leave of a def's gap is a count.
LEMMA WeightedNat ==
    ASSUME NEW O, IsFiniteSet(O), NEW now, \A o \in O : OutageOK(o, now),
           NEW lane, NEW i, NEW from \in Int, NEW to \in Int, from < to
    PROVE  WeightedFactor(O, lane, i, from, to) \in Nat
<1>. DEFINE relevant == {o \in O : ScopeCovers(o.scope, lane, i) /\ o.endAt > from /\ o.startAt < to}
            inside == {t \in UNION {{o.startAt, o.endAt} : o \in relevant} : from < t /\ t < to}
            Ahead(a) == {t \in inside \cup {to} : t > a}
            Over2(a) == {o \in relevant : 2 * o.startAt <= a + Min(Ahead(a)) /\ a + Min(Ahead(a)) < 2 * o.endAt}
            f == [a \in inside \cup {from} |-> (Min(Ahead(a)) - a) * Combined(Over2(a))]
<1>1. WeightedFactor(O, lane, i, from, to) = SumFunction(f)
  BY DEF WeightedFactor
<1>2. inside \in SUBSET (from .. to)
  BY DEF OutageOK
<1>3. IsFiniteSet(inside \cup {from})
  BY <1>2, FS_Interval, FS_Subset, FS_AddElement, ZenonT(60)
<1>4. \A a : IsFiniteSet(Over2(a)) /\ \A o \in Over2(a) : o.factor \in Nat
  <2>1. \A a : Over2(a) \in SUBSET O
    OBVIOUS
  <2>2. \A a : IsFiniteSet(Over2(a))
    <3>. HIDE DEF Over2
    <3>. QED BY <2>1, FS_Subset
  <2>3. \A o \in O : o.factor \in Nat
    BY DEF OutageOK
  <2>. HIDE DEF Over2
  <2>. QED
    BY <2>1, <2>2, <2>3
<1>5. \A a : Combined(Over2(a)) \in Nat
  <2>. HIDE DEF Over2
  <2>. QED BY <1>4, CombinedNat
<1>6. ASSUME NEW a \in inside \cup {from} PROVE Min(Ahead(a)) - a \in Nat
  <2>. DEFINE S == Ahead(a)
  <2>1. a \in Int /\ a < to
    BY <1>2
  <2>2. S \in SUBSET Int /\ to \in S /\ \A t \in S : a <= t
    BY <1>2, <2>1
  <2>. HIDE DEF S
  <2>3. Min(S) \in S
    BY <2>1, <2>2, MinIn
  <2>. DEFINE m == Min(S)
  <2>5. m \in Int /\ a <= m
    BY <2>2, <2>3
  <2>. HIDE DEF m
  <2>6. m - a \in Nat
    BY <2>1, <2>5
  <2>4. Min(S) - a \in Nat
    BY <2>6 DEF m
  <2>. QED
    BY <2>4 DEF S
<1>. HIDE DEF Over2, Ahead
<1>7. DOMAIN f = inside \cup {from} /\ \A a \in DOMAIN f : f[a] \in Nat
  BY <1>5, <1>6, Counts
<1>. HIDE DEF f
<1>. QED
  BY <1>1, <1>3, <1>7, SumNat

\* A quotient of counts.
LEMMA DivNat ==
    ASSUME NEW a \in Nat, NEW b \in Nat, b # 0
    PROVE  a \div b \in Nat
  OBVIOUS

\* A product of counts.
LEMMA Products ==
    ASSUME NEW a \in Nat, NEW b \in Nat
    PROVE  a * b \in Nat /\ (a # 0 /\ b # 0 => a * b # 0)
  OBVIOUS

\* A def's production over the gap is a count.
LEMMA ProducedNat ==
    ASSUME PlayerOK, NEW s, NEW t, SaveOK(s, t), NEW last \in Int, NEW now \in Int, last < now,
           NEW lane \in {"tiers", "grid"}, NEW i \in Units[lane], NEW weighted \in Nat
    PROVE  Produced(s, lane, i, last, now, weighted) \in Nat
<1>. DEFINE rate == TierRate(s, lane, s.run[lane][i].owned)
            boost == Boost(s, last, now)
            full == rate * boost
            span == PaidTime(last, now)
            paid == full * span * weighted
            gap == now - last
            racks == RacksWith(s, last, now)
            all == LaneOutput(s, "tiers")
<1>1. rate \in Nat
  <2>1. s.run[lane][i].owned \in Nat /\ lane \in Lanes
    BY OwnedNat DEF SaveOK, Lanes
  <2>. DEFINE n == s.run[lane][i].owned
  <2>. HIDE DEF n
  <2>2. TierRate(s, lane, n) \in Nat
    BY <2>1, TierRateNat DEF SaveOK, n
  <2>. QED
    BY <2>2 DEF n
<1>2. boost \in Nat /\ racks \in Nat /\ all \in Nat
  BY TotalOutputNat, LaneOutputNat DEF Boost, RacksWith, SaveOK, Lanes
<1>3. span \in Nat
  BY ConfigOK DEF PaidTime, Smaller, ValidConfigs, Positive
<1>4. gap \in Nat /\ gap # 0 /\ Full \in Nat /\ Full # 0
  BY DrawAssumption DEF Positive
<1>5. Produced(s, lane, i, last, now, weighted)
        = IF full = 0 THEN 0
          ELSE IF lane = "grid" THEN paid \div (gap * Full)
          ELSE (paid * racks) \div (all * gap * Full)
  BY DEF Produced
<1>6. lane = "tiers" => rate <= all
  BY LaneOutputNat DEF SaveOK, Lanes
<1>. HIDE DEF rate, boost, span, gap, racks, all
<1>7. full \in Nat /\ (rate = 0 => full = 0)
  BY <1>1, <1>2, Products
<1>. HIDE DEF full
<1>8. paid \in Nat
  BY <1>3, <1>7, Products
<1>. HIDE DEF paid
<1>9. paid * racks \in Nat
  BY <1>2, <1>8, Products
<1>10. gap * Full \in Nat /\ gap * Full # 0
  BY <1>4, Products
<1>11. CASE full = 0
  BY <1>5, <1>11
<1>12. CASE full # 0 /\ lane = "grid"
  BY <1>5, <1>8, <1>10, <1>12, DivNat
<1>13. CASE full # 0 /\ lane = "tiers"
  <2>1. all # 0
    BY <1>1, <1>2, <1>6, <1>7, <1>13
  <2>2. all * gap \in Nat /\ all * gap # 0
    BY <1>2, <1>4, <2>1, Products
  <2>3. all * gap * Full \in Nat /\ all * gap * Full # 0
    <3>. DEFINE ag == all * gap
    <3>1. ag \in Nat /\ ag # 0
      BY <2>2
    <3>. HIDE DEF ag
    <3>2. ag * Full \in Nat /\ ag * Full # 0
      BY <1>4, <3>1, Products
    <3>. QED
      BY <3>2 DEF ag
  <2>. DEFINE top == paid * racks  bottom == all * gap * Full
  <2>4. Produced(s, lane, i, last, now, weighted) = top \div bottom
    BY <1>5, <1>13
  <2>5. top \in Nat /\ bottom \in Nat /\ bottom # 0
    BY <1>9, <2>3
  <2>. HIDE DEF top, bottom
  <2>. QED
    BY <2>4, <2>5, DivNat
<1>. QED
  BY <1>11, <1>12, <1>13

\* What a def produces at the weight its outages leave is a count.
LEMMA EachNat ==
    ASSUME PlayerOK, NEW s, NEW last \in Int, NEW now \in Nat, last < now, SaveOK(s, now),
           NEW O, IsFiniteSet(O), \A o \in O : OutageOK(o, now),
           NEW lane \in {"tiers", "grid"}, NEW i \in Units[lane]
    PROVE  Produced(s, lane, i, last, now, Weights(O, last, now)[lane][i]) \in Nat
<1>. DEFINE w == Weights(O, last, now)[lane][i]
<1>1. now \in Int /\ w = WeightedFactor(O, lane, i, last, now)
  BY DEF Weights
<1>. HIDE DEF w
<1>2. w \in Nat
  BY <1>1, WeightedNat
<1>3. Produced(s, lane, i, last, now, w) \in Nat
  BY <1>1, <1>2, ProducedNat
<1>. QED
  BY <1>3 DEF w

\* The gap is paid into the run and the lifetime counter.
LEMMA ProduceStep ==
    ASSUME PlayerOK, NEW s, NEW last \in Int, NEW now \in Nat, last < now, SaveOK(s, now)
    PROVE  Step(s, Produce(s, last, now), now, Parts)
<1>. DEFINE weight == Weights(s.server.outages, last, now)
            total == TotalProduced(s, last, now, weight)
            idle == {i \in Tiers : ~s.run.tiers[i].manager}
            kept == LaneProduced(s, "tiers", idle, last, now, weight)
            tiers == [i \in Tiers |->
                        IF s.run.tiers[i].manager THEN s.run.tiers[i]
                        ELSE [s.run.tiers[i] EXCEPT !.ready = @ + Produced(s, "tiers", i, last, now, weight.tiers[i])]]
            r == [[[s.run EXCEPT !.credits = @ + total - kept] EXCEPT !.lifetimeRun = @ + total] EXCEPT !.tiers = tiers]
            st == [s.meta.stats EXCEPT !["lifetimeFlopsAllTime"] = @ + total]
            m == [s.meta EXCEPT !.stats = st]
            x == [[s EXCEPT !.run = r] EXCEPT !.meta = m]
<1>0. now \in Int
  OBVIOUS
<1>1. ASSUME NEW lane \in {"tiers", "grid"}, NEW i \in Units[lane]
      PROVE  Produced(s, lane, i, last, now, weight[lane][i]) \in Nat
  <2>. DEFINE O == s.server.outages
  <2>1. IsFiniteSet(O) /\ \A o \in O : OutageOK(o, now)
    BY DEF SaveOK, ServerOK
  <2>. HIDE DEF O
  <2>2. Produced(s, lane, i, last, now, Weights(O, last, now)[lane][i]) \in Nat
    BY <2>1, EachNat
  <2>. QED
    BY <2>2 DEF O
<1>2. /\ weight.tiers = weight["tiers"] /\ Units["tiers"] = Tiers /\ Units["grid"] = Grid
      /\ IsFiniteSet(Tiers) /\ IsFiniteSet(Grid)
  BY IndexAssumption DEF Units
<1>. HIDE DEF weight
<1>. DEFINE ft == [i \in Tiers |-> Produced(s, "tiers", i, last, now, weight["tiers"][i])]
            fg == [i \in Grid |-> Produced(s, "grid", i, last, now, weight["grid"][i])]
            fk == [i \in idle |-> ft[i]]
<1>3. \A i \in Tiers : Produced(s, "tiers", i, last, now, weight["tiers"][i]) \in Nat
  BY <1>1, <1>2
<1>4. \A i \in Grid : Produced(s, "grid", i, last, now, weight["grid"][i]) \in Nat
  BY <1>1, <1>2
<1>5. DOMAIN ft = Tiers /\ DOMAIN fg = Grid /\ (\A i \in Tiers : ft[i] \in Nat) /\ \A i \in Grid : fg[i] \in Nat
  BY <1>3, <1>4
<1>6. total = SumFunction(ft) + SumFunction(fg) /\ kept = SumFunction(fk)
  BY DEF TotalProduced, LaneProduced
<1>. HIDE DEF ft, fg
<1>7. SumFunction(ft) \in Nat /\ SumFunction(fg) \in Nat
  BY <1>2, <1>5, SumNat
<1>8. SumFunction(fk) \in Nat /\ SumFunction(fk) <= SumFunction(ft)
  <2>1. idle \in SUBSET DOMAIN ft
    BY <1>5
  <2>2. SumFunction(fk) <= SumFunction(ft)
    <3>. HIDE DEF idle
    <3>. QED BY <1>2, <1>5, <2>1, SumWithin
  <2>3. IsFiniteSet(DOMAIN fk) /\ \A i \in DOMAIN fk : fk[i] \in Nat
    BY <1>2, <1>5, FS_Subset
  <2>. HIDE DEF fk
  <2>. QED
    BY <2>2, <2>3, SumNat
<1>. HIDE DEF fk
<1>9. total \in Nat /\ kept \in Nat /\ total - kept \in Nat
  BY <1>6, <1>7, <1>8
<1>10. tiers \in [Tiers -> RackSet]
  BY <1>2, <1>3 DEF SaveOK, RunOK, RackSet
<1>11. Produce(s, last, now) = x
  BY DEF Produce, SaveOK, RunOK, MetaOK, MetaFields, weight
<1>. HIDE DEF total, kept, tiers
<1>12. RunOK(r)
  BY <1>9, <1>10 DEF SaveOK, RunOK
<1>13. /\ st \in [Counters -> Nat] /\ \A d \in Counters : s.meta.stats[d] <= st[d]
       /\ \A d \in Counters \ {"lifetimeFlopsAllTime"} : st[d] = s.meta.stats[d]
  <2>1. s.meta.stats \in [Counters -> Nat] /\ "lifetimeFlopsAllTime" \in Counters
    BY DEF SaveOK, MetaOK, Counters
  <2>. QED
    BY <1>9, <2>1, Counted
<1>. HIDE DEF st
<1>14. /\ DOMAIN m = MetaFields /\ m.stats = st
       /\ \A k \in MetaFields \ {"stats"} : m[k] = s.meta[k]
  BY DEF SaveOK, MetaOK, MetaFields
<1>. HIDE DEF m
<1>15. MetaOK(m)
  BY <1>13, <1>14 DEF SaveOK, MetaOK, MetaFields
<1>. DEFINE y == [s EXCEPT !.run = r]
<1>16. SaveOK(y, now) /\ y.meta = s.meta
  <2>. HIDE DEF r
  <2>. QED BY <1>12, NewRun DEF SaveOK
<1>. HIDE DEF r
<1>17. SaveOK(x, now) /\ x.meta = m
  <2>. HIDE DEF y
  <2>1. SaveOK([y EXCEPT !.meta = m], now) /\ [y EXCEPT !.meta = m].meta = m
    BY <1>15, <1>16, NewMeta
  <2>. QED
    BY <2>1 DEF y
<1>. HIDE DEF x
<1>. QED
  BY <1>11, <1>13, <1>14, <1>17 DEF Step, Keeps, Track, Work, Cores, Tapes, Wafers, Xp, MetaFields, Counters

\* The same jobs are done, and the one in progress has up to n more seconds.
Worked(s, x, n) ==
    LET was == s.meta.coldStorage.job
        is == x.meta.coldStorage.job
    IN  /\ x.meta.stats["jobsCompletedLifetime"] = s.meta.stats["jobsCompletedLifetime"]
        /\ x.meta.stats["deepJobsCompletedLifetime"] = s.meta.stats["deepJobsCompletedLifetime"]
        /\ is # None => /\ was # None /\ is.type = was.type
                        /\ is.accruedOfflineSec <= was.accruedOfflineSec + n

\* Nothing done to the job.
LEMMA KeepsWorking ==
    ASSUME NEW s, NEW x, NEW now, SaveOK(s, now), SaveOK(x, now), Work(x) = Work(s), NEW n \in Nat
    PROVE  Worked(s, x, n)
<1>1. /\ x.meta.coldStorage.job = s.meta.coldStorage.job
      /\ x.meta.stats["jobsCompletedLifetime"] = s.meta.stats["jobsCompletedLifetime"]
      /\ x.meta.stats["deepJobsCompletedLifetime"] = s.meta.stats["deepJobsCompletedLifetime"]
  BY DEF Work
<1>2. s.meta.coldStorage.job # None => s.meta.coldStorage.job.accruedOfflineSec \in Nat
  BY DEF SaveOK, MetaOK, ColdOK, JobOK
<1>. QED
  BY <1>1, <1>2 DEF Worked

\* accrueJob: at most the time away, at the job rate.
LEMMA AccrueStep ==
    ASSUME PlayerOK, NEW s, NEW now, SaveOK(s, now), NEW elapsed \in Nat
    PROVE  /\ Step(s, AccrueJob(s, elapsed), now, Parts \ {"work"})
           /\ Worked(s, AccrueJob(s, elapsed), elapsed * OfflineJobRate(s))
           /\ OfflineJobRate(s) \in Nat
<1>. DEFINE old == s.meta.coldStorage.job
            gain == elapsed * OfflineJobRate(s)
            most == config.batchQueue.jobs[old.type].duration
            got == Smaller(most, old.accruedOfflineSec + gain)
            job == [old EXCEPT !.accruedOfflineSec = got]
            x == AccrueJob(s, elapsed)
<1>0. OfflineJobRate(s) \in Nat
  BY DefsAssumption DEF SaveOK, MetaOK, ColdOK, OfflineJobRate, ColdLevel
<1>1. gain \in Nat
  BY <1>0, Products
<1>. HIDE DEF gain
<1>2. CASE old = None
  <2>1. x = s
    BY <1>2 DEF AccrueJob
  <2>2. Step(s, x, now, Parts)
    BY <2>1, KeepsAll
  <2>3. Work(x) = Work(s) /\ SaveOK(x, now)
    BY <2>1
  <2>. HIDE DEF x
  <2>4. Worked(s, x, gain)
    BY <1>1, <2>3, KeepsWorking
  <2>. QED
    BY <1>0, <2>2, <2>4 DEF Step, Keeps, x, gain
<1>3. CASE old # None
  <2>1. /\ old.type \in JobTypes /\ old.accruedOfflineSec \in Nat
        /\ DOMAIN old = {"type", "accruedOfflineSec", "startedAt"}
    BY <1>3, JobTypesAre DEF SaveOK, MetaOK, ColdOK, JobOK
  <2>2. most \in Nat
    BY <2>1, JobTypesAre
  <2>3. got \in Nat /\ got <= old.accruedOfflineSec + gain
    BY <1>1, <2>1, <2>2 DEF Smaller
  <2>. DEFINE y == [s EXCEPT !.meta.coldStorage.job = job]
  <2>4. x = y
    <3>1. x = [s EXCEPT !.meta.coldStorage.job.accruedOfflineSec = got]
      BY <1>3 DEF AccrueJob, gain
    <3>. HIDE DEF got, x
    <3>2. [s EXCEPT !.meta.coldStorage.job.accruedOfflineSec = got] = y
      BY DEF SaveOK, MetaOK, MetaFields, ColdOK
    <3>. QED
      BY <3>1, <3>2
  <2>. HIDE DEF got, most
  <2>5. /\ DOMAIN job = {"type", "accruedOfflineSec", "startedAt"} /\ job.type = old.type /\ job.accruedOfflineSec = got
    BY <2>1
  <2>6. JobOK(job)
    BY <2>1, <2>3, <2>5, JobTypesAre DEF JobOK
  <2>. HIDE DEF job
  <2>7. /\ Step(s, y, now, Parts \ {"work"})
        /\ Work(y) = <<job, s.meta.stats["jobsCompletedLifetime"], s.meta.stats["deepJobsCompletedLifetime"]>>
    BY <2>6, NewJob
  <2>. HIDE DEF x, y
  <2>8. Worked(s, x, gain)
    BY <1>3, <2>3, <2>4, <2>5, <2>7 DEF Worked, Work
  <2>. QED
    BY <1>0, <2>4, <2>7, <2>8 DEF x, gain
<1>. QED
  BY <1>2, <1>3

\* A meltdown, or heat that did not reach one.
LEMMA OverheatStep ==
    ASSUME PlayerOK, NEW s, NEW now \in Nat, SaveOK(s, now)
    PROVE  Step(s, Overheat(s, now), now, Parts)
<1>. DEFINE outage == [id |-> <<"overheat", now>>, kind |-> "overheat",
                   scope |-> [lane |-> "tiers", index |-> Pick(OwnedTiers(s), now, 2)], factor |-> 0,
                   startAt |-> now, endAt |-> now + config.risk.overheatOutage, source |-> "overheat"]
            r == [s.run EXCEPT !.heat = 0]
            y == [s EXCEPT !.run = r]
            q == [y.run EXCEPT !.heatCooldownUntil = now + config.heat.overheatCooldown]
            outs == s.server.outages \cup {outage}
            v == [y.server EXCEPT !.outages = outs]
<1>1. RunOK(r)
  BY DEF SaveOK, RunOK
<1>2. [s EXCEPT !.run.heat = 0] = y
  BY DEF SaveOK
<1>3. OutageOK(outage, now)
  <2>1. config.risk.overheatOutage \in Nat
    BY ConfigOK DEF ValidConfigs, Positive
  <2>. QED
    BY <2>1 DEF OutageOK
<1>. HIDE DEF outage
<1>4. IsFiniteSet(outs) /\ \A o \in outs : OutageOK(o, now)
  BY <1>3, FS_AddElement DEF SaveOK, ServerOK
<1>. HIDE DEF r
<1>5. Step(s, y, now, Parts) /\ SaveOK(y, now) /\ y.server = s.server
  BY <1>1, NewRun DEF Step, SaveOK
<1>6. Overheat(s, now) = IF RiskOn("overheatShutdownEnabled") /\ OwnedTiers(s) # <<>>
                         THEN [y EXCEPT !.server.outages = @ \cup {outage}]
                         ELSE [y EXCEPT !.run.heatCooldownUntil = now + config.heat.overheatCooldown]
  BY <1>2 DEF Overheat, outage
<1>. HIDE DEF y
<1>7. [y EXCEPT !.server.outages = @ \cup {outage}] = [y EXCEPT !.server = v]
  BY <1>5 DEF SaveOK, ServerOK, ServerFields
<1>8. [y EXCEPT !.run.heatCooldownUntil = now + config.heat.overheatCooldown] = [y EXCEPT !.run = q]
  BY <1>5 DEF SaveOK
<1>. HIDE DEF outs
<1>9. ServerOK(v, now) /\ RunOK(q)
  BY <1>4, <1>5 DEF SaveOK, ServerOK, ServerFields, RunOK
<1>. HIDE DEF v, q
<1>10. Step(y, [y EXCEPT !.server = v], now, Parts) /\ Step(y, [y EXCEPT !.run = q], now, Parts)
  BY <1>5, <1>9, NewServer, NewRun
<1>11. Step(s, [y EXCEPT !.server = v], now, Parts) /\ Step(s, [y EXCEPT !.run = q], now, Parts)
  BY <1>5, <1>10, KeepsMore, PartsCap
<1>. QED
  BY <1>6, <1>7, <1>8, <1>11

\* Heat in play.
LEMMA WarmStep ==
    ASSUME PlayerOK, NEW s, NEW now \in Nat, SaveOK(s, now), NEW elapsed \in Nat
    PROVE  Step(s, Warm(s, elapsed, now), now, Parts) /\ Step(s, Thaw(s, now), now, Parts)
<1>. DEFINE owned == SumFunction([i \in Overclock |-> s.run.overclock[i].owned])
            heat == s.run.heat + owned * config.heat.perSec * elapsed
            r == [s.run EXCEPT !.heatCooldownUntil = None]
            t == [s EXCEPT !.run = r]
            q == [t.run EXCEPT !.heat = heat]
<1>1. heat \in Nat
  <2>1. owned \in Nat
    <3>. DEFINE f == [i \in Overclock |-> s.run.overclock[i].owned]
    <3>1. IsFiniteSet(DOMAIN f) /\ \A i \in DOMAIN f : f[i] \in Nat
      BY IndexAssumption DEF SaveOK, RunOK, NodeSet
    <3>. HIDE DEF f
    <3>2. SumFunction(f) \in Nat
      BY <3>1, SumNat
    <3>. QED
      BY <3>2 DEF f
  <2>2. config.heat.perSec \in Nat
    BY ConfigOK DEF ValidConfigs
  <2>. HIDE DEF owned
  <2>. DEFINE a == owned * config.heat.perSec
  <2>3. a \in Nat
    BY <2>1, <2>2, Products
  <2>. HIDE DEF a
  <2>4. a * elapsed \in Nat /\ s.run.heat \in Nat
    BY <2>3, Products DEF SaveOK, RunOK
  <2>. QED
    BY <2>4 DEF a
<1>2. RunOK(r) /\ [s EXCEPT !.run.heatCooldownUntil = None] = t
  BY DEF SaveOK, RunOK
<1>3. Warm(s, elapsed, now) = IF Frozen(s, now) THEN s
                              ELSE IF heat >= config.heat.capacity THEN Overheat(t, now)
                              ELSE [t EXCEPT !.run.heat = heat]
  BY <1>2 DEF Warm
<1>4. Thaw(s, now) = IF Frozen(s, now) THEN s ELSE t
  BY <1>2 DEF Thaw
<1>. HIDE DEF heat, r
<1>5. Step(s, t, now, Parts) /\ SaveOK(t, now)
  BY <1>2, NewRun DEF Step
<1>. HIDE DEF t
<1>6. [t EXCEPT !.run.heat = heat] = [t EXCEPT !.run = q] /\ RunOK(q)
  BY <1>1, <1>5 DEF SaveOK, RunOK
<1>. HIDE DEF q
<1>7. Step(t, [t EXCEPT !.run = q], now, Parts) /\ Step(t, Overheat(t, now), now, Parts)
  BY <1>5, <1>6, NewRun, OverheatStep
<1>8. Step(s, [t EXCEPT !.run = q], now, Parts) /\ Step(s, Overheat(t, now), now, Parts)
  BY <1>5, <1>7, KeepsMore, PartsCap
<1>. QED
  BY <1>3, <1>4, <1>5, <1>6, <1>8, KeepsAll

\* The whole of the settling.
LEMMA SettledStep ==
    ASSUME PlayerOK, NEW s, NEW last \in Int, NEW now \in Nat, last <= now, SaveOK(s, now)
    PROVE  LET x == Settled(s, last, now)
           IN  /\ Step(s, x, now, Parts \ {"work"})
               /\ Worked(s, x, IF Online(last, now) THEN 0 ELSE (now - last) * OfflineJobRate(s))
<1>. DEFINE x == Settled(s, last, now)
            away == IF Online(last, now) THEN 0 ELSE (now - last) * OfflineJobRate(s)
<1>1. CASE now - last < 1
  <2>1. x = s
    BY <1>1 DEF Settled
  <2>2. Step(s, x, now, Parts)
    BY <2>1, KeepsAll
  <2>3. away \in Nat
    <3>. DEFINE gap == now - last
    <3>1. gap \in Nat
      OBVIOUS
    <3>. HIDE DEF gap
    <3>2. OfflineJobRate(s) \in Nat
      BY <3>1, AccrueStep
    <3>3. gap * OfflineJobRate(s) \in Nat
      BY <3>1, <3>2, Products
    <3>. QED
      BY <3>3 DEF gap
  <2>. HIDE DEF away
  <2>4. Work(x) = Work(s) /\ SaveOK(x, now)
    BY <2>1
  <2>. HIDE DEF x
  <2>5. Worked(s, x, away)
    BY <2>3, <2>4, KeepsWorking
  <2>6. Step(s, x, now, Parts \ {"work"})
    BY <2>2 DEF Step, Keeps
  <2>. QED
    BY <2>5, <2>6 DEF x, away
<1>2. CASE ~(now - last < 1)
  <2>. DEFINE paid == Produce(s, last, now)
              gap == now - last
              lived == IF Online(last, now) THEN Warm(paid, gap, now) ELSE Thaw(AccrueJob(paid, gap), now)
              outs == PruneExpired(lived.server.outages, now)
              boost == IF lived.server.boost # None /\ now >= lived.server.boost.until THEN None ELSE lived.server.boost
              v == [[lived.server EXCEPT !.outages = outs] EXCEPT !.boost = boost]
  <2>0. gap \in Nat /\ last < now
    BY <1>2
  <2>1. Step(s, paid, now, Parts) /\ SaveOK(paid, now) /\ Work(paid) = Work(s)
        /\ paid.meta.coldStorage.upgrades = s.meta.coldStorage.upgrades
    <3>1. Step(s, paid, now, Parts)
      BY <2>0, ProduceStep
    <3>. HIDE DEF paid
    <3>. QED
      BY <3>1 DEF Step, Keeps, Parts, Tapes
  <2>2. x = [lived EXCEPT !.server.outages = PruneExpired(@, now),
                          !.server.boost = IF @ # None /\ now >= @.until THEN None ELSE @]
    BY <1>2 DEF Settled, Settle
  <2>. HIDE DEF paid, gap
  <2>3. Step(paid, lived, now, Parts \ {"work"}) /\ SaveOK(lived, now) /\ Worked(paid, lived, away)
    <3>1. CASE Online(last, now)
      <4>1. Step(paid, lived, now, Parts)
        BY <2>0, <2>1, <3>1, WarmStep
      <4>. HIDE DEF lived
      <4>2. Work(lived) = Work(paid) /\ SaveOK(lived, now) /\ Step(paid, lived, now, Parts \ {"work"})
        BY <4>1 DEF Step, Keeps, Parts
      <4>3. Worked(paid, lived, 0)
        BY <2>1, <4>2, KeepsWorking
      <4>. QED
        BY <3>1, <4>2, <4>3
    <3>2. CASE ~Online(last, now)
      <4>. DEFINE a == AccrueJob(paid, gap)
      <4>1. Step(paid, a, now, Parts \ {"work"}) /\ Worked(paid, a, gap * OfflineJobRate(paid)) /\ SaveOK(a, now)
        BY <2>0, <2>1, AccrueStep DEF Step
      <4>2. lived = Thaw(a, now)
        BY <3>2
      <4>. HIDE DEF a, lived
      <4>3. Step(a, lived, now, Parts)
        BY <2>0, <4>1, <4>2, WarmStep
      <4>4. Step(paid, lived, now, Parts \ {"work"}) /\ Work(lived) = Work(a) /\ SaveOK(lived, now)
        <5>1. Step(paid, lived, now, (Parts \ {"work"}) \cap Parts)
          BY <2>1, <4>1, <4>3, KeepsMore
        <5>. QED
          BY <4>3, <5>1, PartsCap DEF Step, Keeps, Parts
      <4>5. Worked(paid, lived, gap * OfflineJobRate(paid))
        BY <4>1, <4>4 DEF Worked, Work
      <4>6. OfflineJobRate(paid) = OfflineJobRate(s)
        BY <2>1 DEF OfflineJobRate, ColdLevel
      <4>. QED
        BY <3>2, <4>4, <4>5, <4>6 DEF gap
    <3>. QED
      BY <3>1, <3>2
  <2>. HIDE DEF lived, away
  <2>4. x = [lived EXCEPT !.server = v]
    BY <2>2, <2>3 DEF SaveOK, ServerOK, ServerFields
  <2>5. ServerOK(v, now)
    <3>1. outs \in SUBSET lived.server.outages
      BY DEF PruneExpired
    <3>2. IsFiniteSet(outs) /\ \A o \in outs : OutageOK(o, now)
      BY <2>3, <3>1, FS_Subset DEF SaveOK, ServerOK
    <3>3. boost # None => boost.mult \in Nat
      BY <2>3 DEF SaveOK, ServerOK
    <3>. HIDE DEF outs, boost
    <3>4. DOMAIN v = ServerFields /\ v.outages = outs /\ v.boost = boost
          /\ v.nextHazardAt = lived.server.nextHazardAt /\ v.gridMaintenance = lived.server.gridMaintenance
      BY <2>3 DEF SaveOK, ServerOK, ServerFields
    <3>. HIDE DEF v
    <3>. QED
      BY <2>3, <3>2, <3>3, <3>4 DEF SaveOK, ServerOK
  <2>. HIDE DEF v, x
  <2>6. Step(lived, x, now, Parts)
    BY <2>3, <2>4, <2>5, NewServer
  <2>7. Step(paid, x, now, Parts \ {"work"}) /\ Work(x) = Work(lived) /\ SaveOK(x, now)
    <3>1. Step(paid, x, now, (Parts \ {"work"}) \cap Parts)
      BY <2>1, <2>3, <2>6, KeepsMore
    <3>. QED
      BY <2>6, <3>1, PartsCap DEF Step, Keeps, Parts
  <2>8. Step(s, x, now, Parts \ {"work"})
    <3>1. Step(s, x, now, Parts \cap (Parts \ {"work"}))
      BY <2>1, <2>7, KeepsMore
    <3>. QED
      BY <3>1, PartsCap
  <2>9. Worked(s, x, away)
    BY <2>1, <2>3, <2>7 DEF Worked, Work
  <2>. QED
    BY <2>8, <2>9 DEF x, away
<1>. QED
  BY <1>1, <1>2

\* What a load does to the record of the most cores held.
LEMMA PeakStep ==
    ASSUME NEW s, NEW now, SaveOK(s, now)
    PROVE  LET x == RecordLegacyCorePeak(s)
           IN  /\ Step(s, x, now, Parts \ {"cores"})
               /\ Cores(x) = <<s.meta.legacyCores, Larger(s.meta.stats["bestLegacyCores"], s.meta.legacyCores)>>
<1>. DEFINE best == Larger(s.meta.stats["bestLegacyCores"], s.meta.legacyCores)
            st == [s.meta.stats EXCEPT !["bestLegacyCores"] = best]
            m == [s.meta EXCEPT !.stats = st]
            x == [s EXCEPT !.meta = m]
<1>1. RecordLegacyCorePeak(s) = x
  BY DEF RecordLegacyCorePeak, SaveOK, MetaOK, MetaFields
<1>2. best \in Nat /\ s.meta.stats["bestLegacyCores"] <= best
  BY DEF SaveOK, MetaOK, Larger, Counters
<1>. HIDE DEF best
<1>3. /\ st \in [Counters -> Nat] /\ st["bestLegacyCores"] = best /\ (\A c \in Counters : s.meta.stats[c] <= st[c])
      /\ \A c \in Counters \ {"bestLegacyCores"} : st[c] = s.meta.stats[c]
  BY <1>2 DEF SaveOK, MetaOK, Counters
<1>. HIDE DEF st
<1>4. DOMAIN m = MetaFields /\ m.stats = st /\ \A k \in MetaFields \ {"stats"} : m[k] = s.meta[k]
  BY DEF SaveOK, MetaOK, MetaFields
<1>. HIDE DEF m
<1>5. MetaOK(m)
  BY <1>3, <1>4 DEF SaveOK, MetaOK, MetaFields
<1>6. SaveOK(x, now) /\ x.meta = m
  BY <1>5, NewMeta
<1>. HIDE DEF x
<1>7. Step(s, x, now, Parts \ {"cores"})
  BY <1>3, <1>4, <1>6 DEF Step, Keeps, Track, Work, Tapes, Wafers, Xp, MetaFields, Counters
<1>8. Cores(x) = <<s.meta.legacyCores, best>>
  BY <1>3, <1>4, <1>6 DEF Cores, MetaFields
<1>. QED
  BY <1>1, <1>7, <1>8 DEF best

\* The board of a new day.
Dealt(s, now) ==
    LET types == DailyContractTypes(UtcDateKey(now), IsColdUnlocked(s))
    IN  [dateKey |-> UtcDateKey(now),
         targets |-> PadTo3([i \in 1 .. Len(types) |-> ContractTarget(s, now, types[i])]),
         baseline |-> [m \in {types[i] : i \in 1 .. Len(types)} |-> s.meta.stats[m]],
         claimed |-> {}]

\* rolloverContracts.
LEMMA RolloverStep ==
    ASSUME NEW s, NEW t, SaveOK(s, t), NEW now
    PROVE  LET x == RolloverContracts(s, now)
           IN  /\ Step(s, x, t, Parts \ {"board"}) /\ x.meta.stats = s.meta.stats /\ x.run = s.run
               /\ x.meta.contracts = IF s.meta.contracts.dateKey = UtcDateKey(now) THEN s.meta.contracts
                                     ELSE Dealt(s, now)
<1>. DEFINE d == Dealt(s, now)
            m == [s.meta EXCEPT !.contracts = d]
            y == [s EXCEPT !.meta = m]
<1>1. RolloverContracts(s, now) = IF s.meta.contracts.dateKey = UtcDateKey(now) THEN s ELSE [s EXCEPT !.meta.contracts = d]
  BY DEF RolloverContracts, Dealt
<1>2. ContractsOK(d)
  BY PaddedOnce DEF ContractsOK, Dealt
<1>. HIDE DEF d
<1>3. [s EXCEPT !.meta.contracts = d] = y
  BY DEF SaveOK, MetaOK
<1>4. DOMAIN m = MetaFields /\ m.contracts = d /\ \A k \in MetaFields \ {"contracts"} : m[k] = s.meta[k]
  BY DEF SaveOK, MetaOK, MetaFields
<1>. HIDE DEF m
<1>5. MetaOK(m)
  BY <1>2, <1>4 DEF SaveOK, MetaOK, MetaFields
<1>6. SaveOK(y, t) /\ y.meta = m /\ y.run = s.run
  BY <1>5, NewMeta
<1>7. \A c \in Counters : s.meta.stats[c] <= s.meta.stats[c]
  BY DEF SaveOK, MetaOK
<1>. HIDE DEF y
<1>8. Step(s, y, t, Parts \ {"board"}) /\ y.meta.stats = s.meta.stats /\ y.meta.contracts = d
  BY <1>4, <1>6, <1>7 DEF Step, Keeps, Track, Work, Cores, Tapes, Wafers, Xp, MetaFields
<1>9. Step(s, s, t, Parts \ {"board"})
  <2>1. Step(s, s, t, Parts)
    BY KeepsAll
  <2>. QED
    BY <2>1 DEF Step, Keeps
<1>. QED
  BY <1>1, <1>3, <1>6, <1>8, <1>9 DEF d

\* checkAchievements, as the properties see it.
LEMMA CheckedIs ==
    ASSUME NEW s, NEW now, NEW t, SaveOK(s, t)
    PROVE  LET x == CheckAchievements(s, now)
           IN  /\ SaveOK(x, t) /\ Track(x) = Track(s) /\ Work(x) = Work(s) /\ Cores(x) = Cores(s)
               /\ Tapes(x) = Tapes(s) /\ Wafers(x) = Wafers(s) /\ Xp(x) = Xp(s)
               /\ x.meta.streak = s.meta.streak /\ x.meta.contracts = s.meta.contracts
               /\ x.meta.stats = s.meta.stats /\ x.run = s.run
<1>. DEFINE x == CheckAchievements(s, now)
<1>1. Step(s, x, t, Parts)
  BY CheckStep
<1>2. x.meta.stats = s.meta.stats /\ x.run = s.run
  BY DEF CheckAchievements, SaveOK, MetaOK, MetaFields
<1>. HIDE DEF x
<1>3. /\ SaveOK(x, t) /\ Track(x) = Track(s) /\ Work(x) = Work(s) /\ Cores(x) = Cores(s)
      /\ Tapes(x) = Tapes(s) /\ Wafers(x) = Wafers(s) /\ Xp(x) = Xp(s)
      /\ x.meta.streak = s.meta.streak /\ x.meta.contracts = s.meta.contracts
  BY <1>1 DEF Step, Keeps, Parts
<1>. QED
  BY <1>2, <1>3 DEF x

\* The parts a load keeps.
LEMMA PartsLeft ==
    /\ (Parts \ {"cores"}) \cap Parts = Parts \ {"cores"}
    /\ (Parts \ {"cores"}) \cap (Parts \ {"work"}) = Parts \ {"cores", "work"}
    /\ (Parts \ {"cores", "work"}) \cap Parts = Parts \ {"cores", "work"}
    /\ (Parts \ {"cores", "work"}) \cap (Parts \ {"board"}) = Parts \ {"cores", "work", "board"}
    /\ (Parts \ {"cores", "work", "board"}) \cap Parts = Parts \ {"cores", "work", "board"}
  OBVIOUS

\* The states a load goes through: read, struck, settled and scheduled, checked.
LoadOf(K, last, struck, scheduled, loaded) ==
    /\ last \in Int /\ last <= clock /\ SaveOK(K, clock)
    /\ struck \in Struck(RecordLegacyCorePeak(K), last, clock)
    /\ scheduled \in Scheduled(Settled(struck, last, clock), clock)
    /\ loaded = CheckAchievements(RolloverContracts(scheduled, clock), clock)

\* What it leaves.
LoadGives(K, last, scheduled, loaded) ==
    /\ Step(K, loaded, clock, Parts \ {"cores", "work", "board"})
    /\ Cores(loaded) = <<K.meta.legacyCores, Larger(K.meta.stats["bestLegacyCores"], K.meta.legacyCores)>>
    /\ Worked(K, loaded, IF Online(last, clock) THEN 0 ELSE (clock - last) * OfflineJobRate(K))
    /\ loaded.meta.contracts = IF K.meta.contracts.dateKey = UtcDateKey(clock) THEN K.meta.contracts
                               ELSE Dealt(scheduled, clock)
    /\ scheduled.meta.stats = loaded.meta.stats /\ scheduled.run = loaded.run
    /\ SaveOK(scheduled, clock) /\ SaveOK(RolloverContracts(scheduled, clock), clock)

\* A load, from what was read to what is stored.
LEMMA LoadIs ==
    ASSUME PlayerOK, clock \in Start .. MaxClock,
           NEW K, NEW last, NEW struck, NEW scheduled, NEW loaded, LoadOf(K, last, struck, scheduled, loaded)
    PROVE  LoadGives(K, last, scheduled, loaded)
<1>a. /\ last \in Int /\ last <= clock /\ SaveOK(K, clock)
      /\ struck \in Struck(RecordLegacyCorePeak(K), last, clock)
      /\ scheduled \in Scheduled(Settled(struck, last, clock), clock)
      /\ loaded = CheckAchievements(RolloverContracts(scheduled, clock), clock)
  BY DEF LoadOf
<1>. DEFINE known == RecordLegacyCorePeak(K)
            settled == Settled(struck, last, clock)
            rolled == RolloverContracts(scheduled, clock)
            best == Larger(K.meta.stats["bestLegacyCores"], K.meta.legacyCores)
            Away(s) == IF Online(last, clock) THEN 0 ELSE (clock - last) * OfflineJobRate(s)
<1>0. clock \in Nat /\ clock \in 0 .. MaxClock
  BY ClockAssumption DEF Positive
<1>1. Step(K, known, clock, Parts \ {"cores"}) /\ Cores(known) = <<K.meta.legacyCores, best>>
  BY <1>a, PeakStep
<1>2. struck \in Struck(known, last, clock)
  BY <1>a
<1>. HIDE DEF known, best
<1>3. Step(known, struck, clock, Parts)
  <2>1. SaveOK(known, clock)
    BY <1>1 DEF Step
  <2>. QED
    BY <1>0, <1>2, <2>1, StruckStep
<1>4. Step(K, struck, clock, Parts \ {"cores"}) /\ SaveOK(struck, clock)
  BY <1>1, <1>3, <1>a, KeepsMore, PartsLeft DEF Step
<1>5. Step(struck, settled, clock, Parts \ {"work"}) /\ Worked(struck, settled, Away(struck))
  BY <1>0, <1>4, <1>a, SettledStep
<1>. HIDE DEF settled, Away
<1>6. Step(K, settled, clock, Parts \ {"cores", "work"}) /\ SaveOK(settled, clock)
  BY <1>4, <1>5, <1>a, KeepsMore, PartsLeft DEF Step
<1>7. Step(settled, scheduled, clock, Parts)
  BY <1>0, <1>6, <1>a, ScheduledStep DEF settled
<1>8. Step(K, scheduled, clock, Parts \ {"cores", "work"}) /\ SaveOK(scheduled, clock)
  BY <1>6, <1>7, <1>a, KeepsMore, PartsLeft DEF Step
<1>9. /\ Step(scheduled, rolled, clock, Parts \ {"board"}) /\ rolled.meta.stats = scheduled.meta.stats
      /\ rolled.run = scheduled.run
      /\ rolled.meta.contracts = IF scheduled.meta.contracts.dateKey = UtcDateKey(clock) THEN scheduled.meta.contracts
                                 ELSE Dealt(scheduled, clock)
  BY <1>8, RolloverStep
<1>. HIDE DEF rolled
<1>10. Step(K, rolled, clock, Parts \ {"cores", "work", "board"}) /\ SaveOK(rolled, clock)
  BY <1>8, <1>9, <1>a, KeepsMore, PartsLeft DEF Step
<1>11. /\ Step(rolled, loaded, clock, Parts) /\ Cores(loaded) = Cores(rolled) /\ Work(loaded) = Work(rolled)
       /\ loaded.meta.contracts = rolled.meta.contracts /\ loaded.meta.stats = rolled.meta.stats
       /\ loaded.run = rolled.run
  BY <1>10, <1>a, CheckStep, CheckedIs DEF rolled
<1>12. Step(K, loaded, clock, Parts \ {"cores", "work", "board"})
  BY <1>10, <1>11, <1>a, KeepsMore, PartsLeft
<1>13. Cores(loaded) = Cores(known)
  BY <1>3, <1>5, <1>7, <1>9, <1>11 DEF Step, Keeps, Parts
<1>14. Worked(K, loaded, Away(K))
  <2>1. Work(struck) = Work(K) /\ Work(loaded) = Work(settled) /\ struck.meta.coldStorage.upgrades = K.meta.coldStorage.upgrades
    BY <1>1, <1>3, <1>7, <1>9, <1>11 DEF Step, Keeps, Parts, Tapes
  <2>2. Away(struck) = Away(K)
    BY <2>1 DEF Away, OfflineJobRate, ColdLevel
  <2>. QED
    BY <1>5, <2>1, <2>2 DEF Worked, Work
<1>15. scheduled.meta.contracts = K.meta.contracts
  BY <1>1, <1>3, <1>5, <1>7 DEF Step, Keeps, Parts
<1>. QED
  BY <1>1, <1>8, <1>9, <1>10, <1>11, <1>12, <1>13, <1>14, <1>15 DEF LoadGives, best, Away, rolled

\* The row a player came with, as the first load reads it.
Row == IF player.row = None THEN Nothing ELSE player.row

\* No load yet: nothing happened since the save was read.
Unread == lastSave = None \/ lastSave < Start

Typed ==
    /\ PlayerOK /\ clock \in Start .. MaxClock
    /\ lastSave # None => lastSave \in Start - 1 .. clock
    /\ SaveOK(save, clock) /\ SaveOK(carried, clock)

Untouched ==
    Unread => (lastSave = None <=> player.row = None) /\ save = MigrateSave(Row, Start) /\ carried = save

\* Types do not depend on the time of day.
LEMMA LaterOK ==
    ASSUME NEW s, NEW now \in Nat, NEW then \in Nat, now <= then, SaveOK(s, now)
    PROVE  SaveOK(s, then)
<1>1. ASSUME NEW o, OutageOK(o, now) PROVE OutageOK(o, then)
  BY <1>1 DEF OutageOK
<1>2. ServerOK(s.server, then)
  BY <1>1 DEF SaveOK, ServerOK
<1>. QED
  BY <1>2 DEF SaveOK

\* Achievements are about everything but achievements.
LEMMA MetIs ==
    ASSUME NEW s, NEW t, SaveOK(s, t), NEW now
    PROVE  LET x == CheckAchievements(s, now)
           IN  AchievementsMet(x, now) \subseteq x.meta.achievements
<1>. DEFINE x == CheckAchievements(s, now)
<1>1. /\ x.run = s.run /\ x.server = s.server /\ x.meta.achievements = s.meta.achievements \cup AchievementsMet(s, now)
      /\ \A k \in MetaFields \ {"achievements"} : x.meta[k] = s.meta[k]
  <2>. DEFINE a == s.meta.achievements \cup AchievementsMet(s, now)
              m == [s.meta EXCEPT !.achievements = a]
  <2>1. x = [s EXCEPT !.meta = m]
    BY DEF CheckAchievements
  <2>. HIDE DEF a, x
  <2>2. DOMAIN s = {"run", "meta", "server"} /\ DOMAIN s.meta = MetaFields
    BY DEF SaveOK, MetaOK
  <2>3. m.achievements = a /\ \A k \in MetaFields \ {"achievements"} : m[k] = s.meta[k]
    BY <2>2 DEF MetaFields
  <2>. HIDE DEF m
  <2>. QED
    BY <2>1, <2>2, <2>3 DEF a
<1>. HIDE DEF x
<1>2. /\ x.meta.legacyCores = s.meta.legacyCores /\ x.meta.level = s.meta.level
      /\ x.meta.shardUpgrades = s.meta.shardUpgrades
      /\ x.meta.coldStorage = s.meta.coldStorage /\ x.meta.goalsCompleted = s.meta.goalsCompleted
      /\ x.meta.stats = s.meta.stats
  BY <1>1 DEF MetaFields
<1>3. MilestoneThresholds(x) = MilestoneThresholds(s)
  BY <1>2 DEF MilestoneThresholds
<1>4. \A lane : LaneOutput(x, lane) = LaneOutput(s, lane)
  BY <1>1, <1>3 DEF LaneOutput, TierRate
<1>5. TotalOutputPerSec(x, now) = TotalOutputPerSec(s, now)
  BY <1>1, <1>4 DEF TotalOutputPerSec, BoostMult, Frozen, OverclockBonus
<1>6. \A metric : Metric(x, now, metric) = Metric(s, now, metric)
  BY <1>1, <1>2, <1>5, Zenon DEF Metric, Owned
<1>7. AchievementsMet(x, now) = AchievementsMet(s, now)
  BY <1>6 DEF AchievementsMet
<1>. QED
  BY <1>1, <1>7 DEF x

\* The read of a load: the save as it was; the track of a row that holds none
\* starts when it is read.
Reads(K) ==
    /\ SaveOK(K, clock) /\ Step(save, K, clock, Parts \ {"track"})
    /\ Track(K) = Track(save) \/ (Unread /\ Track(K) = <<clock, Track(save)[2], Track(save)[3]>>)

\* The save a load reads.
LEMMA ReadIs ==
    ASSUME Typed, Untouched
    PROVE  Reads(MigrateSave(Stored, clock))
<1>. DEFINE K == MigrateSave(Stored, clock)
<1>1. clock \in Nat /\ Start \in Nat /\ Start <= clock /\ None \notin Int
  BY ClockAssumption DEF Typed, Positive
<1>2. ASSUME Unread PROVE Reads(K)
  <2>1. Stored = Row
    BY <1>2 DEF Stored, Unread, Untouched, Row, Typed
  <2>2. RowOK(Row)
    BY RowsOK DEF Row, Typed, PlayerOK
  <2>3. K = MigrateSave(Row, clock) /\ save = MigrateSave(Row, Start)
    BY <1>2, <2>1 DEF Untouched
  <2>. HIDE DEF K
  <2>4. SaveOK(K, clock)
    BY <1>1, <2>2, <2>3, RowRead
  <2>5. Start <= Start
    BY <1>1
  <2>6. /\ Step(save, K, clock, Parts \ {"track"})
        /\ Track(K) = Track(save) \/ Track(K) = <<clock, Track(save)[2], Track(save)[3]>>
    BY <1>1, <2>2, <2>3, <2>5, RowSame
  <2>. QED
    BY <1>2, <2>4, <2>6 DEF Reads
<1>3. ASSUME ~Unread PROVE Reads(K)
  <2>1. Stored = save
    BY <1>3 DEF Stored, Unread
  <2>2. Step(save, K, clock, Parts)
    BY <2>1, StoredIsKept DEF Typed
  <2>. HIDE DEF K
  <2>. QED
    BY <2>2 DEF Step, Keeps, Reads, Parts
<1>. QED
  BY <1>2, <1>3

\* What a load makes of the save K it has read.
Loads(K, scheduled) ==
    /\ Reads(K)
    /\ Step(K, save', clock, Parts \ {"cores", "work", "board"})
    /\ Cores(save') = <<K.meta.legacyCores, Larger(K.meta.stats["bestLegacyCores"], K.meta.legacyCores)>>
    /\ LET last == IF lastSave = None THEN clock ELSE lastSave
           away(s) == IF Online(last, clock) THEN 0 ELSE (clock - last) * OfflineJobRate(s)
       IN  Worked(K, save', away(K)) /\ awayWork' = awayWork + away(save) /\ clock - last \in Nat
    /\ save'.meta.contracts = IF K.meta.contracts.dateKey = UtcDateKey(clock) THEN K.meta.contracts
                              ELSE Dealt(scheduled, clock)
    /\ SaveOK(scheduled, clock) /\ scheduled.meta.stats = save'.meta.stats /\ scheduled.run = save'.run
    /\ AchievementsMet(save', clock) \subseteq save'.meta.achievements
    /\ board' = RememberBoard(save')
    /\ lastSave' = clock /\ UNCHANGED <<player, riskEnabled, clock, streakDays, peak, carried>>

\* The load action does what Loads says.
LEMMA LoadLoads ==
    ASSUME Typed, Untouched, Load
    PROVE  \E K, scheduled : Loads(K, scheduled)
<1>. DEFINE last == IF lastSave = None THEN clock ELSE lastSave
            K == MigrateSave(Stored, clock)
<1>1. PICK struck \in Struck(RecordLegacyCorePeak(K), last, clock) :
        \E scheduled \in Scheduled(Settled(struck, last, clock), clock) :
            LET loaded == CheckAchievements(RolloverContracts(scheduled, clock), clock)
            IN  /\ save' = loaded
                /\ lastSave' = clock
                /\ board' = RememberBoard(loaded)
                /\ awayWork' = awayWork + IF Online(last, clock) THEN 0
                                          ELSE (clock - last) * OfflineJobRate(save)
                /\ UNCHANGED <<player, riskEnabled, clock, streakDays, peak, carried>>
  BY DEF Load
<1>2. PICK scheduled \in Scheduled(Settled(struck, last, clock), clock) :
        /\ save' = CheckAchievements(RolloverContracts(scheduled, clock), clock)
        /\ lastSave' = clock
        /\ board' = RememberBoard(save')
        /\ awayWork' = awayWork + IF Online(last, clock) THEN 0
                                  ELSE (clock - last) * OfflineJobRate(save)
        /\ UNCHANGED <<player, riskEnabled, clock, streakDays, peak, carried>>
  BY <1>1
<1>3. Reads(K) /\ SaveOK(K, clock)
  BY ReadIs DEF Reads
<1>4. last \in Int /\ last <= clock /\ clock - last \in Nat
  BY ClockAssumption DEF Typed, Positive
<1>. HIDE DEF last, K
<1>5. PlayerOK /\ clock \in Start .. MaxClock
  BY DEF Typed
<1>6. PICK loaded : loaded = save'
  OBVIOUS
<1>7. LoadGives(K, last, scheduled, loaded)
  <2>1. LoadOf(K, last, struck, scheduled, loaded)
    BY <1>1, <1>2, <1>3, <1>4, <1>6 DEF LoadOf
  <2>. QED
    BY <1>5, <2>1, LoadIs
<1>8. AchievementsMet(save', clock) \subseteq save'.meta.achievements
  <2>1. loaded = CheckAchievements(RolloverContracts(scheduled, clock), clock)
    BY <1>2, <1>6
  <2>. DEFINE rolled == RolloverContracts(scheduled, clock)
  <2>2. SaveOK(rolled, clock)
    BY <1>7 DEF LoadGives
  <2>. HIDE DEF rolled
  <2>3. AchievementsMet(loaded, clock) \subseteq loaded.meta.achievements
    BY <2>1, <2>2, MetIs DEF rolled
  <2>. QED
    BY <1>6, <2>3
<1>9. Loads(K, scheduled)
  BY <1>2, <1>3, <1>4, <1>6, <1>7, <1>8 DEF Loads, LoadGives, last
<1>. QED
  BY <1>9

(***************************************************************************)
(* What an action does to what the properties read.                        *)
(***************************************************************************)
TrackMoves ==
    \/ Track(save') = Track(save)
    \/ \E bs \in SUBSET Arrived(save) :
          Track(save') = <<save.meta.coldStorage.trackStartedAt, save.meta.coldStorage.blocksClaimed \cup bs,
                           save.meta.coldStorage.trackCycle>>
    \/ /\ save.meta.coldStorage.blocksClaimed = Blocks
       /\ Track(save') = <<clock, HeadStart(save), save.meta.coldStorage.trackCycle + 1>>

WorkMoves ==
    LET job == save.meta.coldStorage.job
        done == save.meta.stats["jobsCompletedLifetime"]
        deep == save.meta.stats["deepJobsCompletedLifetime"]
    IN  /\ awayWork' = awayWork
        /\ \/ Work(save') = Work(save)
           \/ \E new : /\ new # None => new.type \in JobTypes /\ new.accruedOfflineSec = 0
                       /\ Work(save') = <<new, done, deep>>
           \/ /\ job # None /\ job.type \in JobTypes
              /\ job.accruedOfflineSec >= config.batchQueue.jobs[job.type].duration
              /\ Work(save') = <<None, done + 1, deep + IF job.type = "deep" THEN 1 ELSE 0>>

CoresMove ==
    LET cores == save.meta.legacyCores
        best == save.meta.stats["bestLegacyCores"]
    IN  \/ Cores(save') = Cores(save) /\ peak' = peak
        \/ /\ save'.meta.legacyCores >= cores /\ save'.meta.stats["bestLegacyCores"] = best
           /\ peak' = Larger(peak, save'.meta.legacyCores)
        \/ Cores(save') = <<0, Larger(best, cores)>> /\ peak' = peak

StreakMoves ==
    \/ save'.meta.streak = save.meta.streak /\ streakDays' = streakDays
    \/ /\ save'.meta.streak = [count |-> NextStreakCount(save.meta.streak, UtcDateKey(clock)),
                               lastClaimDate |-> UtcDateKey(clock)]
       /\ streakDays' = streakDays \cup {UtcDateKey(clock)}

TapesMove ==
    \/ Tapes(save') = Tapes(save)
    \/ \E id \in DOMAIN TapeUpgradeDefs :
          Tapes(save') = <<Tapes(save)[1] + UpgradeCost(TapeUpgradeDefs[id], ColdLevel(save, id)),
                           [save.meta.coldStorage.upgrades EXCEPT ![id] = @ + 1]>>

WafersMove ==
    \/ Wafers(save') = Wafers(save)
    \/ \E id \in DOMAIN UpgradeDefs :
          Wafers(save') = <<Wafers(save)[1] + UpgradeCost(UpgradeDefs[id], save.meta.upgrades[id]),
                            [save.meta.upgrades EXCEPT ![id] = @ + 1]>>

Reaches(gain, goals, repeatable) ==
    \E level \in Nat :
        /\ level >= save.meta.level
        /\ Xp(save') = <<level, save.meta.xp + gain - Climbed(save.meta.level, level), goals, repeatable>>

XpMoves ==
    \/ Xp(save') = Xp(save)
    \/ \E id \in DOMAIN GoalDefs \ save.meta.goalsCompleted :
          Reaches(GoalDefs[id].xp, save.meta.goalsCompleted \cup {id}, save.meta.repeatable)
    \/ \E id \in DOMAIN RepeatableDefs :
          /\ RepeatablePay(RepeatableDefs[id], save.meta.repeatable[id]) \in Nat
          /\ Reaches(RepeatablePay(RepeatableDefs[id], save.meta.repeatable[id]), save.meta.goalsCompleted,
                     [save.meta.repeatable EXCEPT ![id] = @ + 1])

BoardMoves ==
    /\ board' = board
    /\ \A c \in Counters : save.meta.stats[c] <= save'.meta.stats[c]
    /\ \/ save'.meta.contracts = save.meta.contracts
       \/ \E i \in 1 .. BoardSize :
             /\ i \in 1 .. Len(ContractsForState(save))
             /\ Grown(save, ContractsForState(save)[i]) >= save.meta.contracts.targets[i]
             /\ save'.meta.contracts = [save.meta.contracts EXCEPT !.claimed = @ \cup {i}]

Checked == SaveOK(save', clock) /\ AchievementsMet(save', clock) \subseteq save'.meta.achievements

Moves ==
    /\ Checked /\ TrackMoves /\ WorkMoves /\ CoresMove /\ StreakMoves
    /\ TapesMove /\ WafersMove /\ XpMoves /\ BoardMoves /\ carried' = carried

\* What a new save has of what the properties read.
Fresh(s, now) ==
    /\ s.meta.coldStorage.trackStartedAt = now /\ s.meta.streak.lastClaimDate = None
    /\ s.meta.legacyCores = 0 /\ s.meta.stats["bestLegacyCores"] = 0
    /\ s.meta.contracts = [dateKey |-> None, targets |-> PadTo3(Nothing), baseline |-> Nothing, claimed |-> {}]

Resets ==
    /\ Checked /\ Fresh(save', clock) /\ carried' = save'
    /\ board' = <<>> /\ streakDays' = {} /\ peak' = 0 /\ awayWork' = awayWork

\* Handlers end alike.
LEMMA Finished ==
    ASSUME Ready, NEW x, NEW p, Step(save, x, clock, p), save' = CheckAchievements(x, clock)
    PROVE  /\ Checked /\ Keeps(save, save', p)
           /\ Track(save') = Track(x) /\ Work(save') = Work(x) /\ Cores(save') = Cores(x)
           /\ Tapes(save') = Tapes(x) /\ Wafers(save') = Wafers(x) /\ Xp(save') = Xp(x)
           /\ save'.meta.streak = x.meta.streak /\ save'.meta.contracts = x.meta.contracts
           /\ save'.meta.stats = x.meta.stats
<1>1. SaveOK(x, clock)
  BY DEF Step
<1>2. PICK y : y = save'
  OBVIOUS
<1>3. y = CheckAchievements(x, clock)
  BY <1>2
<1>4. /\ SaveOK(y, clock) /\ Track(y) = Track(x) /\ Work(y) = Work(x) /\ Cores(y) = Cores(x)
      /\ Tapes(y) = Tapes(x) /\ Wafers(y) = Wafers(x) /\ Xp(y) = Xp(x)
      /\ y.meta.streak = x.meta.streak /\ y.meta.contracts = x.meta.contracts
      /\ y.meta.stats = x.meta.stats
  BY <1>1, <1>3, CheckedIs
<1>5. AchievementsMet(y, clock) \subseteq y.meta.achievements
  BY <1>1, <1>3, MetIs
<1>6. Keeps(save, y, p)
  BY <1>4 DEF Step, Keeps
<1>. QED
  BY <1>2, <1>4, <1>5, <1>6 DEF Checked

Idle == UNCHANGED <<board, streakDays, awayWork, peak, carried>>

\* A handler that keeps every part.
LEMMA QuietMoves ==
    ASSUME Ready, Ends(Parts), Idle
    PROVE  Moves
<1>1. PICK x : Step(save, x, clock, Parts) /\ save' = CheckAchievements(x, clock)
  BY DEF Ends
<1>2. Checked /\ Keeps(save, save', Parts)
  BY <1>1, Finished
<1>. QED
  BY <1>2 DEF Moves, Idle, Keeps, Parts, TrackMoves, WorkMoves, CoresMove, StreakMoves, TapesMove, WafersMove, XpMoves, BoardMoves

\* The actions on the run.
LEMMA RunMoves ==
    ASSUME Ready, RunActions, Idle
    PROVE  Moves
<1>1. CASE \/ \E lane \in DOMAIN Units, mode \in {"one", "max", "milestone"} :
                 \E i \in Units[lane] : Buy(lane, i, mode)
           \/ \E i \in Tiers : Collect(i) \/ HireManager(i)
           \/ CollectAll \/ Vent \/ ClaimAnomaly
           \/ \E id \in DOMAIN SingularityDefs : BuyShardUpgrade(id)
  <2>1. CASE \E lane \in DOMAIN Units, mode \in {"one", "max", "milestone"} :
                 \E i \in Units[lane] : Buy(lane, i, mode)
    BY <2>1, BuyStep, QuietMoves
  <2>2. CASE (\E i \in Tiers : Collect(i)) \/ CollectAll
    BY <2>2, IndexAssumption, CollectStep, QuietMoves
  <2>3. CASE \E i \in Tiers : HireManager(i)
    BY <2>3, HireStep, QuietMoves
  <2>4. CASE Vent
    BY <2>4, VentStep, QuietMoves
  <2>5. CASE ClaimAnomaly
    BY <2>5, AnomalyStep, QuietMoves
  <2>6. CASE \E id \in DOMAIN SingularityDefs : BuyShardUpgrade(id)
    BY <2>6, ShardUpgradeStep, QuietMoves
  <2>. QED
    BY <1>1, <2>1, <2>2, <2>3, <2>4, <2>5, <2>6
<1>2. CASE Singularity
  <2>1. PICK x : /\ Step(save, x, clock, Parts \ {"cores"}) /\ save' = CheckAchievements(x, clock)
                 /\ x.meta.legacyCores = 0
                 /\ x.meta.stats["bestLegacyCores"] = Larger(save.meta.stats["bestLegacyCores"], save.meta.legacyCores)
    BY <1>2, SingularityStep
  <2>2. Checked /\ Keeps(save, save', Parts \ {"cores"}) /\ Cores(save') = Cores(x)
    BY <2>1, Finished
  <2>3. Cores(x) = <<0, Larger(save.meta.stats["bestLegacyCores"], save.meta.legacyCores)>>
    BY <2>1 DEF Cores
  <2>. QED
    BY <2>2, <2>3 DEF Moves, Idle, Keeps, Parts, TrackMoves, WorkMoves, CoresMove, StreakMoves, TapesMove, WafersMove, XpMoves, BoardMoves
<1>3. CASE \E id \in DOMAIN UpgradeDefs : BuyUpgrade(id)
  <2>1. PICK id \in DOMAIN UpgradeDefs : BuyUpgrade(id)
    BY <1>3
  <2>2. PICK x : /\ Step(save, x, clock, Parts \ {"wafers"}) /\ save' = CheckAchievements(x, clock)
                 /\ x.meta.stats = save.meta.stats
                 /\ x.meta.upgrades = [save.meta.upgrades EXCEPT ![id] = @ + 1]
                 /\ x.meta.wafers = save.meta.wafers - UpgradeCost(UpgradeDefs[id], save.meta.upgrades[id])
    BY <2>1, UpgradeStep
  <2>3. Checked /\ Keeps(save, save', Parts \ {"wafers"}) /\ Wafers(save') = Wafers(x)
    BY <2>2, Finished
  <2>4. Wafers(x) = <<Wafers(save)[1] + UpgradeCost(UpgradeDefs[id], save.meta.upgrades[id]),
                      [save.meta.upgrades EXCEPT ![id] = @ + 1]>>
    <3>1. UpgradeCost(UpgradeDefs[id], save.meta.upgrades[id]) \in Nat
      BY DefsAssumption, ShopCost DEF Ready, SaveOK, MetaOK
    <3>2. save.meta.stats["totalWafersEarned"] \in Int /\ save.meta.wafers \in Int
      BY DEF Ready, SaveOK, MetaOK, Counters
    <3>. DEFINE c == UpgradeCost(UpgradeDefs[id], save.meta.upgrades[id])
                e == save.meta.stats["totalWafersEarned"]
                w == save.meta.wafers
    <3>3. e - (w - c) = (e - w) + c
      <4>. HIDE DEF c, e, w
      <4>1. c \in Int /\ e \in Int /\ w \in Int
        BY <3>1, <3>2 DEF c, e, w
      <4>. QED BY <4>1
    <3>. QED
      BY <2>2, <3>3 DEF Wafers
  <2>. QED
    BY <2>3, <2>4 DEF Moves, Idle, Keeps, Parts, TrackMoves, WorkMoves, CoresMove, StreakMoves, TapesMove, WafersMove, XpMoves, BoardMoves
<1>4. CASE \E id \in DOMAIN GoalDefs : ClaimGoal(id)
  <2>1. PICK id \in DOMAIN GoalDefs : ClaimGoal(id)
    BY <1>4
  <2>a. PICK level \in Nat : \E x :
              /\ Step(save, x, clock, Parts \ {"xp"}) /\ save' = CheckAchievements(x, clock)
              /\ id \notin save.meta.goalsCompleted
              /\ level >= save.meta.level /\ x.meta.level = level
              /\ x.meta.xp = save.meta.xp + GoalDefs[id].xp - Climbed(save.meta.level, level)
              /\ x.meta.goalsCompleted = save.meta.goalsCompleted \cup {id} /\ x.meta.repeatable = save.meta.repeatable
    BY <2>1, GoalStep
  <2>2. PICK x :
              /\ Step(save, x, clock, Parts \ {"xp"}) /\ save' = CheckAchievements(x, clock)
              /\ id \notin save.meta.goalsCompleted
              /\ level >= save.meta.level /\ x.meta.level = level
              /\ x.meta.xp = save.meta.xp + GoalDefs[id].xp - Climbed(save.meta.level, level)
              /\ x.meta.goalsCompleted = save.meta.goalsCompleted \cup {id} /\ x.meta.repeatable = save.meta.repeatable
    BY <2>a
  <2>3. Checked /\ Keeps(save, save', Parts \ {"xp"}) /\ Xp(save') = Xp(x)
    BY <2>2, Finished
  <2>4. XpMoves
    BY <2>2, <2>3 DEF XpMoves, Reaches, Xp
  <2>. QED
    BY <2>3, <2>4 DEF Moves, Idle, Keeps, Parts, TrackMoves, WorkMoves, CoresMove, StreakMoves, TapesMove, WafersMove, BoardMoves
<1>5. CASE \E id \in DOMAIN RepeatableDefs : ClaimRepeatable(id)
  <2>1. PICK id \in DOMAIN RepeatableDefs : ClaimRepeatable(id)
    BY <1>5
  <2>a. PICK level \in Nat : \E x :
              /\ Step(save, x, clock, Parts \ {"xp"}) /\ save' = CheckAchievements(x, clock)
              /\ RepeatablePay(RepeatableDefs[id], save.meta.repeatable[id]) \in Nat
              /\ level >= save.meta.level /\ x.meta.level = level
              /\ x.meta.xp = save.meta.xp + RepeatablePay(RepeatableDefs[id], save.meta.repeatable[id])
                                - Climbed(save.meta.level, level)
              /\ x.meta.goalsCompleted = save.meta.goalsCompleted
              /\ x.meta.repeatable = [save.meta.repeatable EXCEPT ![id] = @ + 1]
    BY <2>1, RepeatableStep
  <2>2. PICK x :
              /\ Step(save, x, clock, Parts \ {"xp"}) /\ save' = CheckAchievements(x, clock)
              /\ RepeatablePay(RepeatableDefs[id], save.meta.repeatable[id]) \in Nat
              /\ level >= save.meta.level /\ x.meta.level = level
              /\ x.meta.xp = save.meta.xp + RepeatablePay(RepeatableDefs[id], save.meta.repeatable[id])
                                - Climbed(save.meta.level, level)
              /\ x.meta.goalsCompleted = save.meta.goalsCompleted
              /\ x.meta.repeatable = [save.meta.repeatable EXCEPT ![id] = @ + 1]
    BY <2>a
  <2>3. Checked /\ Keeps(save, save', Parts \ {"xp"}) /\ Xp(save') = Xp(x)
    BY <2>2, Finished
  <2>4. XpMoves
    BY <2>2, <2>3 DEF XpMoves, Reaches, Xp
  <2>. QED
    BY <2>3, <2>4 DEF Moves, Idle, Keeps, Parts, TrackMoves, WorkMoves, CoresMove, StreakMoves, TapesMove, WafersMove, BoardMoves
<1>. QED
  BY <1>1, <1>2, <1>3, <1>4, <1>5 DEF RunActions

\* The actions of Cold Storage.
LEMMA ColdMoves ==
    ASSUME Ready, ColdActions, Idle
    PROVE  Moves
<1>1. CASE (\E i \in Blocks : ClaimBlock(i)) \/ ClaimAllBlocks
  <2>1. \E i \in Blocks : ClaimBlock(i) \/ ClaimAllBlocks
    BY <1>1, ClockAssumption DEF Blocks, Positive
  <2>2. PICK x : \E bs \in SUBSET Arrived(save) :
              /\ Step(save, x, clock, Parts \ {"track"}) /\ save' = CheckAchievements(x, clock)
              /\ Track(x) = <<save.meta.coldStorage.trackStartedAt, save.meta.coldStorage.blocksClaimed \cup bs,
                              save.meta.coldStorage.trackCycle>>
    BY <2>1, ClaimBlocksStep
  <2>3. Checked /\ Keeps(save, save', Parts \ {"track"}) /\ Track(save') = Track(x)
    BY <2>2, Finished
  <2>4. TrackMoves
    BY <2>2, <2>3 DEF TrackMoves
  <2>. QED
    BY <2>3, <2>4 DEF Moves, Idle, Keeps, Parts, WorkMoves, CoresMove, StreakMoves, TapesMove, WafersMove, XpMoves, BoardMoves
<1>2. CASE ResetTrack
  <2>1. PICK x :
              /\ Step(save, x, clock, Parts \ {"track"}) /\ save' = CheckAchievements(x, clock)
              /\ save.meta.coldStorage.blocksClaimed = Blocks
              /\ Track(x) = <<clock, HeadStart(save), save.meta.coldStorage.trackCycle + 1>>
    BY <1>2, ResetStep
  <2>2. Checked /\ Keeps(save, save', Parts \ {"track"}) /\ Track(save') = Track(x)
    BY <2>1, Finished
  <2>3. TrackMoves
    BY <2>1, <2>2 DEF TrackMoves
  <2>. QED
    BY <2>2, <2>3 DEF Moves, Idle, Keeps, Parts, WorkMoves, CoresMove, StreakMoves, TapesMove, WafersMove, XpMoves, BoardMoves
<1>3. CASE CancelJob \/ \E type \in JobTypes : StartJob(type)
  <2>1. \E type \in JobTypes : StartJob(type) \/ CancelJob
    BY <1>3, JobTypesAre DEF Ready
  <2>2. PICK x, job :
              /\ Step(save, x, clock, Parts \ {"work"}) /\ save' = CheckAchievements(x, clock)
              /\ job # None => job.type \in JobTypes /\ job.accruedOfflineSec = 0
              /\ Work(x) = <<job, save.meta.stats["jobsCompletedLifetime"], save.meta.stats["deepJobsCompletedLifetime"]>>
    BY <2>1, StartCancelStep
  <2>3. Checked /\ Keeps(save, save', Parts \ {"work"}) /\ Work(save') = Work(x)
    BY <2>2, Finished
  <2>4. WorkMoves
    BY <2>2, <2>3 DEF WorkMoves, Idle
  <2>. QED
    BY <2>3, <2>4 DEF Moves, Idle, Keeps, Parts, TrackMoves, CoresMove, StreakMoves, TapesMove, WafersMove, XpMoves, BoardMoves
<1>4. CASE ClaimJob
  <2>. DEFINE job == save.meta.coldStorage.job
              deep == IF job.type = "deep" THEN 1 ELSE 0
  <2>1. PICK x :
              /\ Step(save, x, clock, Parts \ {"work"}) /\ save' = CheckAchievements(x, clock)
              /\ job # None /\ job.type \in JobTypes
              /\ job.accruedOfflineSec >= config.batchQueue.jobs[job.type].duration
              /\ Work(x) = <<None, save.meta.stats["jobsCompletedLifetime"] + 1,
                             save.meta.stats["deepJobsCompletedLifetime"] + deep>>
    BY <1>4, ClaimJobStep
  <2>2. Checked /\ Keeps(save, save', Parts \ {"work"}) /\ Work(save') = Work(x)
    BY <2>1, Finished
  <2>3. WorkMoves
    BY <2>1, <2>2 DEF WorkMoves, Idle
  <2>. QED
    BY <2>2, <2>3 DEF Moves, Idle, Keeps, Parts, TrackMoves, CoresMove, StreakMoves, TapesMove, WafersMove, XpMoves, BoardMoves
<1>5. CASE \E id \in DOMAIN TapeUpgradeDefs : BuyTapeUpgrade(id)
  <2>1. PICK id \in DOMAIN TapeUpgradeDefs : BuyTapeUpgrade(id)
    BY <1>5
  <2>2. PICK x : /\ Step(save, x, clock, Parts \ {"tapes"}) /\ save' = CheckAchievements(x, clock)
                 /\ x.meta.stats = save.meta.stats
                 /\ x.meta.coldStorage.upgrades = [save.meta.coldStorage.upgrades EXCEPT ![id] = @ + 1]
                 /\ x.meta.coldStorage.tapes = save.meta.coldStorage.tapes - UpgradeCost(TapeUpgradeDefs[id], ColdLevel(save, id))
    BY <2>1, TapeUpgradeStep
  <2>3. Checked /\ Keeps(save, save', Parts \ {"tapes"}) /\ Tapes(save') = Tapes(x)
    BY <2>2, Finished
  <2>4. Tapes(x) = <<Tapes(save)[1] + UpgradeCost(TapeUpgradeDefs[id], ColdLevel(save, id)),
                     [save.meta.coldStorage.upgrades EXCEPT ![id] = @ + 1]>>
    <3>1. UpgradeCost(TapeUpgradeDefs[id], ColdLevel(save, id)) \in Nat
      BY DefsAssumption, ShopCost DEF Ready, SaveOK, MetaOK, ColdOK, ColdLevel
    <3>2. save.meta.stats["tapesEarnedLifetime"] \in Int /\ save.meta.coldStorage.tapes \in Int
      BY DEF Ready, SaveOK, MetaOK, ColdOK, Counters
    <3>. DEFINE c == UpgradeCost(TapeUpgradeDefs[id], ColdLevel(save, id))
                e == save.meta.stats["tapesEarnedLifetime"]
                w == save.meta.coldStorage.tapes
    <3>3. e - (w - c) = (e - w) + c
      <4>. HIDE DEF c, e, w
      <4>1. c \in Int /\ e \in Int /\ w \in Int
        BY <3>1, <3>2 DEF c, e, w
      <4>. QED BY <4>1
    <3>. QED
      BY <2>2, <3>3 DEF Tapes
  <2>5. TapesMove
    BY <2>3, <2>4 DEF TapesMove
  <2>. QED
    BY <2>3, <2>5 DEF Moves, Idle, Keeps, Parts, TrackMoves, WorkMoves, CoresMove, StreakMoves, WafersMove, XpMoves, BoardMoves
<1>. QED
  BY <1>1, <1>2, <1>3, <1>4, <1>5 DEF ColdActions

\* Contracts and supplies.
LEMMA DailyMoves ==
    ASSUME Ready, Idle, (\E i \in 1 .. BoardSize : ClaimContract(i)) \/ (\E id \in Supplies : BuySupply(id))
    PROVE  Moves
<1>1. CASE \E id \in Supplies : BuySupply(id)
  BY <1>1, SupplyStep, QuietMoves
<1>2. CASE \E i \in 1 .. BoardSize : ClaimContract(i)
  <2>1. PICK i \in 1 .. BoardSize : ClaimContract(i)
    BY <1>2
  <2>2. /\ i \in 1 .. Len(ContractsForState(save))
        /\ Grown(save, ContractsForState(save)[i]) >= save.meta.contracts.targets[i]
    BY <2>1 DEF ClaimContract
  <2>3. PICK x : /\ Step(save, x, clock, Parts \ {"board"}) /\ save' = CheckAchievements(x, clock)
                 /\ x.meta.contracts = [save.meta.contracts EXCEPT !.claimed = @ \cup {i}]
    BY <2>1, ContractStep
  <2>4. Checked /\ Keeps(save, save', Parts \ {"board"}) /\ save'.meta.contracts = x.meta.contracts
    BY <2>3, Finished
  <2>5. BoardMoves
    BY <2>2, <2>3, <2>4 DEF BoardMoves, Idle, Keeps
  <2>. QED
    BY <2>4, <2>5 DEF Moves, Idle, Keeps, Parts, TrackMoves, WorkMoves, CoresMove, StreakMoves, TapesMove, WafersMove, XpMoves
<1>. QED
  BY <1>1, <1>2

\* Every action of a batch follows a load and is a move or a reset.
LEMMA ActMoves ==
    ASSUME Typed, Act
    PROVE  /\ lastSave = clock /\ UNCHANGED <<player, riskEnabled, clock, lastSave>>
           /\ Moves \/ Resets
<1>. USE DEF historyVars
<1>0. Ready
  BY DEF Typed, Ready
<1>1. CASE RunActions /\ UNCHANGED historyVars
  <2>1. lastSave = clock /\ UNCHANGED <<player, riskEnabled, clock, lastSave>>
    BY <1>1, ZenonT(60) DEF RunActions, Buy, Collect, HireManager, CollectAll, Vent, Singularity, ClaimAnomaly, BuyUpgrade,
                BuyShardUpgrade, ClaimGoal, ClaimRepeatable, Posts, Succeed
  <2>. QED
    BY <1>0, <1>1, <2>1, RunMoves DEF Idle
<1>2. CASE ColdActions /\ UNCHANGED historyVars
  <2>1. lastSave = clock /\ UNCHANGED <<player, riskEnabled, clock, lastSave>>
    BY <1>2 DEF ColdActions, ClaimBlock, ClaimAllBlocks, ResetTrack, CancelJob, ClaimJob, StartJob, BuyTapeUpgrade, Posts, Succeed
  <2>. QED
    BY <1>0, <1>2, <2>1, ColdMoves DEF Idle
<1>3. CASE ((\E i \in 1 .. BoardSize : ClaimContract(i)) \/ (\E id \in Supplies : BuySupply(id))) /\ UNCHANGED historyVars
  <2>1. lastSave = clock /\ UNCHANGED <<player, riskEnabled, clock, lastSave>>
    BY <1>3 DEF ClaimContract, BuySupply, Posts, Succeed
  <2>. QED
    BY <1>0, <1>3, <2>1, DailyMoves DEF Idle
<1>4. CASE \E o \in save.server.outages :
              ResolveOutage(o) /\ UNCHANGED <<credited, board, streakDays, awayWork, peak, carried>>
  <2>1. lastSave = clock /\ UNCHANGED <<player, riskEnabled, clock, lastSave>>
    BY <1>4 DEF ResolveOutage, Posts, Succeed
  <2>. QED
    BY <1>0, <1>4, <2>1, ResolveStep, QuietMoves DEF Idle
<1>5. CASE ClaimStreak /\ streakDays' = streakDays \cup {UtcDateKey(clock)}
              /\ UNCHANGED <<incidents, credited, board, awayWork, peak, carried>>
  <2>1. lastSave = clock /\ UNCHANGED <<player, riskEnabled, clock, lastSave>>
    BY <1>5 DEF ClaimStreak, Posts, Succeed
  <2>2. PICK x : /\ Step(save, x, clock, Parts \ {"streak"}) /\ save' = CheckAchievements(x, clock)
                 /\ x.meta.streak = [count |-> NextStreakCount(save.meta.streak, UtcDateKey(clock)),
                                      lastClaimDate |-> UtcDateKey(clock)]
    BY <1>0, <1>5, StreakStep
  <2>3. Checked /\ Keeps(save, save', Parts \ {"streak"}) /\ save'.meta.streak = x.meta.streak
    BY <1>0, <2>2, Finished
  <2>4. StreakMoves
    BY <1>5, <2>2, <2>3 DEF StreakMoves
  <2>. QED
    BY <1>5, <2>1, <2>3, <2>4 DEF Moves, Keeps, Parts, TrackMoves, WorkMoves, CoresMove, TapesMove, WafersMove, XpMoves, BoardMoves
<1>6. CASE Migrate /\ peak' = Larger(peak, save'.meta.legacyCores)
              /\ UNCHANGED <<incidents, credited, board, streakDays, awayWork, carried>>
  <2>1. lastSave = clock /\ UNCHANGED <<player, riskEnabled, clock, lastSave>>
    BY <1>6 DEF Migrate, Posts, Succeed
  <2>2. PICK x : /\ Step(save, x, clock, Parts \ {"cores"}) /\ save' = CheckAchievements(x, clock)
                 /\ x.meta.legacyCores >= save.meta.legacyCores
                 /\ x.meta.stats["bestLegacyCores"] = save.meta.stats["bestLegacyCores"]
    BY <1>0, <1>6, MigrateStep
  <2>3. Checked /\ Keeps(save, save', Parts \ {"cores"}) /\ Cores(save') = Cores(x)
    BY <1>0, <2>2, Finished
  <2>4. CoresMove
    BY <1>6, <2>2, <2>3 DEF CoresMove, Cores
  <2>. QED
    BY <1>6, <2>1, <2>3, <2>4 DEF Moves, Keeps, Parts, TrackMoves, WorkMoves, StreakMoves, TapesMove, WafersMove, XpMoves, BoardMoves
<1>7. CASE HardReset /\ board' = <<>> /\ streakDays' = {} /\ peak' = 0 /\ carried' = save'
              /\ UNCHANGED <<credited, awayWork>>
  <2>1. lastSave = clock /\ UNCHANGED <<player, riskEnabled, clock, lastSave>>
    BY <1>7 DEF HardReset, Posts, Succeed
  <2>2. PICK x : SaveOK(x, clock) /\ x.meta = FreshMeta(clock) /\ save' = CheckAchievements(x, clock)
    BY <1>0, <1>7, HardResetStep
  <2>3. Fresh(x, clock)
    <3>. DEFINE m == FreshMeta(clock)
    <3>1. /\ m.coldStorage.trackStartedAt = clock /\ m.legacyCores = 0 /\ m.streak.lastClaimDate = None
          /\ m.contracts = [dateKey |-> None, targets |-> PadTo3(Nothing), baseline |-> Nothing, claimed |-> {}]
          /\ m.stats["bestLegacyCores"] = 0
      BY DEF FreshMeta, Counters
    <3>. HIDE DEF m
    <3>2. x.meta = m
      BY <2>2 DEF m
    <3>. QED
      BY <3>1, <3>2 DEF Fresh
  <2>4. PICK y : y = save'
    OBVIOUS
  <2>5. /\ SaveOK(y, clock) /\ Track(y) = Track(x) /\ Work(y) = Work(x) /\ Cores(y) = Cores(x)
        /\ Tapes(y) = Tapes(x) /\ Wafers(y) = Wafers(x) /\ Xp(y) = Xp(x)
        /\ y.meta.streak = x.meta.streak /\ y.meta.contracts = x.meta.contracts
        /\ y.meta.stats = x.meta.stats
    BY <2>2, <2>4, CheckedIs
  <2>6. AchievementsMet(y, clock) \subseteq y.meta.achievements
    BY <2>2, <2>4, MetIs
  <2>8. Fresh(y, clock)
    BY <2>3, <2>5 DEF Fresh, Cores, Track
  <2>. QED
    BY <1>7, <2>1, <2>4, <2>5, <2>6, <2>8 DEF Resets, Checked
<1>. QED
  BY <1>1, <1>2, <1>3, <1>4, <1>5, <1>6, <1>7 DEF Act

\* The first state.
LEMMA InitTyped ==
    ASSUME Init
    PROVE  /\ Typed /\ Untouched /\ SaveOK(save, Start - 1)
           /\ save.meta.coldStorage.trackStartedAt <= Start /\ DayRow(save.meta.contracts)
<1>1. Start \in Nat /\ MaxClock \in Nat /\ Start <= MaxClock /\ None \notin Int
  BY ClockAssumption DEF Positive
<1>2. PlayerOK /\ clock = Start /\ save = MigrateSave(Row, Start)
  BY DEF Init, PlayerOK, Row
<1>3. RowOK(Row)
  BY <1>2, RowsOK DEF Row, PlayerOK
<1>4. /\ SaveOK(save, clock) /\ SaveOK(save, Start - 1)
      /\ save.meta.coldStorage.trackStartedAt <= Start /\ DayRow(save.meta.contracts)
  <2>1. Start <= Start
    BY <1>1
  <2>. QED
    BY <1>1, <1>2, <1>3, <2>1, RowRead
<1>5. Typed
  BY <1>1, <1>2, <1>4 DEF Typed, Init
<1>6. Untouched
  BY <1>1, <1>2 DEF Untouched, Init, Row
<1>. QED
  BY <1>4, <1>5, <1>6

\* Types are kept.
LEMMA TypedStep ==
    ASSUME Typed, Untouched, [Next]_vars
    PROVE  Typed' /\ Untouched'
<1>0. /\ Start \in Nat /\ MaxClock \in Nat /\ None \notin Int /\ clock \in Int /\ clock >= Start
  BY ClockAssumption DEF Typed, Positive
<1>1. CASE Load
  <2>1. PICK K, scheduled : Loads(K, scheduled)
    BY <1>1, LoadLoads
  <2>2. SaveOK(save', clock) /\ lastSave' = clock /\ player' = player /\ clock' = clock /\ carried' = carried
    BY <2>1 DEF Loads, Step
  <2>3. SaveOK(save', clock') /\ SaveOK(carried', clock')
    BY <2>2 DEF Typed
  <2>4. Typed'
    BY <1>0, <2>2, <2>3 DEF Typed, PlayerOK
  <2>5. Untouched'
    BY <1>0, <2>2 DEF Untouched, Unread
  <2>. QED
    BY <2>4, <2>5
<1>2. CASE Act
  <2>1. lastSave = clock /\ UNCHANGED <<player, riskEnabled, clock, lastSave>> /\ SaveOK(save', clock)
        /\ (carried' = carried \/ carried' = save')
    BY <1>2, ActMoves DEF Moves, Resets, Checked
  <2>2. SaveOK(save', clock') /\ SaveOK(carried', clock')
    BY <2>1 DEF Typed
  <2>3. Typed'
    BY <2>1, <2>2 DEF Typed, PlayerOK
  <2>4. Untouched'
    BY <1>0, <2>1 DEF Untouched, Unread
  <2>. QED
    BY <2>3, <2>4
<1>3. CASE Tick
  <2>1. clock + 1 <= MaxClock
    BY <1>0, <1>3, ConfigOK DEF Tick, Typed
  <2>2. SaveOK(save, clock + 1) /\ SaveOK(carried, clock + 1)
    BY <1>0, LaterOK DEF Typed
  <2>3. SaveOK(save', clock') /\ SaveOK(carried', clock')
    BY <1>3, <2>2 DEF Tick, historyVars
  <2>4. UNCHANGED <<player, lastSave, save, historyVars>> /\ clock' = clock + 1
    BY <1>3 DEF Tick
  <2>5. Typed'
    BY <1>0, <2>1, <2>3, <2>4 DEF Typed, PlayerOK
  <2>6. Untouched'
    BY <2>4 DEF Untouched, Unread, Row, historyVars
  <2>. QED
    BY <2>5, <2>6
<1>4. CASE SetRisk \/ UNCHANGED vars
  <2>1. UNCHANGED <<player, lastSave, save, clock, historyVars>>
    BY <1>4 DEF SetRisk, vars, gameVars
  <2>2. SaveOK(save', clock') /\ SaveOK(carried', clock')
    BY <2>1 DEF Typed, historyVars
  <2>3. Typed'
    BY <2>1, <2>2 DEF Typed, PlayerOK
  <2>4. Untouched'
    BY <2>1 DEF Untouched, Unread, Row, historyVars
  <2>. QED
    BY <2>3, <2>4
<1>. QED
  BY <1>1, <1>2, <1>3, <1>4 DEF Next

(***************************************************************************)
(* Steps, as the properties see them: the save is read and loaded, moves,  *)
(* is reset, or stays as it is while the clock goes on.                    *)
(***************************************************************************)
Waits ==
    UNCHANGED <<player, save, historyVars>> /\ clock' \in clock .. clock + 1
        /\ (clock' = clock \/ lastSave' = lastSave) /\ lastSave' = lastSave

\* Every step is one of the four.
LEMMA StepIs ==
    ASSUME Typed, Untouched, [Next]_vars
    PROVE  \/ \E K, scheduled : Loads(K, scheduled)
           \/ Moves /\ UNCHANGED <<player, clock, lastSave>> /\ lastSave = clock
           \/ Resets /\ UNCHANGED <<player, clock, lastSave>> /\ lastSave = clock
           \/ Waits
<1>0. clock \in Int
  BY DEF Typed
<1>1. CASE Load
  BY <1>1, LoadLoads
<1>2. CASE Act
  BY <1>2, ActMoves
<1>3. CASE Tick \/ SetRisk \/ UNCHANGED vars
  BY <1>0, <1>3 DEF Tick, SetRisk, vars, gameVars, Waits
<1>. QED
  BY <1>1, <1>2, <1>3 DEF Next

(***************************************************************************)
(* Cycles take time.                                                       *)
(***************************************************************************)
Slack(from) == IF from[2] = Blocks THEN 1 ELSE 0

TrackFits(track, from, now) ==
    LET floor == config.batchQueue.blockFloor
    IN  /\ (track[3] - from[3] - Slack(from)) * floor <= track[1] - from[1]
        /\ track[1] <= now /\ from[1] <= now
        /\ track[2] = Blocks => \/ track[1] + floor <= now
                                \/ Slack(from) = 1 /\ track[3] = from[3]

\* A track, part by part.
LEMMA FitsAs ==
    ASSUME NEW m, NEW bl, NEW n, NEW from, NEW now, m <= now, from[1] <= now,
           (n - from[3] - Slack(from)) * config.batchQueue.blockFloor <= m - from[1],
           bl = Blocks => \/ m + config.batchQueue.blockFloor <= now
                          \/ Slack(from) = 1 /\ n = from[3]
    PROVE  TrackFits(<<m, bl, n>>, from, now)
<1>1. PICK t : t = <<m, bl, n>>
  OBVIOUS
<1>2. t[1] = m /\ t[2] = bl /\ t[3] = n
  BY <1>1
<1>3. TrackFits(t, from, now)
  <2>. DEFINE floor == config.batchQueue.blockFloor
              k == (t[3] - from[3] - Slack(from)) * floor
  <2>1. k <= t[1] - from[1] /\ t[1] <= now /\ from[1] <= now
    BY <1>2
  <2>2. t[2] = Blocks => t[1] + floor <= now \/ (Slack(from) = 1 /\ t[3] = from[3])
    BY <1>2
  <2>. QED
    BY <2>1, <2>2 DEF TrackFits
<1>. QED
  BY <1>1, <1>3

\* The track's constants.
LEMMA TrackNumbers ==
    ASSUME PlayerOK
    PROVE  config.batchQueue.blockFloor \in Nat /\ TotalBlocks \in Nat /\ TotalBlocks >= 1 /\ Start \in Nat
  BY ConfigOK, ClockAssumption DEF ValidConfigs, Positive

\* A block that has arrived took the floor of a block at least.
LEMMA ArrivedLate ==
    ASSUME Typed, save.meta.coldStorage.trackStartedAt <= clock, Arrived(save) # {}
    PROVE  save.meta.coldStorage.trackStartedAt + config.batchQueue.blockFloor <= clock
<1>. DEFINE floor == config.batchQueue.blockFloor
            started == save.meta.coldStorage.trackStartedAt
            long == BlockDuration(save)
            gap == clock - started
            q == gap \div long
<1>1. floor \in Nat /\ clock \in Nat /\ started \in Nat
  BY TrackNumbers DEF Typed, SaveOK, MetaOK, ColdOK
<1>2. PICK i \in Blocks : i < q
  BY DEF Arrived
<1>3. long \in Nat /\ long >= floor /\ long > 0
  <2>1. config.batchQueue.blockDuration \in Int /\ ColdLevel(save, "robotarm") \in Int /\ floor > 0
    BY ConfigOK, DefsAssumption DEF Typed, SaveOK, MetaOK, ColdOK, ColdLevel, ValidConfigs, Positive
  <2>. QED
    BY <1>1, <2>1 DEF BlockDuration, Larger
<1>4. i \in Nat
  BY TrackNumbers DEF Blocks, Typed
<1>. HIDE DEF long
<1>5. gap \in Nat
  BY <1>1
<1>. HIDE DEF gap
<1>6. q \in Nat /\ q * long <= gap /\ q >= 1
  BY <1>2, <1>3, <1>4, <1>5
<1>. HIDE DEF q
<1>7. long <= q * long
  <2>1. q * long = (q - 1) * long + long
    BY <1>3, <1>6
  <2>. DEFINE r == (q - 1) * long
  <2>2. r \in Nat
    <3>1. q - 1 \in Nat
      BY <1>6
    <3>. QED
      BY <1>3, <3>1, Products
  <2>. HIDE DEF r
  <2>. QED
    BY <1>3, <2>1, <2>2 DEF r
<1>. DEFINE p == q * long
<1>8. p \in Int
  BY <1>3, <1>6
<1>. HIDE DEF p, floor, started
<1>9. floor <= gap
  BY <1>1, <1>3, <1>5, <1>6, <1>7, <1>8 DEF p
<1>10. started + floor <= clock
  BY <1>1, <1>9 DEF gap
<1>. QED
  BY <1>10 DEF started, floor

\* Blocks and resets: a full track took its last block's time.
LEMMA TrackNext ==
    ASSUME Typed, TrackFits(Track(save), Track(carried), clock), TrackMoves
    PROVE  TrackFits(Track(save'), Track(carried), clock)
<1>. DEFINE floor == config.batchQueue.blockFloor
            started == save.meta.coldStorage.trackStartedAt
            cycle == save.meta.coldStorage.trackCycle
            blocks == save.meta.coldStorage.blocksClaimed
            from == Track(carried)
            start0 == from[1]
            cycle0 == from[3]
            slack == Slack(from)
<1>1. floor \in Nat /\ TotalBlocks \in Nat /\ TotalBlocks >= 1 /\ clock \in Nat
  BY TrackNumbers DEF Typed
<1>2. started \in Nat /\ cycle \in Nat /\ start0 \in Nat /\ cycle0 \in Nat /\ slack \in {0, 1}
  BY DEF Typed, SaveOK, MetaOK, ColdOK, Slack, Track
<1>3. Track(save) = <<started, blocks, cycle>>
  BY DEF Track
<1>a. \A m, bl, n : Track(save') = <<m, bl, n>> => Track(save')[1] = m /\ Track(save')[2] = bl /\ Track(save')[3] = n
  OBVIOUS
<1>4. /\ (cycle - cycle0 - slack) * floor <= started - start0 /\ started <= clock /\ start0 <= clock
      /\ blocks = Blocks => \/ started + floor <= clock
                            \/ slack = 1 /\ cycle = cycle0
  BY <1>3 DEF TrackFits
<1>5. CASE Track(save') = Track(save)
  BY <1>5
<1>6. CASE \E bs \in SUBSET Arrived(save) : Track(save') = <<started, blocks \cup bs, cycle>>
  <2>1. PICK bs \in SUBSET Arrived(save) : Track(save') = <<started, blocks \cup bs, cycle>>
    BY <1>6
  <2>2. CASE bs = {}
    BY <1>3, <2>1, <2>2
  <2>3. CASE bs # {}
    <3>1. started + floor <= clock
      BY <1>4, <2>3, ArrivedLate
    <3>. HIDE DEF floor, started, cycle, blocks, start0, cycle0, from, slack
    <3>2. TrackFits(<<started, blocks \cup bs, cycle>>, from, clock)
      BY <1>4, <3>1, FitsAs DEF floor, slack, start0, cycle0
    <3>. QED
      BY <2>1, <3>2 DEF from
  <2>. QED
    BY <2>2, <2>3
<1>7. CASE blocks = Blocks /\ Track(save') = <<clock, HeadStart(save), cycle + 1>>
  <2>1. HeadStart(save) # Blocks
    <3>1. ColdLevel(save, "headstart") \in Int
      BY DefsAssumption DEF Typed, SaveOK, MetaOK, ColdOK, ColdLevel
    <3>2. TotalBlocks - 1 \in Blocks /\ TotalBlocks - 1 \notin HeadStart(save)
      BY <1>1, <3>1 DEF HeadStart, Smaller, Blocks
    <3>. QED
      BY <3>2
  <2>. HIDE DEF floor, started, cycle, blocks, start0, cycle0, from, slack
  <2>2. ((cycle + 1) - cycle0 - slack) * floor <= clock - start0
    <3>1. CASE started + floor <= clock
      <4>. DEFINE k == cycle - cycle0 - slack
                  c == k * floor
      <4>1. k \in Int /\ (cycle + 1) - cycle0 - slack = k + 1 /\ c <= started - start0
        BY <1>2, <1>4
      <4>. HIDE DEF k
      <4>2. (k + 1) * floor = c + floor /\ c \in Int
        BY <1>1, <4>1
      <4>. HIDE DEF c
      <4>3. c + floor <= clock - start0
        BY <1>1, <1>2, <1>4, <3>1, <4>1, <4>2
      <4>. QED
        BY <4>1, <4>2, <4>3
    <3>2. CASE slack = 1 /\ cycle = cycle0
      <4>1. (cycle + 1) - cycle0 - slack = 0 /\ 0 * floor = 0
        BY <1>1, <1>2, <3>2
      <4>. QED
        BY <1>1, <1>2, <1>4, <4>1
    <3>. QED
      BY <1>4, <1>7, <3>1, <3>2
  <2>3. clock <= clock
    BY <1>1
  <2>4. TrackFits(<<clock, HeadStart(save), cycle + 1>>, from, clock)
    <3>. DEFINE n == cycle + 1
    <3>1. (n - from[3] - Slack(from)) * config.batchQueue.blockFloor <= clock - from[1]
      BY <2>2 DEF floor, slack, start0, cycle0
    <3>. HIDE DEF n
    <3>2. TrackFits(<<clock, HeadStart(save), n>>, from, clock)
      BY <1>4, <2>1, <2>3, <3>1, FitsAs DEF start0
    <3>. QED
      BY <3>2 DEF n
  <2>. QED
    BY <1>7, <2>4 DEF from
<1>. QED
  BY <1>5, <1>6, <1>7 DEF TrackMoves

\* A save that was only read: the cycles of its row are its own.
LEMMA TrackRead ==
    ASSUME PlayerOK, NEW now \in Nat, NEW m \in Nat, NEW from, from[1] \in Nat, from[3] \in Nat,
           from[1] <= m, m <= now
    PROVE  TrackFits(<<m, from[2], from[3]>>, from, now)
<1>. DEFINE floor == config.batchQueue.blockFloor
<1>1. floor \in Nat
  BY TrackNumbers
<1>2. Slack(from) \in {0, 1} /\ (from[2] = Blocks => Slack(from) = 1)
  BY DEF Slack
<1>. DEFINE n == from[3] - from[3] - Slack(from)
<1>3. n = 0 - Slack(from)
  BY <1>2
<1>. HIDE DEF floor
<1>4. n * floor <= m - from[1]
  <2>1. CASE Slack(from) = 0
    <3>1. n * floor = 0
      BY <1>1, <1>3, <2>1
    <3>. QED BY <3>1
  <2>2. CASE Slack(from) = 1
    <3>1. n * floor = 0 - floor
      BY <1>1, <1>3, <2>2
    <3>. QED BY <1>1, <3>1
  <2>. QED
    BY <1>2, <2>1, <2>2
<1>5. from[1] <= now
  OBVIOUS
<1>. QED
  BY <1>2, <1>4, <1>5 DEF TrackFits, floor

TrackHeld == TrackFits(Track(save), Track(carried), clock)

\* So does one whose save was just read or made.
LEMMA TrackInit ==
    ASSUME PlayerOK, SaveOK(save, clock), clock \in Nat, save.meta.coldStorage.trackStartedAt <= clock, carried = save
    PROVE  TrackHeld
<1>1. Track(save) = <<Track(save)[1], Track(save)[2], Track(save)[3]>>
      /\ Track(save)[1] \in Nat /\ Track(save)[3] \in Nat /\ Track(save)[1] <= clock
  BY DEF Track, SaveOK, MetaOK, ColdOK
<1>2. Track(save)[1] <= Track(save)[1]
  BY <1>1
<1>3. TrackFits(<<Track(save)[1], Track(save)[2], Track(save)[3]>>, Track(save), clock)
  BY <1>1, <1>2, TrackRead
<1>. QED
  BY <1>1, <1>3 DEF TrackHeld

\* So every cycle takes time.
LEMMA TrackStep ==
    ASSUME Typed, Untouched, TrackHeld, [Next]_vars
    PROVE  TrackHeld'
<1>0. clock \in Nat
  BY TrackNumbers DEF Typed
<1>1. ASSUME NEW K, NEW scheduled, Loads(K, scheduled) PROVE TrackHeld'
  <2>1. player' = player /\ clock' = clock /\ Track(save') = Track(K) /\ carried' = carried
    BY <1>1 DEF Loads, Step, Keeps, Parts
  <2>2. Track(K) = Track(save) \/ (Unread /\ Track(K) = <<clock, Track(save)[2], Track(save)[3]>>)
    BY <1>1 DEF Loads, Reads
  <2>3. TrackFits(Track(save'), Track(carried), clock)
    <3>1. CASE Track(K) = Track(save)
      BY <2>1, <3>1 DEF TrackHeld
    <3>2. CASE Unread /\ Track(K) = <<clock, Track(save)[2], Track(save)[3]>>
      <4>1. carried = save
        BY <3>2 DEF Untouched
      <4>. DEFINE from == Track(save)
      <4>2. from[1] \in Nat /\ from[3] \in Nat /\ from[1] <= clock /\ clock <= clock
        BY <1>0 DEF Track, SaveOK, MetaOK, ColdOK, Typed, TrackHeld, TrackFits
      <4>. HIDE DEF from
      <4>3. TrackFits(<<clock, from[2], from[3]>>, from, clock)
        BY <1>0, <4>2, TrackRead DEF Typed
      <4>. QED
        BY <2>1, <3>2, <4>1, <4>3 DEF from
    <3>. QED
      BY <2>2, <3>1, <3>2
  <2>. QED
    BY <2>1, <2>3 DEF TrackHeld, TrackFits, config, Slack, Track
<1>2. CASE Moves /\ UNCHANGED <<player, clock, lastSave>>
  <2>1. TrackFits(Track(save'), Track(carried), clock)
    BY <1>2, TrackNext DEF Moves, TrackHeld
  <2>. QED
    BY <1>2, <2>1 DEF TrackHeld, TrackFits, config, Slack, Track, Moves
<1>3. CASE Resets /\ UNCHANGED <<player, clock, lastSave>>
  <2>1. SaveOK(save', clock') /\ save'.meta.coldStorage.trackStartedAt <= clock' /\ clock' \in Nat
        /\ carried' = save' /\ player' = player
    BY <1>0, <1>3 DEF Resets, Checked, Fresh, Typed, PlayerOK
  <2>2. PICK s : s = save'
    OBVIOUS
  <2>3. Track(s)[1] \in Nat /\ Track(s)[3] \in Nat /\ Track(s)[1] <= clock' /\ Track(s)[1] <= Track(s)[1]
        /\ Track(s) = <<Track(s)[1], Track(s)[2], Track(s)[3]>>
    BY <2>1, <2>2 DEF SaveOK, MetaOK, ColdOK, Track
  <2>4. TrackFits(Track(s), Track(s), clock')
    <3>. DEFINE f == Track(s)
    <3>. HIDE DEF f
    <3>1. TrackFits(<<f[1], f[2], f[3]>>, f, clock')
      BY <2>1, <2>3, TrackRead DEF Typed, f
    <3>. QED
      BY <2>3, <3>1 DEF f
  <2>5. TrackFits(Track(save'), Track(carried'), clock')
    BY <2>1, <2>2, <2>4
  <2>. QED
    BY <2>1, <2>5 DEF TrackHeld, TrackFits, config, Slack, Track
<1>4. CASE Waits
  <2>1. Track(save') = Track(save) /\ Track(carried') = Track(carried) /\ player' = player
        /\ clock' \in Int /\ clock <= clock'
    BY <1>4 DEF Waits, Typed, Track, historyVars
  <2>2. Track(save)[1] \in Nat /\ Track(carried)[1] \in Nat /\ config.batchQueue.blockFloor \in Nat
    BY TrackNumbers DEF Typed, SaveOK, MetaOK, ColdOK, Track
  <2>3. TrackFits(Track(save), Track(carried), clock')
    <3>. DEFINE t == Track(save)
                f == Track(carried)
                n == (t[3] - f[3] - Slack(f)) * config.batchQueue.blockFloor <= t[1] - f[1]
                floor == config.batchQueue.blockFloor
    <3>1. /\ n /\ t[1] <= clock /\ f[1] <= clock
          /\ t[2] = Blocks => \/ t[1] + floor <= clock
                              \/ Slack(f) = 1 /\ t[3] = f[3]
      BY DEF TrackHeld, TrackFits
    <3>. HIDE DEF t, f, n, floor
    <3>2. /\ n /\ t[1] <= clock' /\ f[1] <= clock'
          /\ t[2] = Blocks => \/ t[1] + floor <= clock'
                              \/ Slack(f) = 1 /\ t[3] = f[3]
      BY <1>0, <2>1, <2>2, <3>1 DEF t, f, floor
    <3>. QED
      BY <3>2 DEF TrackFits, n, t, f, floor
  <2>. QED
    BY <2>1, <2>3 DEF TrackHeld, TrackFits, config, Slack, Track
<1>. QED
  BY <1>1, <1>2, <1>3, <1>4, StepIs

(***************************************************************************)
(* A streak was claimed day by day.                                        *)
(***************************************************************************)
StreakHeld(streak, days) ==
    streak.lastClaimDate # None => \A k \in 0 .. streak.count - 1 : streak.lastClaimDate - k \in days

\* The days a streak stands for, as the invariant has them.
LEMMA StreakDaysAre ==
    ASSUME NEW streak, NEW days
    PROVE  (DaysOf(streak) \subseteq days) <=> StreakHeld(streak, days)
  BY DEF DaysOf, StreakHeld

\* No streak, no days.
LEMMA StreakFresh ==
    ASSUME NEW s, NEW now, Fresh(s, now), NEW days
    PROVE  StreakHeld(s.meta.streak, days)
  BY DEF Fresh, StreakHeld

\* The next day of a streak, or the first.
LEMMA StreakNext ==
    ASSUME Typed, StreakHeld(save.meta.streak, streakDays), StreakMoves
    PROVE  StreakHeld(save'.meta.streak, streakDays')
<1>. DEFINE streak == save.meta.streak
            today == UtcDateKey(clock)
            n == NextStreakCount(streak, today)
<1>1. CASE save'.meta.streak = streak /\ streakDays' = streakDays
  BY <1>1
<1>2. CASE /\ save'.meta.streak = [count |-> n, lastClaimDate |-> today]
           /\ streakDays' = streakDays \cup {today}
  <2>1. today \in Int
    BY ClockAssumption DEF Typed, UtcDateKey, Positive
  <2>2. streak.count \in Nat
    BY DEF Typed, SaveOK, MetaOK, StreakOK
  <2>3. config.social.streakMaxDay \in Int
    BY ConfigOK DEF Typed, ValidConfigs, Positive
  <2>4. ASSUME NEW k \in 0 .. n - 1 PROVE today - k \in streakDays \cup {today}
    <3>1. CASE k = 0
      BY <2>1, <3>1
    <3>2. CASE k # 0
      <4>1. streak.lastClaimDate # None /\ today = streak.lastClaimDate + 1
        BY <2>4, <3>2 DEF NextStreakCount
      <4>2. n <= streak.count + 1 /\ n \in Int
        BY <2>2, <2>3, <4>1 DEF NextStreakCount, Smaller
      <4>3. streak.lastClaimDate \in Int
        BY <4>1 DEF Typed, SaveOK, MetaOK, StreakOK
      <4>. HIDE DEF n
      <4>4. k - 1 \in 0 .. streak.count - 1 /\ today - k = streak.lastClaimDate - (k - 1)
        BY <2>1, <2>2, <2>4, <3>2, <4>1, <4>2, <4>3
      <4>. QED
        BY <4>1, <4>4 DEF StreakHeld
    <3>. QED
      BY <3>1, <3>2
  <2>. HIDE DEF n, today
  <2>. QED
    BY <1>2, <2>4 DEF StreakHeld
<1>. QED
  BY <1>1, <1>2 DEF StreakMoves

\* So the streak stays earned.
LEMMA StreakStepIs ==
    ASSUME Typed, Untouched, StreakIsEarned, [Next]_vars
    PROVE  StreakIsEarned'
<1>0. StreakHeld(save.meta.streak, streakDays)
  BY StreakDaysAre DEF StreakIsEarned
<1>1. StreakHeld(save'.meta.streak, streakDays')
  <2>1. ASSUME NEW K, NEW scheduled, Loads(K, scheduled) PROVE StreakHeld(save'.meta.streak, streakDays')
    <3>1. streakDays' = streakDays /\ save'.meta.streak = K.meta.streak
      BY <2>1 DEF Loads, Step, Keeps, Parts
    <3>2. K.meta.streak = save.meta.streak
      BY <2>1 DEF Loads, Reads, Step, Keeps, Parts
    <3>. QED
      BY <1>0, <3>1, <3>2
  <2>2. CASE Moves
    BY <1>0, <2>2, StreakNext DEF Moves
  <2>3. CASE Resets
    BY <2>3, StreakFresh DEF Resets
  <2>4. CASE Waits
    BY <1>0, <2>4 DEF Waits, historyVars
  <2>. QED
    BY <2>1, <2>2, <2>3, <2>4, StepIs
<1>2. PICK streak, days : streak = save'.meta.streak /\ days = streakDays'
  OBVIOUS
<1>3. DaysOf(streak) \subseteq days
  BY <1>1, <1>2, StreakDaysAre
<1>4. DaysOf(save'.meta.streak) \subseteq streakDays'
  BY <1>2, <1>3
<1>. QED
  BY <1>4 DEF StreakIsEarned, DaysOf

(***************************************************************************)
(* The most cores ever held.                                               *)
(***************************************************************************)
PeakHeld(cores, best, p) == p \in {best, cores} /\ best <= p /\ cores <= p

\* Cores are counts.
LEMMA PeakOK ==
    ASSUME NEW s, NEW now, SaveOK(s, now)
    PROVE  s.meta.legacyCores \in Nat /\ s.meta.stats["bestLegacyCores"] \in Nat
  BY DEF SaveOK, MetaOK, Counters

\* The record, or what is held, is the peak.
LEMMA PeakStepIs ==
    ASSUME Typed, Untouched, PeakHeld(save.meta.legacyCores, save.meta.stats["bestLegacyCores"], peak), [Next]_vars
    PROVE  PeakHeld(save.meta.legacyCores, save.meta.stats["bestLegacyCores"], peak)'
<1>0. save.meta.legacyCores \in Nat /\ save.meta.stats["bestLegacyCores"] \in Nat
  BY PeakOK DEF Typed
<1>. DEFINE Goal == PeakHeld(save'.meta.legacyCores, save'.meta.stats["bestLegacyCores"], peak')
<1>1. ASSUME NEW K, NEW scheduled, Loads(K, scheduled) PROVE Goal
  <2>1. /\ save'.meta.legacyCores = K.meta.legacyCores
        /\ save'.meta.stats["bestLegacyCores"] = Larger(K.meta.stats["bestLegacyCores"], K.meta.legacyCores)
        /\ peak' = peak
    BY <1>1 DEF Loads, Cores
  <2>2. K.meta.legacyCores \in Nat /\ K.meta.stats["bestLegacyCores"] \in Nat
    BY <1>1, PeakOK DEF Loads, Reads
  <2>3. PeakHeld(K.meta.legacyCores, K.meta.stats["bestLegacyCores"], peak)
    <3>1. Cores(K) = Cores(save)
      BY <1>1 DEF Loads, Reads, Step, Keeps, Parts
    <3>. QED
      BY <3>1 DEF Cores
  <2>. QED
    BY <2>1, <2>2, <2>3 DEF PeakHeld, Larger
<1>2. CASE Moves
  <2>1. CoresMove /\ SaveOK(save', clock)
    BY <1>2 DEF Moves, Checked
  <2>2. save'.meta.legacyCores \in Nat /\ save'.meta.stats["bestLegacyCores"] \in Nat
    <3>1. PICK y : y = save'
      OBVIOUS
    <3>2. SaveOK(y, clock)
      BY <2>1, <3>1
    <3>. QED
      BY <3>1, <3>2, PeakOK
  <2>. QED
    BY <1>0, <2>1, <2>2 DEF CoresMove, Cores, PeakHeld, Larger
<1>3. CASE Resets
  BY <1>3 DEF Resets, Fresh, PeakHeld
<1>4. CASE Waits
  BY <1>4 DEF Waits, historyVars
<1>. QED
  BY <1>1, <1>2, <1>3, <1>4, StepIs

(***************************************************************************)
(* What is met is held.                                                    *)
(***************************************************************************)
MetHeld == lastSave = clock => AchievementsMet(save, clock) \subseteq save.meta.achievements

\* Where the clock stands still, so does what achievements ask for.
LEMMA MetAgain ==
    ASSUME player' = player, clock' = clock
    PROVE  AchievementsMet(save, clock)' = AchievementsMet(save', clock)
  BY Zenon DEF AchievementsMet, Metric, TotalOutputPerSec, LaneOutput, TierRate, MilestoneThresholds, BoostMult, OverclockBonus,
               Frozen, config

\* After a load, whatever is met is held.
LEMMA MetStep ==
    ASSUME Typed, Untouched, MetHeld, [Next]_vars
    PROVE  MetHeld'
<1>1. ASSUME player' = player, clock' = clock, AchievementsMet(save', clock) \subseteq save'.meta.achievements
      PROVE  MetHeld'
  BY <1>1, MetAgain DEF MetHeld
<1>2. ASSUME NEW K, NEW scheduled, Loads(K, scheduled) PROVE MetHeld'
  BY <1>1, <1>2 DEF Loads
<1>3. CASE Moves /\ UNCHANGED <<player, clock, lastSave>>
  BY <1>1, <1>3 DEF Moves, Checked
<1>4. CASE Resets /\ UNCHANGED <<player, clock, lastSave>>
  BY <1>1, <1>4 DEF Resets, Checked
<1>5. CASE Waits
  <2>1. CASE clock' = clock
    BY <1>1, <1>5, <2>1 DEF Waits, MetHeld
  <2>2. CASE clock' # clock
    <3>1. clock' = clock + 1 /\ lastSave' = lastSave /\ clock \in Int
      BY <1>5, <2>2 DEF Waits, Typed
    <3>2. lastSave # None => lastSave \in Int /\ lastSave <= clock
      BY <3>1, ClockAssumption DEF Typed, Positive
    <3>3. lastSave' # clock'
      BY <3>1, <3>2, ClockAssumption
    <3>. QED
      BY <3>3 DEF MetHeld
  <2>. QED
    BY <2>1, <2>2
<1>. QED
  BY <1>2, <1>3, <1>4, <1>5, StepIs

(***************************************************************************)
(* Jobs take time away.                                                    *)
(***************************************************************************)
Duration(type) == config.batchQueue.jobs[type].duration
DoneTime(n, d) == d * Duration("deep") + (n - d) * Duration("defrag")

\* The time of the jobs done and of the one in progress.
TimeOf(s) ==
    DoneTime(s.meta.stats["jobsCompletedLifetime"], s.meta.stats["deepJobsCompletedLifetime"])
        + IF s.meta.coldStorage.job = None THEN 0 ELSE s.meta.coldStorage.job.accruedOfflineSec

JobsHeld == awayWork \in Nat /\ TimeOf(save) <= TimeOf(carried) + awayWork

\* What the invariant says of jobs is the property.
LEMMA JobsHeldIs == JobsHeld => JobsTakeAway
<1>1. \A s : JobWork(s) = TimeOf(s)
  BY DEF JobWork, TimeOf, DoneTime, Duration
<1>. QED
  BY <1>1 DEF JobsHeld, JobsTakeAway

\* Jobs have a duration.
LEMMA DurationNat ==
    ASSUME PlayerOK
    PROVE  Duration("deep") \in Nat /\ Duration("defrag") \in Nat
  BY JobTypesAre DEF Duration

\* One job more.
LEMMA DoneTimeInt ==
    ASSUME PlayerOK, NEW n \in Nat, NEW d \in Nat
    PROVE  /\ DoneTime(n, d) \in Int
           /\ DoneTime(n + 1, d + 1) = DoneTime(n, d) + Duration("deep")
           /\ DoneTime(n + 1, d) = DoneTime(n, d) + Duration("defrag")
<1>. DEFINE a == Duration("deep")
            b == Duration("defrag")
            x == d * a
            y == (n - d) * b
<1>1. a \in Nat /\ b \in Nat
  BY DurationNat
<1>. HIDE DEF a, b
<1>2. x \in Int /\ y \in Int
  BY <1>1
<1>3. (d + 1) * a = x + a
  BY <1>1
<1>4. (n + 1 - d) * b = y + b
  <2>1. n + 1 - d = (n - d) + 1 /\ n - d \in Int
    OBVIOUS
  <2>2. \A k \in Int : (k + 1) * b = k * b + b
    BY <1>1
  <2>. QED
    BY <2>1, <2>2
<1>5. (n + 1) - (d + 1) = n - d
  OBVIOUS
<1>6. DoneTime(n, d) = x + y
  BY DEF DoneTime, a, b
<1>7. DoneTime(n + 1, d + 1) = (d + 1) * a + y
  BY <1>5 DEF DoneTime, a, b
<1>8. DoneTime(n + 1, d) = x + (n + 1 - d) * b
  BY DEF DoneTime, a, b
<1>. HIDE DEF x, y
<1>. QED
  BY <1>1, <1>2, <1>3, <1>4, <1>6, <1>7, <1>8 DEF a, b

\* The job's counters.
LEMMA CountsOf ==
    ASSUME NEW s, NEW now, SaveOK(s, now)
    PROVE  /\ s.meta.stats["jobsCompletedLifetime"] \in Nat /\ s.meta.stats["deepJobsCompletedLifetime"] \in Nat
           /\ s.meta.coldStorage.job # None =>
                  s.meta.coldStorage.job.accruedOfflineSec \in Nat /\ s.meta.coldStorage.job.type \in {"defrag", "deep"}
  BY DEF SaveOK, MetaOK, Counters, ColdOK, JobOK

\* An accrual.
LEMMA TimeAfter ==
    ASSUME PlayerOK, NEW s, NEW x, NEW now, SaveOK(s, now), SaveOK(x, now), NEW n \in Nat, Worked(s, x, n)
    PROVE  TimeOf(s) \in Int /\ TimeOf(x) \in Int /\ TimeOf(x) <= TimeOf(s) + n
<1>. DEFINE D == DoneTime(s.meta.stats["jobsCompletedLifetime"], s.meta.stats["deepJobsCompletedLifetime"])
            was == IF s.meta.coldStorage.job = None THEN 0 ELSE s.meta.coldStorage.job.accruedOfflineSec
            is == IF x.meta.coldStorage.job = None THEN 0 ELSE x.meta.coldStorage.job.accruedOfflineSec
<1>1. D \in Int
  BY CountsOf, DoneTimeInt
<1>2. TimeOf(s) = D + was /\ TimeOf(x) = D + is
  BY DEF TimeOf, Worked
<1>3. was \in Nat /\ is \in Nat
  BY CountsOf
<1>4. is <= was + n
  BY <1>3 DEF Worked
<1>. HIDE DEF D, was, is
<1>. QED
  BY <1>1, <1>2, <1>3, <1>4

\* The time jobs stand for is a number.
LEMMA TimeInt ==
    ASSUME PlayerOK, NEW s, NEW now, SaveOK(s, now)
    PROVE  TimeOf(s) \in Int
<1>1. Worked(s, s, 0)
  BY KeepsWorking
<1>. QED
  BY <1>1, TimeAfter

\* What an action does to the time of the jobs: none adds to it.
LEMMA WorkNext ==
    ASSUME Typed, NEW x, SaveOK(x, clock), x = save', WorkMoves
    PROVE  TimeOf(save) \in Int /\ TimeOf(x) \in Int /\ TimeOf(x) <= TimeOf(save)
<1>. DEFINE job == save.meta.coldStorage.job
            n == save.meta.stats["jobsCompletedLifetime"]
            d == save.meta.stats["deepJobsCompletedLifetime"]
            was == IF job = None THEN 0 ELSE job.accruedOfflineSec
            D == DoneTime(n, d)
<1>1. PlayerOK /\ SaveOK(save, clock)
  BY DEF Typed
<1>2. n \in Nat /\ d \in Nat /\ was \in Nat
  BY <1>1, CountsOf
<1>3. /\ D \in Int /\ DoneTime(n + 1, d + 1) = D + Duration("deep") /\ DoneTime(n + 1, d) = D + Duration("defrag")
      /\ Duration("deep") \in Nat /\ Duration("defrag") \in Nat
  BY <1>1, <1>2, DoneTimeInt, DurationNat
<1>4. TimeOf(save) = D + was
  BY DEF TimeOf
<1>5. \/ Work(x) = Work(save)
      \/ \E new : (new # None => new.accruedOfflineSec = 0) /\ Work(x) = <<new, n, d>>
      \/ /\ job # None /\ job.type \in {"defrag", "deep"} /\ job.accruedOfflineSec >= Duration(job.type)
         /\ Work(x) = <<None, n + 1, d + IF job.type = "deep" THEN 1 ELSE 0>>
  BY <1>1, JobTypesAre DEF WorkMoves, Duration
<1>6. CASE Work(x) = Work(save)
  <2>1. TimeOf(x) = TimeOf(save)
    BY <1>6 DEF Work, TimeOf
  <2>. HIDE DEF was, D
  <2>. QED
    BY <1>2, <1>3, <1>4, <2>1
<1>7. CASE \E new : (new # None => new.accruedOfflineSec = 0) /\ Work(x) = <<new, n, d>>
  <2>1. TimeOf(x) = D + 0
    BY <1>7 DEF Work, TimeOf
  <2>. HIDE DEF was, D
  <2>. QED
    BY <1>2, <1>3, <1>4, <2>1
<1>8. CASE /\ job # None /\ job.type \in {"defrag", "deep"} /\ job.accruedOfflineSec >= Duration(job.type)
           /\ Work(x) = <<None, n + 1, d + IF job.type = "deep" THEN 1 ELSE 0>>
  <2>1. was >= Duration(job.type)
    BY <1>8
  <2>2. CASE job.type = "deep"
    <3>1. TimeOf(x) = DoneTime(n + 1, d + 1) + 0
      BY <1>8, <2>2 DEF Work, TimeOf
    <3>2. was >= Duration("deep")
      BY <2>1, <2>2
    <3>. HIDE DEF was, D
    <3>. QED
      BY <1>2, <1>3, <1>4, <3>1, <3>2
  <2>3. CASE job.type = "defrag"
    <3>1. TimeOf(x) = DoneTime(n + 1, d) + 0
      <4>1. Work(x) = <<None, n + 1, d + 0>> /\ d + 0 = d
        BY <1>2, <1>8, <2>3
      <4>. QED
        BY <4>1 DEF Work, TimeOf
    <3>2. was >= Duration("defrag")
      BY <2>1, <2>3
    <3>. HIDE DEF was, D
    <3>. QED
      BY <1>2, <1>3, <1>4, <3>1, <3>2
  <2>. QED
    BY <1>8, <2>2, <2>3
<1>. QED
  BY <1>5, <1>6, <1>7, <1>8

\* A load pays the job for the time away, and the history counts it.
LEMMA WorkLoads ==
    ASSUME Typed, Untouched, JobsHeld, NEW K, NEW scheduled, Loads(K, scheduled)
    PROVE  awayWork' \in Nat /\ \A x : x = save' => TimeOf(x) <= TimeOf(carried) + awayWork'
<1>. DEFINE base == TimeOf(carried)
            last == IF lastSave = None THEN clock ELSE lastSave
            rate == OfflineJobRate(save)
            away == IF Online(last, clock) THEN 0 ELSE (clock - last) * rate
<1>1. PlayerOK /\ SaveOK(save, clock) /\ SaveOK(K, clock) /\ awayWork \in Nat /\ TimeOf(save) <= base + awayWork
      /\ base \in Int
  BY TimeInt DEF Typed, Loads, Reads, JobsHeld
<1>2. OfflineJobRate(K) = rate
  <2>1. Tapes(K) = Tapes(save)
    BY DEF Loads, Reads, Step, Keeps, Parts
  <2>2. K.meta.coldStorage.upgrades = save.meta.coldStorage.upgrades
    BY <2>1 DEF Tapes
  <2>. QED
    BY <2>2 DEF OfflineJobRate, ColdLevel
<1>3. rate \in Nat
  BY <1>1, DefsAssumption DEF OfflineJobRate, ColdLevel, SaveOK, MetaOK, ColdOK
<1>4. clock - last \in Nat
  BY DEF Loads
<1>5. away \in Nat
  <2>. HIDE DEF rate, last
  <2>1. (clock - last) * rate \in Nat
    BY <1>3, <1>4, Products
  <2>. QED
    BY <2>1
<1>6. Worked(K, save', away) /\ awayWork' = awayWork + away /\ SaveOK(save', clock)
  <2>1. Worked(K, save', IF Online(last, clock) THEN 0 ELSE (clock - last) * OfflineJobRate(K))
    BY DEF Loads
  <2>2. awayWork' = awayWork + away /\ SaveOK(save', clock)
    BY DEF Loads, Step
  <2>. QED
    BY <1>2, <2>1, <2>2
<1>. HIDE DEF away
<1>7. TimeOf(K) \in Int /\ TimeOf(K) <= base + awayWork
  <2>1. Work(K) = Work(save)
    BY DEF Loads, Reads, Step, Keeps, Parts
  <2>2. TimeOf(K) = TimeOf(save)
    BY <2>1 DEF Work, TimeOf
  <2>. QED
    BY <1>1, <2>2, TimeInt
<1>. HIDE DEF base
<1>8. PICK x : x = save'
  OBVIOUS
<1>9. TimeOf(x) \in Int /\ TimeOf(x) <= TimeOf(K) + away
  <2>1. Worked(K, x, away) /\ SaveOK(x, clock)
    BY <1>6, <1>8
  <2>. QED
    BY <1>1, <1>5, <2>1, TimeAfter
<1>10. TimeOf(x) <= base + awayWork'
  BY <1>1, <1>5, <1>6, <1>7, <1>9
<1>. QED
  BY <1>1, <1>5, <1>6, <1>8, <1>10 DEF base

\* So jobs stay covered by time away.
LEMMA JobsStep ==
    ASSUME Typed, Untouched, JobsHeld, [Next]_vars
    PROVE  JobsHeld'
<1>0. PlayerOK /\ awayWork \in Nat /\ TimeOf(save) <= TimeOf(carried) + awayWork /\ TimeOf(carried) \in Int
  BY TimeInt DEF Typed, JobsHeld
<1>1. ASSUME awayWork' \in Nat, player' = player,
             \A x, c : x = save' /\ c = carried' => TimeOf(x) <= TimeOf(c) + awayWork'
      PROVE  JobsHeld'
  BY <1>1 DEF JobsHeld, TimeOf, DoneTime, Duration, config
<1>2. ASSUME NEW K, NEW scheduled, Loads(K, scheduled) PROVE JobsHeld'
  <2>1. player' = player /\ carried' = carried
    BY <1>2 DEF Loads
  <2>. QED
    BY <1>1, <1>2, <2>1, WorkLoads
<1>3. CASE Moves /\ UNCHANGED <<player, clock, lastSave>>
  <2>1. WorkMoves /\ awayWork' = awayWork /\ SaveOK(save', clock) /\ carried' = carried
    BY <1>3 DEF Moves, Checked, WorkMoves
  <2>2. ASSUME NEW x, x = save' PROVE TimeOf(x) <= TimeOf(carried) + awayWork'
    <3>1. SaveOK(x, clock)
      BY <2>1, <2>2
    <3>2. TimeOf(save) \in Int /\ TimeOf(x) \in Int /\ TimeOf(x) <= TimeOf(save)
      BY <2>1, <2>2, <3>1, WorkNext
    <3>. QED
      BY <1>0, <2>1, <3>2
  <2>. QED
    BY <1>0, <1>1, <1>3, <2>1, <2>2
<1>4. CASE Resets /\ UNCHANGED <<player, clock, lastSave>>
  <2>1. awayWork' = awayWork /\ carried' = save' /\ SaveOK(save', clock)
    BY <1>4 DEF Resets, Checked
  <2>2. ASSUME NEW x, x = save' PROVE TimeOf(x) <= TimeOf(x) + awayWork'
    <3>1. SaveOK(x, clock)
      BY <2>1, <2>2
    <3>2. TimeOf(x) \in Int
      BY <1>0, <3>1, TimeInt
    <3>. QED
      BY <1>0, <2>1, <3>2
  <2>. QED
    BY <1>0, <1>1, <1>4, <2>1, <2>2
<1>5. CASE Waits
  BY <1>0, <1>1, <1>5 DEF Waits, historyVars
<1>. QED
  BY <1>2, <1>3, <1>4, <1>5, StepIs

(***************************************************************************)
(* Balances add up.                                                        *)
(***************************************************************************)

\* Two sums whose terms differ in one place.
LEMMA SumsDiffer ==
    ASSUME NEW f, NEW g, IntSum(f), IntSum(g), DOMAIN g = DOMAIN f, NEW x \in DOMAIN f,
           \A i \in DOMAIN f \ {x} : g[i] = f[i]
    PROVE  SumFunction(g) = SumFunction(f) + g[x] - f[x]
<1>1. Rest(g, x) = Rest(f, x)
  BY DEF Rest
<1>2. IntSum(Rest(f, x)) /\ SumFunction(f) = f[x] + SumFunction(Rest(f, x)) /\ SumFunction(g) = g[x] + SumFunction(Rest(f, x))
  BY <1>1, SumSplit
<1>3. SumFunction(Rest(f, x)) \in Int /\ f[x] \in Int /\ g[x] \in Int
  BY <1>2, SumInt DEF IntSum, IntsOn
<1>. QED
  BY <1>2, <1>3

\* One term more.
LEMMA SumOneMore ==
    ASSUME NEW m \in Int, NEW n \in Int, m <= n, NEW f, DOMAIN f = m .. n, \A i \in m .. n : f[i] \in Int
    PROVE  SumFunction(f) = SumFunction([i \in m .. n - 1 |-> f[i]]) + f[n]
<1>1. IntSum(f)
  BY FS_Interval DEF IntSum, IntsOn
<1>2. n \in DOMAIN f /\ (m .. n) \ {n} = m .. n - 1
  OBVIOUS
<1>3. Rest(f, n) = [i \in m .. n - 1 |-> f[i]]
  BY <1>2 DEF Rest
<1>4. IntSum(Rest(f, n)) /\ SumFunction(f) = f[n] + SumFunction(Rest(f, n))
  BY <1>1, <1>2, SumSplit
<1>5. SumFunction(Rest(f, n)) \in Int /\ f[n] \in Int
  BY <1>4, SumInt
<1>. QED
  BY <1>3, <1>4, <1>5

SpentOn(defs, levels) == SumFunction([id \in DOMAIN defs |-> Spent(defs[id], levels[id])])

\* What one upgrade's levels cost.
LEMMA SpentNat ==
    ASSUME NEW defs, Shop(defs), NEW id \in DOMAIN defs, NEW level \in Nat
    PROVE  /\ Spent(defs[id], level) \in Nat /\ Spent(defs[id], 0) = 0
           /\ Spent(defs[id], level + 1) = Spent(defs[id], level) + UpgradeCost(defs[id], level)
<1>. DEFINE f == [l \in 0 .. level |-> UpgradeCost(defs[id], l)]
            e == [l \in 0 .. level - 1 |-> UpgradeCost(defs[id], l)]
            z == [l \in 0 .. 0 - 1 |-> UpgradeCost(defs[id], l)]
<1>1. \A l \in Nat : UpgradeCost(defs[id], l) \in Nat
  BY ShopCost
<1>2. DOMAIN f = 0 .. level /\ \A i \in 0 .. level : f[i] \in Int
  BY <1>1
<1>3. IsFiniteSet(DOMAIN e) /\ \A i \in DOMAIN e : e[i] \in Nat
  <2>1. IsFiniteSet(0 .. level - 1)
    BY FS_Interval
  <2>. QED
    BY <1>1, <2>1
<1>4. DOMAIN z = {}
  OBVIOUS
<1>5. [i \in 0 .. level - 1 |-> f[i]] = e /\ f[level] = UpgradeCost(defs[id], level)
  OBVIOUS
<1>6. Spent(defs[id], level) = SumFunction(e) /\ Spent(defs[id], 0) = SumFunction(z)
  BY DEF Spent
<1>7. Spent(defs[id], level + 1) = SumFunction(f)
  <2>1. 0 .. (level + 1) - 1 = 0 .. level
    OBVIOUS
  <2>. QED
    BY <2>1 DEF Spent
<1>. HIDE DEF f, e, z
<1>8. SumFunction(f) = SumFunction([i \in 0 .. level - 1 |-> f[i]]) + f[level]
  BY <1>2, SumOneMore
<1>9. SumFunction(e) \in Nat
  BY <1>3, SumNat
<1>10. SumFunction(z) = 0
  BY <1>4, SumOfNone
<1>. QED
  BY <1>5, <1>6, <1>7, <1>8, <1>9, <1>10

\* What a purchase adds to what was spent.
LEMMA SpentMore ==
    ASSUME NEW defs, Shop(defs), NEW levels \in [DOMAIN defs -> Nat], NEW id \in DOMAIN defs
    PROVE  SpentOn(defs, [levels EXCEPT ![id] = @ + 1]) = SpentOn(defs, levels) + UpgradeCost(defs[id], levels[id])
           /\ SpentOn(defs, levels) \in Int
<1>. DEFINE more == [levels EXCEPT ![id] = @ + 1]
            f == [i \in DOMAIN defs |-> Spent(defs[i], levels[i])]
            g == [i \in DOMAIN defs |-> Spent(defs[i], more[i])]
            cost == UpgradeCost(defs[id], levels[id])
<1>1. more \in [DOMAIN defs -> Nat] /\ more[id] = levels[id] + 1 /\ \A i \in DOMAIN defs \ {id} : more[i] = levels[i]
  OBVIOUS
<1>2. IsFiniteSet(DOMAIN defs)
  BY DEF Shop
<1>. HIDE DEF more
<1>3. IntSum(f) /\ IntSum(g)
  BY <1>1, <1>2, SpentNat DEF IntSum, IntsOn
<1>4. DOMAIN g = DOMAIN f /\ id \in DOMAIN f /\ \A i \in DOMAIN f \ {id} : g[i] = f[i]
  BY <1>1
<1>5. g[id] = f[id] + cost
  BY <1>1, SpentNat
<1>6. f[id] \in Int /\ g[id] \in Int /\ cost \in Int
  BY <1>1, SpentNat, ShopCost
<1>7. SpentOn(defs, more) = SumFunction(g) /\ SpentOn(defs, levels) = SumFunction(f)
  BY DEF SpentOn
<1>. HIDE DEF f, g, cost
<1>8. SumFunction(g) = SumFunction(f) + g[id] - f[id] /\ SumFunction(f) \in Int
  BY <1>3, <1>4, SumsDiffer, SumInt
<1>. QED
  BY <1>5, <1>6, <1>7, <1>8 DEF more, cost

\* A climb in two parts.
LEMMA ClimbsAdd ==
    ASSUME PlayerOK, NEW from \in Nat, NEW to \in Nat, from <= to
    PROVE  Climbed(0, from) + Climbed(from, to) = Climbed(0, to)
<1>1. ASSUME NEW m \in Nat, NEW n \in Nat, m <= n PROVE Climbed(m, n + 1) = Climbed(m, n) + XpForLevel(n)
  <2>. DEFINE f == [l \in m .. n |-> XpForLevel(l)]
  <2>1. DOMAIN f = m .. n /\ \A i \in m .. n : f[i] \in Int
    <3>1. \A i \in m .. n : i \in Nat
      OBVIOUS
    <3>. QED
      BY <3>1, XpNat
  <2>2. [i \in m .. n - 1 |-> f[i]] = [i \in m .. n - 1 |-> XpForLevel(i)] /\ f[n] = XpForLevel(n)
    BY <1>1
  <2>3. (n + 1) - 1 = n
    OBVIOUS
  <2>4. Climbed(m, n + 1) = SumFunction(f)
    BY <2>3 DEF Climbed
  <2>. HIDE DEF f
  <2>5. SumFunction(f) = SumFunction([i \in m .. n - 1 |-> f[i]]) + f[n]
    BY <1>1, <2>1, SumOneMore
  <2>. QED
    BY <2>2, <2>4, <2>5 DEF Climbed
<1>. DEFINE Good(n) == Climbed(0, from) + Climbed(from, from + n) = Climbed(0, from + n)
            Ns == {n \in Nat : Good(n)}
<1>2. 0 \in Ns
  <2>1. Climbed(from, from) = 0 /\ Climbed(0, from) \in Nat /\ from + 0 = from
    BY ClimbedNat
  <2>. QED
    BY <2>1
<1>3. ASSUME NEW n \in Ns PROVE n + 1 \in Ns
  <2>. DEFINE k == from + n
  <2>1. k \in Nat /\ from <= k /\ 0 <= k /\ from + (n + 1) = k + 1
    OBVIOUS
  <2>2. Climbed(0, from) + Climbed(from, k) = Climbed(0, k)
    OBVIOUS
  <2>. HIDE DEF k
  <2>3. Climbed(from, k + 1) = Climbed(from, k) + XpForLevel(k) /\ Climbed(0, k + 1) = Climbed(0, k) + XpForLevel(k)
    BY <1>1, <2>1
  <2>4. Climbed(0, from) \in Nat /\ Climbed(from, k) \in Nat /\ XpForLevel(k) \in Nat
    BY <2>1, ClimbedNat, XpNat
  <2>5. Climbed(0, from) + Climbed(from, k + 1) = Climbed(0, k + 1)
    BY <2>2, <2>3, <2>4
  <2>. QED
    BY <2>1, <2>5
<1>4. Ns = Nat
  <2>. HIDE DEF Good
  <2>1. Ns \subseteq Nat
    OBVIOUS
  <2>. HIDE DEF Ns
  <2>. QED
    BY <1>2, <1>3, <2>1, AllNumbers
<1>. DEFINE n == to - from
<1>5. n \in Nat /\ from + n = to
  OBVIOUS
<1>. HIDE DEF n
<1>6. n \in Ns
  BY <1>4, <1>5
<1>. QED
  BY <1>5, <1>6

GoalsPaid(goals) == SumFunction([id \in goals |-> GoalDefs[id].xp])
PaidOn(levels) == SumFunction([id \in DOMAIN RepeatableDefs |-> Paid(RepeatableDefs[id], levels[id])])

\* One goal more.
LEMMA GoalsPaidMore ==
    ASSUME NEW goals \in SUBSET DOMAIN GoalDefs, NEW id \in DOMAIN GoalDefs, id \notin goals
    PROVE  /\ GoalsPaid(goals) \in Int /\ GoalDefs[id].xp \in Nat
           /\ GoalsPaid(goals \cup {id}) = GoalsPaid(goals) + GoalDefs[id].xp
<1>. DEFINE f == [i \in goals \cup {id} |-> GoalDefs[i].xp]
<1>1. IsFiniteSet(goals \cup {id})
  BY DefsAssumption, FS_Subset
<1>2. IntSum(f) /\ id \in DOMAIN f
  BY <1>1, DefsAssumption DEF IntSum, IntsOn
<1>3. Rest(f, id) = [i \in goals |-> GoalDefs[i].xp]
  <2>1. (goals \cup {id}) \ {id} = goals
    OBVIOUS
  <2>. QED
    BY <2>1 DEF Rest
<1>4. f[id] = GoalDefs[id].xp
  OBVIOUS
<1>5. GoalsPaid(goals \cup {id}) = SumFunction(f)
  BY DEF GoalsPaid
<1>. HIDE DEF f
<1>6. IntSum(Rest(f, id)) /\ SumFunction(f) = f[id] + SumFunction(Rest(f, id))
  BY <1>2, SumSplit
<1>7. SumFunction(Rest(f, id)) \in Int
  BY <1>6, SumInt
<1>8. GoalDefs[id].xp \in Nat
  BY DefsAssumption
<1>. QED
  BY <1>3, <1>4, <1>5, <1>6, <1>7, <1>8 DEF GoalsPaid

\* What one repeatable's levels paid.
LEMMA PaidNat ==
    ASSUME NEW id \in DOMAIN RepeatableDefs, NEW level \in Nat
    PROVE  /\ Paid(RepeatableDefs[id], level) \in Nat /\ Paid(RepeatableDefs[id], 0) = 0
           /\ RepeatablePay(RepeatableDefs[id], level) \in Nat
           /\ Paid(RepeatableDefs[id], level + 1)
                = Paid(RepeatableDefs[id], level) + RepeatablePay(RepeatableDefs[id], level)
<1>. DEFINE def == RepeatableDefs[id]
            f == [l \in 0 .. level |-> RepeatablePay(def, l)]
            e == [l \in 0 .. level - 1 |-> RepeatablePay(def, l)]
            z == [l \in 0 .. 0 - 1 |-> RepeatablePay(def, l)]
<1>1. \A l \in Nat : RepeatablePay(def, l) \in Nat
  <2>1. def.pay \in Nat /\ def.perLevel \in Nat
    BY DefsAssumption
  <2>. HIDE DEF def
  <2>. QED
    BY <2>1, Counts DEF RepeatablePay
<1>. HIDE DEF def
<1>2. DOMAIN f = 0 .. level /\ \A i \in 0 .. level : f[i] \in Int
  BY <1>1
<1>3. IsFiniteSet(DOMAIN e) /\ \A i \in DOMAIN e : e[i] \in Nat
  <2>1. IsFiniteSet(0 .. level - 1)
    BY FS_Interval
  <2>. QED
    BY <1>1, <2>1
<1>4. DOMAIN z = {}
  OBVIOUS
<1>5. [i \in 0 .. level - 1 |-> f[i]] = e /\ f[level] = RepeatablePay(def, level)
  OBVIOUS
<1>6. Paid(def, level) = SumFunction(e) /\ Paid(def, 0) = SumFunction(z)
  BY DEF Paid
<1>7. Paid(def, level + 1) = SumFunction(f)
  <2>1. 0 .. (level + 1) - 1 = 0 .. level
    OBVIOUS
  <2>. QED
    BY <2>1 DEF Paid
<1>. HIDE DEF f, e, z
<1>8. SumFunction(f) = SumFunction([i \in 0 .. level - 1 |-> f[i]]) + f[level]
  BY <1>2, SumOneMore
<1>9. SumFunction(e) \in Nat
  BY <1>3, SumNat
<1>10. SumFunction(z) = 0
  BY <1>4, SumOfNone
<1>. QED
  BY <1>1, <1>5, <1>6, <1>7, <1>8, <1>9, <1>10 DEF def

\* One repeatable level more.
LEMMA PaidMore ==
    ASSUME NEW levels \in [DOMAIN RepeatableDefs -> Nat], NEW id \in DOMAIN RepeatableDefs
    PROVE  /\ PaidOn([levels EXCEPT ![id] = @ + 1]) = PaidOn(levels) + RepeatablePay(RepeatableDefs[id], levels[id])
           /\ PaidOn(levels) \in Int
<1>. DEFINE more == [levels EXCEPT ![id] = @ + 1]
            f == [i \in DOMAIN RepeatableDefs |-> Paid(RepeatableDefs[i], levels[i])]
            g == [i \in DOMAIN RepeatableDefs |-> Paid(RepeatableDefs[i], more[i])]
            pay == RepeatablePay(RepeatableDefs[id], levels[id])
<1>1. more \in [DOMAIN RepeatableDefs -> Nat] /\ more[id] = levels[id] + 1
      /\ \A i \in DOMAIN RepeatableDefs \ {id} : more[i] = levels[i]
  OBVIOUS
<1>2. IsFiniteSet(DOMAIN RepeatableDefs)
  BY DefsAssumption
<1>. HIDE DEF more
<1>3. IntSum(f) /\ IntSum(g)
  BY <1>1, <1>2, PaidNat DEF IntSum, IntsOn
<1>4. DOMAIN g = DOMAIN f /\ id \in DOMAIN f /\ \A i \in DOMAIN f \ {id} : g[i] = f[i]
  BY <1>1
<1>5. g[id] = f[id] + pay
  BY <1>1, PaidNat
<1>6. f[id] \in Int /\ g[id] \in Int /\ pay \in Int
  BY <1>1, PaidNat
<1>7. PaidOn(more) = SumFunction(g) /\ PaidOn(levels) = SumFunction(f)
  BY DEF PaidOn
<1>. HIDE DEF f, g, pay
<1>8. SumFunction(g) = SumFunction(f) + g[id] - f[id] /\ SumFunction(f) \in Int
  BY <1>3, <1>4, SumsDiffer, SumInt
<1>. QED
  BY <1>5, <1>6, <1>7, <1>8 DEF more, pay

\* What repeatables paid is a number.
LEMMA PaidIsInt ==
    ASSUME NEW levels \in [DOMAIN RepeatableDefs -> Nat]
    PROVE  PaidOn(levels) \in Int
<1>. DEFINE f == [id \in DOMAIN RepeatableDefs |-> Paid(RepeatableDefs[id], levels[id])]
<1>1. IntSum(f)
  BY PaidNat, DefsAssumption DEF IntSum, IntsOn
<1>2. PaidOn(levels) = SumFunction(f)
  BY DEF PaidOn
<1>. HIDE DEF f
<1>. QED
  BY <1>1, <1>2, SumInt

\* So is what goals paid.
LEMMA GoalsPaidInt ==
    ASSUME NEW goals \in SUBSET DOMAIN GoalDefs
    PROVE  GoalsPaid(goals) \in Int
<1>. DEFINE f == [id \in goals |-> GoalDefs[id].xp]
<1>0. IsFiniteSet(goals)
  BY DefsAssumption, FS_Subset
<1>1. IntSum(f)
  BY <1>0, DefsAssumption DEF IntSum, IntsOn
<1>2. GoalsPaid(goals) = SumFunction(f)
  BY DEF GoalsPaid
<1>. HIDE DEF f
<1>. QED
  BY <1>1, <1>2, SumInt

\* What is missing, as the parts of a save have it.
ShopLack(defs, part) == part[1] - SpentOn(defs, part[2])
XpLack(x) == GoalsPaid(x[3]) + PaidOn(x[4]) - Climbed(0, x[1]) - x[2]
Lack(s) == <<ShopLack(TapeUpgradeDefs, Tapes(s)), ShopLack(UpgradeDefs, Wafers(s)), XpLack(Xp(s))>>

\* What is missing is told by three parts of a save.
LEMMA LackAlike ==
    ASSUME NEW s, NEW x, Tapes(x) = Tapes(s), Wafers(x) = Wafers(s), Xp(x) = Xp(s)
    PROVE  Lack(x) = Lack(s)
  BY DEF Lack

\* A purchase, or none, keeps a shop balanced.
LEMMA ShopBalanced ==
    ASSUME NEW defs, Shop(defs), NEW levels \in [DOMAIN defs -> Nat], NEW spent \in Int, NEW then, NEW more,
           \/ then = spent /\ more = levels
           \/ \E id \in DOMAIN defs : then = spent + UpgradeCost(defs[id], levels[id]) /\ more = [levels EXCEPT ![id] = @ + 1]
    PROVE  then - SpentOn(defs, more) = spent - SpentOn(defs, levels)
<1>1. CASE then = spent /\ more = levels
  BY <1>1
<1>2. ASSUME NEW id \in DOMAIN defs, then = spent + UpgradeCost(defs[id], levels[id]), more = [levels EXCEPT ![id] = @ + 1]
      PROVE  then - SpentOn(defs, more) = spent - SpentOn(defs, levels)
  <2>. DEFINE paid == SpentOn(defs, levels)
              c == UpgradeCost(defs[id], levels[id])
  <2>1. SpentOn(defs, more) = paid + c /\ paid \in Int
    BY <1>2, SpentMore, ZenonT(60)
  <2>2. c \in Nat
    BY ShopCost
  <2>3. then = spent + c
    BY <1>2
  <2>. HIDE DEF paid, c
  <2>4. (spent + c) - (paid + c) = spent - paid
    BY <2>1, <2>2
  <2>. QED
    BY <2>1, <2>3, <2>4 DEF paid
<1>. QED
  BY <1>1, <1>2

\* A gain, and the climb it pays for.
LEMMA XpClimbs ==
    ASSUME PlayerOK, NEW level \in Nat, NEW xp \in Nat, NEW then \in Nat, level <= then,
           NEW gain \in Nat, NEW paid \in Int
    PROVE  (paid + gain) - Climbed(0, then) - (xp + gain - Climbed(level, then)) = paid - Climbed(0, level) - xp
<1>1. Climbed(0, level) \in Nat /\ Climbed(level, then) \in Nat /\ Climbed(0, then) \in Nat
  BY ClimbedNat
<1>2. Climbed(0, level) + Climbed(level, then) = Climbed(0, then)
  BY ClimbsAdd
<1>. QED
  BY <1>1, <1>2

\* So xp lacks what it lacked.
LEMMA XpNext ==
    ASSUME Typed, XpMoves
    PROVE  XpLack(Xp(save')) = XpLack(Xp(save))
<1>. DEFINE level == save.meta.level
            xp == save.meta.xp
            goals == save.meta.goalsCompleted
            levels == save.meta.repeatable
<1>1. PlayerOK /\ level \in Nat /\ xp \in Nat /\ goals \in SUBSET DOMAIN GoalDefs /\ levels \in [DOMAIN RepeatableDefs -> Nat]
  BY DEF Typed, SaveOK, MetaOK
<1>2. Xp(save) = <<level, xp, goals, levels>>
  BY DEF Xp
<1>3. XpMoves <=> \/ Xp(save') = <<level, xp, goals, levels>>
                  \/ \E id \in DOMAIN GoalDefs \ goals : Reaches(GoalDefs[id].xp, goals \cup {id}, levels)
                  \/ \E id \in DOMAIN RepeatableDefs :
                        /\ RepeatablePay(RepeatableDefs[id], levels[id]) \in Nat
                        /\ Reaches(RepeatablePay(RepeatableDefs[id], levels[id]), goals, [levels EXCEPT ![id] = @ + 1])
  BY <1>2 DEF XpMoves
<1>4. ASSUME NEW gain, NEW more, NEW then
      PROVE  Reaches(gain, more, then)
                <=> \E n \in Nat : n >= level /\ Xp(save') = <<n, xp + gain - Climbed(level, n), more, then>>
  BY DEF Reaches
<1>. HIDE DEF level, xp, goals, levels
<1>5. /\ XpLack(Xp(save)) = GoalsPaid(goals) + PaidOn(levels) - Climbed(0, level) - xp
      /\ \A n, x, more, then : Xp(save') = <<n, x, more, then>> =>
             XpLack(Xp(save')) = GoalsPaid(more) + PaidOn(then) - Climbed(0, n) - x
  BY <1>2 DEF XpLack
<1>6. CASE Xp(save') = <<level, xp, goals, levels>>
  BY <1>2, <1>6
<1>7. ASSUME NEW id \in DOMAIN GoalDefs \ goals, Reaches(GoalDefs[id].xp, goals \cup {id}, levels)
      PROVE  XpLack(Xp(save')) = XpLack(Xp(save))
  <2>. DEFINE gain == GoalDefs[id].xp
              more == goals \cup {id}
              paid == GoalsPaid(goals) + PaidOn(levels)
  <2>1. GoalsPaid(goals) \in Int /\ gain \in Nat /\ GoalsPaid(more) = GoalsPaid(goals) + gain
    BY <1>1, GoalsPaidMore
  <2>2. PaidOn(levels) \in Int
    BY <1>1, DefsAssumption, PaidIsInt
  <2>3. Reaches(gain, more, levels)
    BY <1>7
  <2>. HIDE DEF gain, more
  <2>4. PICK n \in Nat : n >= level /\ Xp(save') = <<n, xp + gain - Climbed(level, n), more, levels>>
    BY <1>4, <2>3
  <2>5. paid \in Int
    BY <2>1, <2>2
  <2>6. paid + gain = GoalsPaid(more) + PaidOn(levels)
    BY <2>1, <2>2
  <2>. HIDE DEF paid
  <2>7. (paid + gain) - Climbed(0, n) - (xp + gain - Climbed(level, n)) = paid - Climbed(0, level) - xp
    BY <1>1, <2>1, <2>4, <2>5, XpClimbs
  <2>. QED
    <3>. DEFINE c == Climbed(0, n)
                e == xp + gain - Climbed(level, n)
                a == GoalsPaid(more)
                b == PaidOn(levels)
                f == Climbed(0, level)
                g == GoalsPaid(goals)
                h == PaidOn(levels)
    <3>1. XpLack(Xp(save')) = a + b - c - e /\ XpLack(Xp(save)) = g + h - f - xp
      BY <1>5, <2>4
    <3>2. c \in Int /\ f \in Int /\ e \in Int
      BY <1>1, <2>1, <2>3, <2>4, ClimbedNat
    <3>3. a \in Int /\ b \in Int /\ g \in Int /\ h \in Int /\ xp \in Int
      BY <1>1, <2>1, <2>2, <2>3
    <3>4. paid + gain = a + b /\ (paid + gain) - c - e = paid - f - xp /\ paid = g + h
      BY <2>6, <2>7 DEF paid
    <3>. HIDE DEF a, b, c, e, f, g, h
    <3>5. (a + b) - c - e = (g + h) - f - xp
      BY <3>4
    <3>. QED
      BY <3>1, <3>2, <3>3, <3>5
<1>8. ASSUME NEW id \in DOMAIN RepeatableDefs, RepeatablePay(RepeatableDefs[id], levels[id]) \in Nat,
             Reaches(RepeatablePay(RepeatableDefs[id], levels[id]), goals, [levels EXCEPT ![id] = @ + 1])
      PROVE  XpLack(Xp(save')) = XpLack(Xp(save))
  <2>. DEFINE gain == RepeatablePay(RepeatableDefs[id], levels[id])
              more == [levels EXCEPT ![id] = @ + 1]
              paid == GoalsPaid(goals) + PaidOn(levels)
  <2>1. PaidOn(levels) \in Int /\ PaidOn(more) = PaidOn(levels) + gain
    BY <1>1, PaidMore
  <2>2. GoalsPaid(goals) \in Int
    BY <1>1, GoalsPaidInt
  <2>3. Reaches(gain, goals, more) /\ gain \in Nat
    BY <1>8
  <2>. HIDE DEF gain, more
  <2>4. PICK n \in Nat : n >= level /\ Xp(save') = <<n, xp + gain - Climbed(level, n), goals, more>>
    BY <1>4, <2>3
  <2>5. paid \in Int
    BY <2>1, <2>2
  <2>6. paid + gain = GoalsPaid(goals) + PaidOn(more)
    BY <2>1, <2>2, <2>3
  <2>. HIDE DEF paid
  <2>7. (paid + gain) - Climbed(0, n) - (xp + gain - Climbed(level, n)) = paid - Climbed(0, level) - xp
    BY <1>1, <2>3, <2>4, <2>5, XpClimbs
  <2>. QED
    <3>. DEFINE c == Climbed(0, n)
                e == xp + gain - Climbed(level, n)
                a == GoalsPaid(goals)
                b == PaidOn(more)
                f == Climbed(0, level)
                g == GoalsPaid(goals)
                h == PaidOn(levels)
    <3>1. XpLack(Xp(save')) = a + b - c - e /\ XpLack(Xp(save)) = g + h - f - xp
      BY <1>5, <2>4
    <3>2. c \in Int /\ f \in Int /\ e \in Int
      BY <1>1, <2>1, <2>3, <2>4, ClimbedNat
    <3>3. a \in Int /\ b \in Int /\ g \in Int /\ h \in Int /\ xp \in Int
      BY <1>1, <2>1, <2>2, <2>3
    <3>4. paid + gain = a + b /\ (paid + gain) - c - e = paid - f - xp /\ paid = g + h
      BY <2>6, <2>7 DEF paid
    <3>. HIDE DEF a, b, c, e, f, g, h
    <3>5. (a + b) - c - e = (g + h) - f - xp
      BY <3>4
    <3>. QED
      BY <3>1, <3>2, <3>3, <3>5
<1>. QED
  BY <1>3, <1>6, <1>7, <1>8

Balanced == Lack(save) = Lack(carried)

\* So all three lack what they lacked.
LEMMA BalancedStep ==
    ASSUME Typed, Untouched, Balanced, [Next]_vars
    PROVE  Balanced'
<1>0. PlayerOK
  BY DEF Typed
<1>1. ASSUME Lack(save') = Lack(carried'), player' = player PROVE Balanced'
  BY <1>1, Zenon DEF Balanced, Lack, ShopLack, XpLack, Climbed, XpForLevel, config
<1>2. ASSUME NEW K, NEW scheduled, Loads(K, scheduled) PROVE Balanced'
  <2>1. Tapes(K) = Tapes(save) /\ Wafers(K) = Wafers(save) /\ Xp(K) = Xp(save)
    BY <1>2 DEF Loads, Reads, Step, Keeps, Parts
  <2>2. Tapes(save') = Tapes(K) /\ Wafers(save') = Wafers(K) /\ Xp(save') = Xp(K) /\ player' = player
        /\ carried' = carried
    BY <1>2 DEF Loads, Step, Keeps, Parts
  <2>3. Lack(save') = Lack(save)
    BY <2>1, <2>2, LackAlike
  <2>. QED
    BY <1>1, <2>2, <2>3 DEF Balanced
<1>3. CASE Moves /\ UNCHANGED <<player, clock, lastSave>>
  <2>1. TapesMove /\ WafersMove /\ XpMoves /\ carried' = carried
    BY <1>3 DEF Moves
  <2>2. Shop(UpgradeDefs) /\ Shop(TapeUpgradeDefs)
    BY DefsAssumption
  <2>3. /\ save.meta.coldStorage.upgrades \in [DOMAIN TapeUpgradeDefs -> Nat]
        /\ save.meta.upgrades \in [DOMAIN UpgradeDefs -> Nat]
        /\ Tapes(save)[1] \in Int /\ Wafers(save)[1] \in Int
    BY DEF Typed, SaveOK, MetaOK, ColdOK, Tapes, Wafers, Counters
  <2>4. ShopLack(TapeUpgradeDefs, Tapes(save')) = ShopLack(TapeUpgradeDefs, Tapes(save))
    <3>. DEFINE levels == save.meta.coldStorage.upgrades
                spent == Tapes(save)[1]
                then == Tapes(save')[1]
                more == Tapes(save')[2]
    <3>1. ShopLack(TapeUpgradeDefs, Tapes(save)) = spent - SpentOn(TapeUpgradeDefs, levels)
      BY DEF ShopLack, Tapes
    <3>2. \/ then = spent /\ more = levels
          \/ \E id \in DOMAIN TapeUpgradeDefs : then = spent + UpgradeCost(TapeUpgradeDefs[id], levels[id])
                                                /\ more = [levels EXCEPT ![id] = @ + 1]
      <4>1. Tapes(save)[2] = levels
        BY DEF Tapes
      <4>2. CASE Tapes(save') = Tapes(save)
        BY <4>1, <4>2
      <4>3. CASE \E id \in DOMAIN TapeUpgradeDefs : Tapes(save') = <<spent + UpgradeCost(TapeUpgradeDefs[id], levels[id]), [levels EXCEPT ![id] = @ + 1]>>
        <5>1. PICK id \in DOMAIN TapeUpgradeDefs :
                Tapes(save') = <<spent + UpgradeCost(TapeUpgradeDefs[id], levels[id]), [levels EXCEPT ![id] = @ + 1]>>
          BY <4>3
        <5>2. then = spent + UpgradeCost(TapeUpgradeDefs[id], levels[id]) /\ more = [levels EXCEPT ![id] = @ + 1]
          <6>. HIDE DEF spent, levels
          <6>. QED
            BY <5>1
        <5>. HIDE DEF spent, levels, then, more
        <5>. QED
          BY <5>2
      <4>. QED
        BY <2>1, <4>2, <4>3 DEF TapesMove, ColdLevel
    <3>3. levels \in [DOMAIN TapeUpgradeDefs -> Nat] /\ spent \in Int
      BY <2>3
    <3>. HIDE DEF spent, then, more, levels
    <3>4. then - SpentOn(TapeUpgradeDefs, more) = spent - SpentOn(TapeUpgradeDefs, levels)
      BY <2>2, <3>2, <3>3, ShopBalanced
    <3>. QED
      BY <3>1, <3>4 DEF then, more, ShopLack
  <2>5. ShopLack(UpgradeDefs, Wafers(save')) = ShopLack(UpgradeDefs, Wafers(save))
    <3>. DEFINE levels == save.meta.upgrades
                spent == Wafers(save)[1]
                then == Wafers(save')[1]
                more == Wafers(save')[2]
    <3>1. ShopLack(UpgradeDefs, Wafers(save)) = spent - SpentOn(UpgradeDefs, levels)
      BY DEF ShopLack, Wafers
    <3>2. \/ then = spent /\ more = levels
          \/ \E id \in DOMAIN UpgradeDefs : then = spent + UpgradeCost(UpgradeDefs[id], levels[id])
                                            /\ more = [levels EXCEPT ![id] = @ + 1]
      <4>1. Wafers(save)[2] = levels
        BY DEF Wafers
      <4>2. CASE Wafers(save') = Wafers(save)
        BY <4>1, <4>2
      <4>3. CASE \E id \in DOMAIN UpgradeDefs : Wafers(save') = <<spent + UpgradeCost(UpgradeDefs[id], levels[id]), [levels EXCEPT ![id] = @ + 1]>>
        <5>1. PICK id \in DOMAIN UpgradeDefs :
                Wafers(save') = <<spent + UpgradeCost(UpgradeDefs[id], levels[id]), [levels EXCEPT ![id] = @ + 1]>>
          BY <4>3
        <5>2. then = spent + UpgradeCost(UpgradeDefs[id], levels[id]) /\ more = [levels EXCEPT ![id] = @ + 1]
          <6>. HIDE DEF spent, levels
          <6>. QED
            BY <5>1
        <5>. HIDE DEF spent, levels, then, more
        <5>. QED
          BY <5>2
      <4>. QED
        BY <2>1, <4>2, <4>3 DEF WafersMove
    <3>3. levels \in [DOMAIN UpgradeDefs -> Nat] /\ spent \in Int
      BY <2>3
    <3>. HIDE DEF spent, then, more, levels
    <3>4. then - SpentOn(UpgradeDefs, more) = spent - SpentOn(UpgradeDefs, levels)
      BY <2>2, <3>2, <3>3, ShopBalanced
    <3>. QED
      BY <3>1, <3>4 DEF then, more, ShopLack
  <2>6. XpLack(Xp(save')) = XpLack(Xp(save))
    BY <2>1, XpNext
  <2>7. Lack(save') = Lack(save)
    BY <2>4, <2>5, <2>6 DEF Lack
  <2>. QED
    BY <1>1, <1>3, <2>1, <2>7 DEF Balanced
<1>4. CASE Resets /\ UNCHANGED <<player, clock, lastSave>>
  BY <1>1, <1>4 DEF Resets
<1>5. CASE Waits
  BY <1>1, <1>5 DEF Waits, Balanced, historyVars
<1>. QED
  BY <1>2, <1>3, <1>4, <1>5, StepIs

\* What the invariant says of balances is the property.
LEMMA BalancedIs ==
    ASSUME Balanced
    PROVE  BalancesAddUp
<1>1. ASSUME NEW s PROVE Lack(s) = <<TapesMissing(s), WafersMissing(s), XpMissing(s)>>
  <2>1. TapesMissing(s) = ShopLack(TapeUpgradeDefs, Tapes(s))
    BY DEF TapesMissing, ShopLack, Tapes, SpentOn, ColdLevel
  <2>2. WafersMissing(s) = ShopLack(UpgradeDefs, Wafers(s))
    BY DEF WafersMissing, ShopLack, Wafers, SpentOn
  <2>3. XpMissing(s) = XpLack(Xp(s))
    BY DEF XpMissing, XpLack, Xp, Climbed, GoalsPaid, PaidOn
  <2>. QED
    BY <2>1, <2>2, <2>3 DEF Lack
<1>. HIDE DEF Balanced
<1>2. Lack(save) = Lack(carried)
  BY DEF Balanced
<1>. QED
  BY <1>1, <1>2 DEF BalancesAddUp

(***************************************************************************)
(* How a board is dealt.                                                   *)
(***************************************************************************)
Used(picked) == {picked[i] : i \in 1 .. Len(picked)}
FreeBase(order, picked) ==
    {i \in 1 .. Len(order) : order[i] \notin Used(picked) /\ ContractDefs[order[i]].lane = "base"}

Deal(order, cold, picked, i) ==
    IF Len(picked) = BoardSize \/ order[i] \in Used(picked) THEN picked
    ELSE IF cold \/ ContractDefs[order[i]].lane = "base" THEN Append(picked, order[i])
    ELSE IF FreeBase(order, picked) = {} THEN picked
    ELSE Append(picked, order[Min(FreeBase(order, picked))])

Deals(order, cold, n, d) ==
    d = [i \in 0 .. n |-> IF i = 0 THEN <<>> ELSE Deal(order, cold, d[i - 1], i)]

\* The deal can be built up, one card at a time.
LEMMA DealExists ==
    ASSUME NEW order, NEW cold, NEW n \in Nat
    PROVE  \E d : Deals(order, cold, n, d)
<1>. DEFINE Good(m) == \E d : Deals(order, cold, m, d)
            Ns == {m \in Nat : Good(m)}
<1>1. 0 \in Ns
  <2>. DEFINE d == [i \in 0 .. 0 |-> <<>>]
  <2>1. Deals(order, cold, 0, d)
    BY DEF Deals
  <2>. QED
    BY <2>1
<1>2. ASSUME NEW m \in Ns PROVE m + 1 \in Ns
  <2>1. PICK d : Deals(order, cold, m, d)
    OBVIOUS
  <2>. DEFINE e == [i \in 0 .. m + 1 |-> IF i <= m THEN d[i] ELSE Deal(order, cold, d[m], m + 1)]
  <2>2. \A i \in 0 .. m : d[i] = IF i = 0 THEN <<>> ELSE Deal(order, cold, d[i - 1], i)
    BY <2>1 DEF Deals
  <2>3. ASSUME NEW i \in 0 .. m + 1 PROVE e[i] = IF i = 0 THEN <<>> ELSE Deal(order, cold, e[i - 1], i)
    <3>1. CASE i <= m
      <4>1. i \in 0 .. m /\ e[i] = d[i]
        BY <3>1
      <4>2. CASE i = 0
        BY <2>2, <4>1, <4>2
      <4>3. CASE i # 0
        <5>1. i - 1 \in 0 .. m + 1 /\ i - 1 <= m
          BY <3>1, <4>3
        <5>2. e[i - 1] = d[i - 1]
          BY <5>1
        <5>. QED
          BY <2>2, <4>1, <4>3, <5>2
      <4>. QED
        BY <4>2, <4>3
    <3>2. CASE ~(i <= m)
      <4>1. i = m + 1 /\ e[i] = Deal(order, cold, d[m], m + 1)
        BY <3>2
      <4>2. e[m] = d[m] /\ i # 0 /\ i - 1 = m
        BY <4>1
      <4>. QED
        BY <4>1, <4>2
    <3>. QED
      BY <3>1, <3>2
  <2>4. DOMAIN e = 0 .. m + 1 /\ e = [i \in DOMAIN e |-> e[i]]
    OBVIOUS
  <2>. HIDE DEF e
  <2>5. Deals(order, cold, m + 1, e)
    BY <2>3, <2>4 DEF Deals
  <2>. QED
    BY <2>5
<1>3. Ns = Nat
  <2>. HIDE DEF Good
  <2>1. Ns \subseteq Nat
    OBVIOUS
  <2>. HIDE DEF Ns
  <2>. QED
    BY <1>1, <1>2, <2>1, AllNumbers
<1>. QED
  BY <1>3

\* dailyContractTypes is the last state of the deal.
LEMMA DealtTypes ==
    ASSUME NEW day, NEW cold, Shuffle[day] \in Seq(DOMAIN ContractDefs)
    PROVE  \E d : Deals(Shuffle[day], cold, Len(Shuffle[day]), d) /\ DailyContractTypes(day, cold) = d[Len(Shuffle[day])]
<1>. DEFINE order == Shuffle[day]
            d == CHOOSE e : Deals(order, cold, Len(order), e)
<1>1. DailyContractTypes(day, cold) = d[Len(order)]
  BY DEF DailyContractTypes, Deals, Deal, FreeBase, Used
<1>2. Deals(order, cold, Len(order), d)
  <2>1. Len(order) \in Nat
    OBVIOUS
  <2>. HIDE DEF order
  <2>. QED
    BY <2>1, DealExists
<1>. QED
  BY <1>1, <1>2

\* One pick more.
LEMMA UsedMore ==
    ASSUME NEW T, NEW picked \in Seq(T), NEW m \in T
    PROVE  Append(picked, m) \in Seq(T) /\ Used(Append(picked, m)) = Used(picked) \cup {m}
  BY DEF Used

AllBase(picked) == \A m \in Used(picked) : ContractDefs[m].lane = "base"

\* One card.
LEMMA DealStep ==
    ASSUME NEW order \in Seq(DOMAIN ContractDefs), NEW cold, NEW picked \in Seq(DOMAIN ContractDefs), NEW i \in 1 .. Len(order)
    PROVE  LET next == Deal(order, cold, picked, i)
           IN  /\ next \in Seq(DOMAIN ContractDefs) /\ Used(picked) \subseteq Used(next)
               /\ cold = FALSE /\ AllBase(picked) => AllBase(next)
<1>. DEFINE next == Deal(order, cold, picked, i)
<1>1. order[i] \in DOMAIN ContractDefs
  OBVIOUS
<1>2. CASE Len(picked) = BoardSize \/ order[i] \in Used(picked)
  BY <1>2 DEF Deal
<1>3. CASE /\ ~(Len(picked) = BoardSize \/ order[i] \in Used(picked))
           /\ cold \/ ContractDefs[order[i]].lane = "base"
  <2>1. next = Append(picked, order[i])
    BY <1>3 DEF Deal
  <2>. HIDE DEF next
  <2>2. next \in Seq(DOMAIN ContractDefs) /\ Used(next) = Used(picked) \cup {order[i]}
    BY <1>1, <2>1, UsedMore
  <2>. QED
    BY <1>3, <2>2 DEF next, AllBase
<1>4. CASE /\ ~(Len(picked) = BoardSize \/ order[i] \in Used(picked))
           /\ ~(cold \/ ContractDefs[order[i]].lane = "base")
  <2>1. CASE FreeBase(order, picked) = {}
    BY <1>4, <2>1 DEF Deal
  <2>2. CASE FreeBase(order, picked) # {}
    <3>. DEFINE j == Min(FreeBase(order, picked))
    <3>1. next = Append(picked, order[j])
      BY <1>4, <2>2 DEF Deal
    <3>2. j \in FreeBase(order, picked)
      <4>1. FreeBase(order, picked) \in SUBSET Nat
        BY DEF FreeBase
      <4>. HIDE DEF next
      <4>. QED
        BY <2>2, <4>1, MinIn, SMTT(30)
    <3>. HIDE DEF j, next
    <3>3. order[j] \in DOMAIN ContractDefs /\ ContractDefs[order[j]].lane = "base"
      BY <3>2 DEF FreeBase
    <3>4. next \in Seq(DOMAIN ContractDefs) /\ Used(next) = Used(picked) \cup {order[j]}
      BY <3>1, <3>3, UsedMore
    <3>. QED
      BY <3>3, <3>4 DEF next, AllBase
  <2>. QED
    BY <2>1, <2>2
<1>. QED
  BY <1>2, <1>3, <1>4

\* The whole deal: picks stay, and without cold ones none appear.
LEMMA DealKeeps ==
    ASSUME NEW order \in Seq(DOMAIN ContractDefs), NEW cold, NEW n \in Nat, n <= Len(order), NEW d, Deals(order, cold, n, d),
           NEW j \in 0 .. n
    PROVE  /\ d[j] \in Seq(DOMAIN ContractDefs) /\ \A i \in 0 .. j : Used(d[i]) \subseteq Used(d[j])
           /\ cold = FALSE => AllBase(d[j])
<1>. DEFINE Kept(k) == /\ d[k] \in Seq(DOMAIN ContractDefs) /\ \A i \in 0 .. k : Used(d[i]) \subseteq Used(d[k])
                       /\ cold = FALSE => AllBase(d[k])
            Good(k) == k <= n => Kept(k)
            Ns == {k \in Nat : Good(k)}
<1>0. \A i \in 0 .. n : d[i] = IF i = 0 THEN <<>> ELSE Deal(order, cold, d[i - 1], i)
  BY DEF Deals
<1>1. 0 \in Ns
  <2>1. d[0] = <<>>
    BY <1>0
  <2>2. d[0] \in Seq(DOMAIN ContractDefs)
    BY <2>1
  <2>3. AllBase(d[0])
    BY <2>1 DEF AllBase, Used
  <2>4. \A i \in 0 .. 0 : Used(d[i]) \subseteq Used(d[0])
    OBVIOUS
  <2>. QED
    BY <2>2, <2>3, <2>4
<1>2. ASSUME NEW k \in Ns PROVE k + 1 \in Ns
  <2>1. ASSUME k + 1 <= n PROVE Kept(k + 1)
    <3>1. Kept(k) /\ k \in Nat /\ k + 1 \in 0 .. n /\ k + 1 \in 1 .. Len(order)
      BY <2>1
    <3>2. d[k + 1] = Deal(order, cold, d[k], k + 1)
      <4>1. (k + 1) - 1 = k /\ k + 1 # 0
        BY <3>1
      <4>. QED
        BY <1>0, <3>1, <4>1
    <3>3. /\ d[k + 1] \in Seq(DOMAIN ContractDefs) /\ Used(d[k]) \subseteq Used(d[k + 1])
          /\ cold = FALSE /\ AllBase(d[k]) => AllBase(d[k + 1])
      <4>. DEFINE p == d[k]
      <4>1. p \in Seq(DOMAIN ContractDefs) /\ d[k + 1] = Deal(order, cold, p, k + 1)
        BY <3>1, <3>2
      <4>. HIDE DEF p
      <4>2. LET next == Deal(order, cold, p, k + 1)
            IN  /\ next \in Seq(DOMAIN ContractDefs) /\ Used(p) \subseteq Used(next)
                /\ cold = FALSE /\ AllBase(p) => AllBase(next)
        BY <3>1, <4>1, DealStep
      <4>. QED
        BY <4>1, <4>2 DEF p
    <3>4. ASSUME NEW i \in 0 .. k + 1 PROVE Used(d[i]) \subseteq Used(d[k + 1])
      <4>1. CASE i = k + 1
        BY <4>1
      <4>2. CASE i # k + 1
        <5>1. i \in 0 .. k
          BY <4>2
        <5>. QED
          BY <3>1, <3>3, <5>1
      <4>. QED
        BY <4>1, <4>2
    <3>. QED
      BY <3>1, <3>3, <3>4
  <2>. HIDE DEF Kept
  <2>. QED
    BY <2>1
<1>3. Ns = Nat
  <2>. HIDE DEF Good
  <2>1. Ns \subseteq Nat
    OBVIOUS
  <2>. HIDE DEF Ns
  <2>. QED
    BY <1>1, <1>2, <2>1, AllNumbers
<1>4. j \in Ns /\ j <= n
  <2>. HIDE DEF Ns
  <2>. QED
    BY <1>3
<1>. QED
  BY <1>4

\* Where nothing of the cold lane is dealt, having it unlocked changes nothing.
LEMMA DealtAlike ==
    ASSUME NEW order \in Seq(DOMAIN ContractDefs), NEW t, NEW f,
           Deals(order, TRUE, Len(order), t), Deals(order, FALSE, Len(order), f), AllBase(t[Len(order)])
    PROVE  t[Len(order)] = f[Len(order)]
<1>. DEFINE n == Len(order)
            Good(k) == k <= n => t[k] = f[k]
            Ns == {k \in Nat : Good(k)}
<1>0. /\ n \in Nat
      /\ \A i \in 0 .. n : t[i] = IF i = 0 THEN <<>> ELSE Deal(order, TRUE, t[i - 1], i)
      /\ \A i \in 0 .. n : f[i] = IF i = 0 THEN <<>> ELSE Deal(order, FALSE, f[i - 1], i)
  BY DEF Deals
<1>1. \A i \in 0 .. n : t[i] \in Seq(DOMAIN ContractDefs) /\ AllBase(t[i])
  <2>1. n <= Len(order) /\ n \in 0 .. n
    BY <1>0
  <2>2. \A i \in 0 .. n : t[i] \in Seq(DOMAIN ContractDefs)
    BY <1>0, <2>1, DealKeeps
  <2>3. \A i \in 0 .. n : Used(t[i]) \subseteq Used(t[n])
    BY <1>0, <2>1, DealKeeps
  <2>. QED
    BY <2>2, <2>3 DEF AllBase
<1>2. 0 \in Ns
  <2>1. 0 \in 0 .. n
    BY <1>0
  <2>2. t[0] = <<>> /\ f[0] = <<>>
    <3>. HIDE DEF n
    <3>. QED
      BY <1>0, <2>1
  <2>. QED
    BY <2>2
<1>3. ASSUME NEW k \in Ns PROVE k + 1 \in Ns
  <2>1. ASSUME k + 1 <= n PROVE t[k + 1] = f[k + 1]
    <3>1. t[k] = f[k] /\ k \in Nat /\ k \in 0 .. n /\ k + 1 \in 0 .. n /\ k + 1 \in 1 .. n /\ (k + 1) - 1 = k /\ k + 1 # 0
      BY <1>0, <2>1
    <3>2. t[k + 1] = Deal(order, TRUE, t[k], k + 1) /\ f[k + 1] = Deal(order, FALSE, t[k], k + 1)
      BY <1>0, <3>1
    <3>. DEFINE p == t[k]
                i == k + 1
    <3>3. p \in Seq(DOMAIN ContractDefs) /\ AllBase(t[i])
      BY <1>1, <3>1
    <3>4. order[i] \in DOMAIN ContractDefs
      BY <3>1
    <3>. HIDE DEF p, i, n
    <3>5. CASE Len(p) = BoardSize \/ order[i] \in Used(p)
      BY <3>2, <3>5 DEF Deal, p, i
    <3>6. CASE ~(Len(p) = BoardSize \/ order[i] \in Used(p))
      <4>1. t[i] = Append(p, order[i])
        BY <3>2, <3>6 DEF Deal, p, i
      <4>2. order[i] \in Used(t[i])
        <5>1. Used(Append(p, order[i])) = Used(p) \cup {order[i]}
          BY <3>3, <3>4, UsedMore
        <5>. QED
          BY <4>1, <5>1
      <4>3. ContractDefs[order[i]].lane = "base"
        BY <3>3, <4>2 DEF AllBase
      <4>4. Deal(order, FALSE, p, i) = Append(p, order[i])
        BY <3>6, <4>3 DEF Deal
      <4>. QED
        BY <3>2, <4>1, <4>4 DEF p, i
    <3>. QED
      BY <3>5, <3>6
  <2>. QED
    BY <2>1
<1>4. Ns = Nat
  <2>. HIDE DEF Good
  <2>1. Ns \subseteq Nat
    OBVIOUS
  <2>. HIDE DEF Ns
  <2>. QED
    BY <1>2, <1>3, <2>1, AllNumbers
<1>5. n \in Ns
  BY <1>0, <1>4
<1>. QED
  BY <1>5

\* The board can be dealt again from its date and from whether it holds a cold contract.
LEMMA DealtAgain ==
    ASSUME NEW day, NEW cold, cold \in BOOLEAN, Shuffle[day] \in Seq(DOMAIN ContractDefs)
    PROVE  LET types == DailyContractTypes(day, cold)
           IN  /\ types \in Seq(DOMAIN ContractDefs)
               /\ DailyContractTypes(day, \E m \in Used(types) : ContractDefs[m].lane = "cold") = types
<1>. DEFINE order == Shuffle[day]
            n == Len(order)
<1>0. order \in Seq(DOMAIN ContractDefs) /\ n \in Nat /\ n \in 0 .. n /\ n <= Len(order)
  OBVIOUS
<1>1. PICK t : Deals(order, TRUE, n, t) /\ DailyContractTypes(day, TRUE) = t[n]
  BY DealtTypes
<1>2. PICK f : Deals(order, FALSE, n, f) /\ DailyContractTypes(day, FALSE) = f[n]
  BY DealtTypes
<1>3. t[n] \in Seq(DOMAIN ContractDefs) /\ f[n] \in Seq(DOMAIN ContractDefs) /\ AllBase(f[n])
  <2>. HIDE DEF order, n
  <2>1. t[n] \in Seq(DOMAIN ContractDefs)
    BY <1>0, <1>1, DealKeeps
  <2>2. f[n] \in Seq(DOMAIN ContractDefs) /\ AllBase(f[n])
    BY <1>0, <1>2, DealKeeps
  <2>. QED
    BY <2>1, <2>2
<1>4. AllBase(t[n]) => t[n] = f[n]
  <2>. HIDE DEF order
  <2>. QED
    BY <1>0, <1>1, <1>2, DealtAlike
<1>5. ASSUME NEW types \in Seq(DOMAIN ContractDefs)
      PROVE  (\E m \in Used(types) : ContractDefs[m].lane = "cold") <=> ~AllBase(types)
  <2>1. \A m \in Used(types) : m \in DOMAIN ContractDefs
    BY <1>5 DEF Used
  <2>2. \A m \in DOMAIN ContractDefs : ContractDefs[m].lane \in {"base", "cold"}
    BY ContractAssumption
  <2>. QED
    BY <2>1, <2>2 DEF AllBase
<1>. HIDE DEF n, order
<1>6. CASE cold = TRUE
  <2>. DEFINE had == \E m \in Used(t[n]) : ContractDefs[m].lane = "cold"
  <2>1. had <=> ~AllBase(t[n])
    BY <1>3, <1>5
  <2>2. had \in BOOLEAN
    OBVIOUS
  <2>. HIDE DEF had
  <2>3. CASE had = TRUE
    <3>1. DailyContractTypes(day, had) = t[n]
      BY <1>1, <2>3
    <3>. QED
      BY <1>1, <1>3, <1>6, <3>1 DEF had
  <2>4. CASE had = FALSE
    <3>1. DailyContractTypes(day, had) = f[n]
      BY <1>2, <2>4
    <3>2. t[n] = f[n]
      BY <1>4, <2>1, <2>4
    <3>. QED
      BY <1>1, <1>3, <1>6, <3>1, <3>2 DEF had
  <2>. QED
    BY <2>2, <2>3, <2>4
<1>7. CASE cold = FALSE
  <2>. DEFINE had == \E m \in Used(f[n]) : ContractDefs[m].lane = "cold"
  <2>1. had <=> ~AllBase(f[n])
    BY <1>3, <1>5
  <2>2. had \in BOOLEAN
    OBVIOUS
  <2>. HIDE DEF had
  <2>3. had = FALSE
    BY <1>3, <2>1, <2>2
  <2>4. DailyContractTypes(day, had) = f[n]
    BY <1>2, <2>3
  <2>. QED
    BY <1>2, <1>3, <1>7, <2>4 DEF had
<1>. QED
  BY <1>6, <1>7

(***************************************************************************)
(* Contracts measure their day.                                            *)
(***************************************************************************)
BoardTypes(c) ==
    DailyContractTypes(c.dateKey, \E m \in DOMAIN c.baseline : ContractDefs[m].lane = "cold")

\* What was claimed since the save was read, or since the last reset.
Since(c, from) == IF c.dateKey = from.dateKey THEN c.claimed \ from.claimed ELSE c.claimed

\* The board is what the date deals, and it measures from where the counters were.
Drawn(c, from, stats, b) ==
    /\ BoardTypes(c) \in Seq(DOMAIN ContractDefs) /\ BoardTypes(c) = [i \in DOMAIN b |-> b[i].metric]
    /\ \A i \in DOMAIN b :
          /\ b[i].from = Field(c.baseline, b[i].metric, 0) /\ b[i].target = c.targets[i]
          /\ b[i].metric \in Counters /\ b[i].from \in Int /\ (i \in 1 .. BoardSize => b[i].target \in Int)
    /\ \A i \in Since(c, from) :
          /\ i \in DOMAIN b /\ i \in 1 .. BoardSize
          /\ Larger(0, stats[b[i].metric] - b[i].from) >= b[i].target

BoardHeld(c, from, stats, b) ==
    IF c.dateKey = None THEN Since(c, from) = {} /\ b = <<>> ELSE Drawn(c, from, stats, b)

\* What the invariant says of the board is the property.
LEMMA BoardIs ==
    ASSUME BoardHeld(save.meta.contracts, carried.meta.contracts, save.meta.stats, board)
    PROVE  ContractsMeasureToday
<1>. DEFINE c == save.meta.contracts
<1>0. ClaimedSince = Since(c, carried.meta.contracts)
  BY DEF ClaimedSince, Since
<1>1. CASE c.dateKey = None
  <2>1. ContractsForState(save) = <<>> /\ ClaimedSince = {} /\ board = <<>>
    BY <1>0, <1>1 DEF BoardHeld, ContractsForState
  <2>2. <<>> = [i \in DOMAIN <<>> |-> board[i].metric]
    OBVIOUS
  <2>. QED
    BY <2>1, <2>2 DEF ContractsMeasureToday
<1>2. CASE c.dateKey # None
  <2>1. ContractsForState(save) = BoardTypes(c)
    BY <1>2 DEF ContractsForState, BoardTypes
  <2>. QED
    BY <1>0, <1>2, <2>1 DEF BoardHeld, Drawn, ContractsMeasureToday
<1>. QED
  BY <1>1, <1>2

\* After a reset there is no board yet.
LEMMA BoardFresh ==
    ASSUME NEW s, NEW now, Fresh(s, now)
    PROVE  BoardHeld(s.meta.contracts, s.meta.contracts, s.meta.stats, <<>>)
<1>1. s.meta.contracts.dateKey = None /\ s.meta.contracts.claimed = {}
  BY DEF Fresh
<1>. QED
  BY <1>1 DEF BoardHeld, Since

\* Counters only grow.
LEMMA BoardGrows ==
    ASSUME NEW c, NEW from, NEW b, NEW stats \in [Counters -> Nat], NEW then \in [Counters -> Nat],
           \A k \in Counters : stats[k] <= then[k], BoardHeld(c, from, stats, b)
    PROVE  BoardHeld(c, from, then, b)
<1>1. CASE c.dateKey = None
  BY <1>1 DEF BoardHeld
<1>2. CASE c.dateKey # None
  <2>1. Drawn(c, from, stats, b)
    BY <1>2 DEF BoardHeld
  <2>2. ASSUME NEW i \in Since(c, from)
        PROVE  /\ i \in DOMAIN b /\ i \in 1 .. BoardSize
               /\ Larger(0, then[b[i].metric] - b[i].from) >= b[i].target
    <3>1. /\ i \in DOMAIN b /\ i \in 1 .. BoardSize /\ Larger(0, stats[b[i].metric] - b[i].from) >= b[i].target
          /\ b[i].from \in Int /\ b[i].target \in Int /\ b[i].metric \in Counters
      BY <2>1, <2>2 DEF Drawn
    <3>2. stats[b[i].metric] \in Nat /\ then[b[i].metric] \in Nat /\ stats[b[i].metric] <= then[b[i].metric]
      BY <3>1
    <3>. DEFINE was == stats[b[i].metric]
                is == then[b[i].metric]
                f == b[i].from
                t == b[i].target
    <3>. HIDE DEF was, is, f, t
    <3>3. Larger(0, is - f) >= t
      <4>1. was \in Int /\ is \in Int /\ f \in Int /\ t \in Int /\ was <= is /\ Larger(0, was - f) >= t
        BY <3>1, <3>2 DEF was, is, f, t
      <4>. QED
        BY <4>1 DEF Larger
    <3>. QED
      BY <3>1, <3>3 DEF is, f, t
  <2>3. Drawn(c, from, then, b)
    BY <2>1, <2>2 DEF Drawn
  <2>. QED
    BY <1>2, <2>3 DEF BoardHeld
<1>. QED
  BY <1>1, <1>2

\* A claim pays for a contract that is met.
LEMMA BoardClaims ==
    ASSUME NEW s, NEW now, SaveOK(s, now), NEW b, NEW from, BoardHeld(s.meta.contracts, from, s.meta.stats, b),
           NEW i \in 1 .. BoardSize, i \in 1 .. Len(ContractsForState(s)),
           Grown(s, ContractsForState(s)[i]) >= s.meta.contracts.targets[i]
    PROVE  BoardHeld([s.meta.contracts EXCEPT !.claimed = @ \cup {i}], from, s.meta.stats, b)
<1>. DEFINE c == s.meta.contracts
            stats == s.meta.stats
            d == [c EXCEPT !.claimed = @ \cup {i}]
<1>0. DOMAIN c = {"dateKey", "targets", "baseline", "claimed"}
  BY DEF SaveOK, MetaOK, ContractsOK
<1>1. d.dateKey = c.dateKey /\ d.baseline = c.baseline /\ d.targets = c.targets /\ d.claimed = c.claimed \cup {i}
  BY <1>0
<1>2. c.dateKey # None
  <2>1. CASE c.dateKey = None
    <3>1. Len(ContractsForState(s)) = 0
      BY <2>1 DEF ContractsForState
    <3>. QED
      BY <3>1
  <2>. QED
    BY <2>1
<1>3. ContractsForState(s) = BoardTypes(c) /\ BoardTypes(d) = BoardTypes(c)
  BY <1>1, <1>2 DEF ContractsForState, BoardTypes
<1>4. Drawn(c, from, stats, b)
  BY <1>2 DEF BoardHeld
<1>5. i \in DOMAIN b /\ BoardTypes(c)[i] = b[i].metric
  <2>1. i \in DOMAIN BoardTypes(c)
    BY <1>3, <1>4 DEF Drawn
  <2>. QED
    BY <1>4, <2>1 DEF Drawn
<1>6. Larger(0, stats[b[i].metric] - b[i].from) >= b[i].target
  <2>1. b[i].from = Field(c.baseline, b[i].metric, 0) /\ b[i].target = c.targets[i]
    BY <1>4, <1>5 DEF Drawn
  <2>2. Grown(s, b[i].metric) = Larger(0, stats[b[i].metric] - b[i].from)
    BY <2>1 DEF Grown
  <2>3. Grown(s, b[i].metric) >= b[i].target
    BY <1>3, <1>5, <2>1
  <2>. QED
    BY <2>2, <2>3
<1>7. Since(d, from) \subseteq Since(c, from) \cup {i}
  BY <1>1 DEF Since
<1>. HIDE DEF d
<1>8. \A j \in Since(d, from) : /\ j \in DOMAIN b /\ j \in 1 .. BoardSize
                                /\ Larger(0, stats[b[j].metric] - b[j].from) >= b[j].target
  BY <1>4, <1>5, <1>6, <1>7 DEF Drawn
<1>9. Drawn(d, from, stats, b)
  BY <1>1, <1>3, <1>4, <1>8 DEF Drawn
<1>. QED
  BY <1>1, <1>2, <1>9 DEF BoardHeld, d

\* The first load of a day deals a board and starts from where the counters are.
LEMMA BoardDealt ==
    ASSUME Typed, NEW s, NEW x, SaveOK(s, clock), x.meta.stats = s.meta.stats, x.run = s.run,
           x.meta.contracts = Dealt(s, clock), save.meta.contracts.dateKey # UtcDateKey(clock)
    PROVE  BoardHeld(x.meta.contracts, carried.meta.contracts, x.meta.stats, RememberBoard(x))
<1>. DEFINE today == UtcDateKey(clock)
            types == DailyContractTypes(today, IsColdUnlocked(s))
            stats == s.meta.stats
            c == x.meta.contracts
            b == [i \in 1 .. Len(types) |-> [metric |-> types[i], target |-> c.targets[i], from |-> stats[types[i]]]]
<1>0. clock \in 0 .. MaxClock /\ clock \in Nat /\ today \in Int /\ today # None
  <2>1. clock \in 0 .. MaxClock /\ clock \in Nat /\ today \in Int
    BY ClockAssumption DEF Typed, UtcDateKey, Positive
  <2>. QED
    BY <2>1, ClockAssumption
<1>1. /\ c.dateKey = today /\ c.claimed = {}
      /\ c.targets = PadTo3([i \in 1 .. Len(types) |-> ContractTarget(s, clock, types[i])])
      /\ c.baseline = [m \in Used(types) |-> stats[m]]
  BY DEF Dealt, Used
<1>2. Shuffle[today] \in Seq(DOMAIN ContractDefs)
  BY <1>0, ContractAssumption DEF UtcDateKey
<1>3. /\ types \in Seq(DOMAIN ContractDefs)
      /\ DailyContractTypes(today, \E m \in Used(types) : ContractDefs[m].lane = "cold") = types
  <2>. DEFINE cold == IsColdUnlocked(s)
  <2>1. cold \in BOOLEAN
    BY DEF IsColdUnlocked
  <2>. HIDE DEF cold, today
  <2>2. LET dealt == DailyContractTypes(today, cold)
        IN  /\ dealt \in Seq(DOMAIN ContractDefs)
            /\ DailyContractTypes(today, \E m \in Used(dealt) : ContractDefs[m].lane = "cold") = dealt
    BY <1>2, <2>1, DealtAgain
  <2>. QED
    BY <2>2 DEF cold
<1>4. RememberBoard(x) = b
  <2>1. IsColdUnlocked(x) = IsColdUnlocked(s)
    BY DEF IsColdUnlocked
  <2>2. c.dateKey # save.meta.contracts.dateKey
    BY <1>1
  <2>3. DailyContractTypes(c.dateKey, IsColdUnlocked(x)) = types
    BY <1>1, <2>1
  <2>4. x.meta.stats = stats
    OBVIOUS
  <2>5. RememberBoard(x) = LET ts == DailyContractTypes(c.dateKey, IsColdUnlocked(x))
                           IN  [i \in 1 .. Len(ts) |->
                                   [metric |-> ts[i], target |-> c.targets[i], from |-> x.meta.stats[ts[i]]]]
    BY <2>2 DEF RememberBoard
  <2>. HIDE DEF types, stats, c
  <2>. QED
    BY <2>3, <2>4, <2>5
<1>5. stats \in [Counters -> Nat]
  BY DEF SaveOK, MetaOK
<1>. HIDE DEF types, today, stats, c
<1>6. BoardTypes(c) = types
  <2>1. DOMAIN c.baseline = Used(types)
    BY <1>1
  <2>. QED
    BY <1>1, <1>3, <2>1 DEF BoardTypes
<1>7. types = [i \in DOMAIN b |-> b[i].metric]
  BY <1>3
<1>8. \A i \in DOMAIN b : b[i].metric \in Used(types) /\ b[i].metric \in DOMAIN ContractDefs
  BY <1>3 DEF Used
<1>9. \A i \in DOMAIN b : b[i].metric \in Counters
  BY <1>8, ContractAssumption
<1>10. \A i \in DOMAIN b : i \in 1 .. BoardSize => b[i].target \in Int
  <2>1. ASSUME NEW m \in DOMAIN ContractDefs PROVE ContractTarget(s, clock, m) \in Int
    <3>. DEFINE out == TotalOutputPerSec(s, clock)
                level == s.meta.level
    <3>1. out \in Nat /\ level \in Nat
      BY TotalOutputNat DEF Typed, SaveOK, MetaOK
    <3>2. ContractDefs[m].base \in Nat /\ ContractDefs[m].perLevel \in Nat /\ ContractDefs[m].seconds \in Nat
      BY ContractAssumption
    <3>3. ContractTarget(s, clock, m) = Larger(ContractDefs[m].base + ContractDefs[m].perLevel * level,
                                               out * ContractDefs[m].seconds)
      BY DEF ContractTarget
    <3>. HIDE DEF out, level
    <3>4. ContractDefs[m].perLevel * level \in Nat /\ out * ContractDefs[m].seconds \in Nat
      BY <3>1, <3>2, Products
    <3>5. ContractDefs[m].base + ContractDefs[m].perLevel * level \in Nat
      BY <3>2, <3>4
    <3>. QED
      BY <3>3, <3>4, <3>5 DEF Larger
  <2>2. ASSUME NEW i \in DOMAIN b, i \in 1 .. BoardSize PROVE b[i].target \in Int
    <3>1. i \in 1 .. Len(types) /\ types[i] \in DOMAIN ContractDefs /\ b[i].target = c.targets[i]
      BY <1>3, <2>2
    <3>2. c.targets[i] = ContractTarget(s, clock, types[i])
      BY <1>1, <2>2, <3>1 DEF PadTo3, Field
    <3>. QED
      BY <2>1, <3>1, <3>2
  <2>. QED
    BY <2>2
<1>11. \A i \in DOMAIN b : /\ b[i].from = c.baseline[b[i].metric] /\ b[i].target = c.targets[i]
                           /\ b[i].from = stats[b[i].metric] /\ b[i].metric \in DOMAIN c.baseline
  BY <1>1, <1>8
<1>12. \A i \in DOMAIN b : b[i].from = Field(c.baseline, b[i].metric, 0) /\ b[i].from \in Int
  BY <1>5, <1>9, <1>11 DEF Field
<1>a. Since(c, carried.meta.contracts) = {}
  BY <1>1 DEF Since
<1>. HIDE DEF b
<1>13. Drawn(c, carried.meta.contracts, stats, b)
  BY <1>1, <1>3, <1>6, <1>7, <1>9, <1>10, <1>11, <1>12, <1>a DEF Drawn
<1>14. x.meta.stats = stats /\ x.meta.contracts = c
  BY DEF stats, c
<1>. QED
  BY <1>0, <1>1, <1>4, <1>13, <1>14 DEF BoardHeld

\* The board of a row is dealt from the day it stores.
LEMMA BoardInit ==
    ASSUME Init, DayRow(save.meta.contracts), SaveOK(save, clock)
    PROVE  BoardHeld(save.meta.contracts, carried.meta.contracts, save.meta.stats, board)
<1>. DEFINE c == save.meta.contracts
            types == ContractsForState(save)
            b == [i \in DOMAIN types |->
                     [metric |-> types[i], target |-> c.targets[i], from |-> Field(c.baseline, types[i], 0)]]
<1>1. board = b /\ carried = save /\ Since(c, carried.meta.contracts) = {}
  BY DEF Init, Since
<1>2. CASE c.dateKey = None
  <2>1. types = <<>> /\ DOMAIN types = {}
    BY <1>2 DEF ContractsForState
  <2>2. board = <<>>
    BY <1>1, <2>1
  <2>. QED
    BY <1>1, <1>2, <2>2 DEF BoardHeld
<1>3. CASE c.dateKey # None
  <2>1. types = BoardTypes(c)
    BY <1>3 DEF ContractsForState, BoardTypes
  <2>2. PICK t \in 0 .. Start : c.dateKey = UtcDateKey(t)
    BY <1>3 DEF DayRow
  <2>3. t \in 0 .. MaxClock
    BY <2>2, ClockAssumption DEF Positive
  <2>4. Shuffle[c.dateKey] \in Seq(DOMAIN ContractDefs)
    BY <2>2, <2>3, ContractAssumption DEF UtcDateKey
  <2>5. BoardTypes(c) \in Seq(DOMAIN ContractDefs)
    <3>. DEFINE cold == \E m \in DOMAIN c.baseline : ContractDefs[m].lane = "cold"
                day == c.dateKey
    <3>1. cold \in BOOLEAN
      OBVIOUS
    <3>2. BoardTypes(c) = DailyContractTypes(day, cold)
      BY DEF BoardTypes
    <3>3. Shuffle[day] \in Seq(DOMAIN ContractDefs)
      BY <2>4
    <3>. HIDE DEF cold, day
    <3>. QED
      BY <3>1, <3>2, <3>3, DealtAgain
  <2>. HIDE DEF types
  <2>6. types \in Seq(DOMAIN ContractDefs) /\ DOMAIN b = DOMAIN types
    BY <2>1, <2>5
  <2>7. types = [i \in DOMAIN b |-> b[i].metric]
    BY <2>6
  <2>8. \A i \in DOMAIN b : b[i].metric \in DOMAIN ContractDefs
    BY <2>6
  <2>9. \A i \in DOMAIN b : b[i].metric \in Counters
    BY <2>8, ContractAssumption
  <2>10. \A i \in DOMAIN b : /\ b[i].from = Field(c.baseline, b[i].metric, 0) /\ b[i].target = c.targets[i]
                             /\ b[i].from \in Int /\ (i \in 1 .. BoardSize => b[i].target \in Int)
    BY <2>6 DEF DayRow
  <2>. HIDE DEF b, c
  <2>11. Drawn(c, carried.meta.contracts, save.meta.stats, b)
    BY <1>1, <2>1, <2>5, <2>7, <2>9, <2>10 DEF Drawn
  <2>. QED
    BY <1>1, <1>3, <2>11 DEF BoardHeld, c
<1>. QED
  BY <1>2, <1>3

\* Counters are counts.
LEMMA StatsOf ==
    ASSUME NEW s, NEW now, SaveOK(s, now)
    PROVE  s.meta.stats \in [Counters -> Nat]
  BY DEF SaveOK, MetaOK

\* So the board stays what the first load of the day drew.
LEMMA BoardStep ==
    ASSUME Typed, Untouched, BoardHeld(save.meta.contracts, carried.meta.contracts, save.meta.stats, board), [Next]_vars
    PROVE  BoardHeld(save.meta.contracts, carried.meta.contracts, save.meta.stats, board)'
<1>0. save.meta.stats \in [Counters -> Nat] /\ SaveOK(save, clock)
  BY StatsOf DEF Typed
<1>. DEFINE from == carried.meta.contracts
<1>1. ASSUME NEW K, NEW scheduled, Loads(K, scheduled)
      PROVE  BoardHeld(save'.meta.contracts, carried'.meta.contracts, save'.meta.stats, board')
  <2>. DEFINE today == UtcDateKey(clock)
  <2>1. carried' = carried
    BY <1>1 DEF Loads
  <2>2. PICK x : x = save'
    OBVIOUS
  <2>3. /\ SaveOK(K, clock) /\ SaveOK(x, clock) /\ board' = RememberBoard(x)
        /\ SaveOK(scheduled, clock) /\ scheduled.meta.stats = x.meta.stats /\ scheduled.run = x.run
        /\ \A k \in Counters : K.meta.stats[k] <= x.meta.stats[k]
        /\ x.meta.contracts = IF K.meta.contracts.dateKey = today THEN K.meta.contracts ELSE Dealt(scheduled, clock)
    BY <1>1, <2>2 DEF Loads, Reads, Step, Keeps
  <2>5. K.meta.contracts = save.meta.contracts /\ \A k \in Counters : save.meta.stats[k] <= K.meta.stats[k]
    BY <1>1 DEF Loads, Reads, Step, Keeps, Parts
  <2>. HIDE DEF today
  <2>6. CASE K.meta.contracts.dateKey = today
    <3>1. x.meta.contracts = save.meta.contracts
      BY <2>3, <2>5, <2>6
    <3>2. RememberBoard(x) = board
      BY <3>1 DEF RememberBoard
    <3>3. x.meta.stats \in [Counters -> Nat] /\ K.meta.stats \in [Counters -> Nat]
      BY <2>3, StatsOf
    <3>4. \A k \in Counters : save.meta.stats[k] <= x.meta.stats[k]
      <4>1. ASSUME NEW k \in Counters PROVE save.meta.stats[k] <= x.meta.stats[k]
        <5>1. save.meta.stats[k] \in Int /\ K.meta.stats[k] \in Int /\ x.meta.stats[k] \in Int
          BY <1>0, <3>3
        <5>. QED
          BY <2>3, <2>5, <5>1
      <4>. QED
        BY <4>1
    <3>5. BoardHeld(save.meta.contracts, from, x.meta.stats, board)
      <4>. DEFINE was == save.meta.stats
                  is == x.meta.stats
                  c == save.meta.contracts
      <4>1. was \in [Counters -> Nat] /\ is \in [Counters -> Nat] /\ (\A k \in Counters : was[k] <= is[k])
            /\ BoardHeld(c, from, was, board)
        BY <1>0, <3>3, <3>4
      <4>. HIDE DEF was, is, c, from
      <4>2. BoardHeld(c, from, is, board)
        BY <4>1, BoardGrows
      <4>. QED
        BY <4>2 DEF is, c
    <3>. QED
      BY <2>1, <2>2, <2>3, <3>1, <3>2, <3>5
  <2>7. CASE K.meta.contracts.dateKey # today
    <3>1. save.meta.contracts.dateKey # UtcDateKey(clock)
      BY <2>5, <2>7 DEF today
    <3>2. x.meta.contracts = Dealt(scheduled, clock)
      BY <2>3, <2>7
    <3>3. BoardHeld(x.meta.contracts, from, x.meta.stats, RememberBoard(x))
      BY <2>3, <3>1, <3>2, BoardDealt
    <3>. QED
      BY <2>1, <2>2, <2>3, <3>3
  <2>. QED
    BY <2>6, <2>7
<1>2. CASE Moves
  <2>1. BoardMoves /\ SaveOK(save', clock) /\ carried' = carried
    BY <1>2 DEF Moves, Checked
  <2>2. PICK x : x = save'
    OBVIOUS
  <2>3. SaveOK(x, clock) /\ board' = board /\ \A k \in Counters : save.meta.stats[k] <= x.meta.stats[k]
    BY <2>1, <2>2 DEF BoardMoves
  <2>4. BoardHeld(x.meta.contracts, from, save.meta.stats, board)
    <3>1. CASE save'.meta.contracts = save.meta.contracts
      BY <2>2, <3>1
    <3>2. CASE \E i \in 1 .. BoardSize :
             /\ i \in 1 .. Len(ContractsForState(save))
             /\ Grown(save, ContractsForState(save)[i]) >= save.meta.contracts.targets[i]
             /\ save'.meta.contracts = [save.meta.contracts EXCEPT !.claimed = @ \cup {i}]
      <4>1. PICK i \in 1 .. BoardSize :
             /\ i \in 1 .. Len(ContractsForState(save))
             /\ Grown(save, ContractsForState(save)[i]) >= save.meta.contracts.targets[i]
             /\ x.meta.contracts = [save.meta.contracts EXCEPT !.claimed = @ \cup {i}]
        BY <2>2, <3>2
      <4>2. BoardHeld([save.meta.contracts EXCEPT !.claimed = @ \cup {i}], from, save.meta.stats, board)
        BY <1>0, <4>1, BoardClaims
      <4>. QED
        BY <4>1, <4>2
    <3>. QED
      BY <2>1, <3>1, <3>2 DEF BoardMoves
  <2>5. BoardHeld(x.meta.contracts, from, x.meta.stats, board)
    <3>. DEFINE was == save.meta.stats
                is == x.meta.stats
                c == x.meta.contracts
    <3>1. was \in [Counters -> Nat] /\ is \in [Counters -> Nat] /\ (\A k \in Counters : was[k] <= is[k])
          /\ BoardHeld(c, from, was, board)
      BY <1>0, <2>3, <2>4, StatsOf
    <3>. HIDE DEF was, is, c, from
    <3>2. BoardHeld(c, from, is, board)
      BY <3>1, BoardGrows
    <3>. QED
      BY <3>2 DEF is, c
  <2>. QED
    BY <2>1, <2>2, <2>3, <2>5
<1>3. CASE Resets
  BY <1>3, BoardFresh DEF Resets
<1>4. CASE Waits
  BY <1>4 DEF Waits, historyVars
<1>. QED
  BY <1>1, <1>2, <1>3, <1>4, StepIs

(***************************************************************************)
(* The inductive invariant.                                                *)
(***************************************************************************)
GameInv ==
    /\ Typed /\ Untouched
    /\ TrackHeld /\ JobsHeld /\ StreakIsEarned
    /\ PeakHeld(save.meta.legacyCores, save.meta.stats["bestLegacyCores"], peak) /\ MetHeld
    /\ Balanced
    /\ BoardHeld(save.meta.contracts, carried.meta.contracts, save.meta.stats, board)

\* The inductive invariant holds at first.
LEMMA GameInit == Init => GameInv
<1>. SUFFICES ASSUME Init PROVE GameInv
  OBVIOUS
<1>1. /\ Typed /\ Untouched /\ PlayerOK /\ clock = Start /\ carried = save /\ awayWork = 0
      /\ SaveOK(save, clock) /\ save.meta.coldStorage.trackStartedAt <= clock /\ DayRow(save.meta.contracts)
      /\ clock \in Nat
  BY InitTyped, TrackNumbers DEF Typed, Init
<1>2. TrackHeld
  BY <1>1, TrackInit
<1>3. JobsHeld
  <2>1. TimeOf(save) \in Int
    BY <1>1, TimeInt
  <2>. QED
    BY <1>1, <2>1 DEF JobsHeld
<1>4. StreakIsEarned
  BY DEF Init, StreakIsEarned
<1>5. PeakHeld(save.meta.legacyCores, save.meta.stats["bestLegacyCores"], peak)
  <2>1. /\ save.meta.stats["bestLegacyCores"] \in Nat /\ save.meta.legacyCores \in Nat
        /\ peak = Larger(save.meta.legacyCores, save.meta.stats["bestLegacyCores"])
    BY <1>1, PeakOK DEF Init, Typed
  <2>. QED
    BY <2>1 DEF PeakHeld, Larger
<1>6. MetHeld
  <2>1. lastSave # clock
    BY <1>1, ClockAssumption DEF Init, Positive
  <2>. QED
    BY <2>1 DEF MetHeld
<1>7. Balanced
  BY <1>1 DEF Balanced
<1>8. BoardHeld(save.meta.contracts, carried.meta.contracts, save.meta.stats, board)
  BY <1>1, BoardInit
<1>. QED
  BY <1>1, <1>2, <1>3, <1>4, <1>5, <1>6, <1>7, <1>8 DEF GameInv

\* Every step keeps it.
LEMMA GameStep == GameInv /\ [Next]_vars => GameInv'
  BY TypedStep, TrackStep, JobsStep, StreakStepIs, PeakStepIs, MetStep, BalancedStep, BoardStep DEF GameInv

\* Whatever the player does and whenever requests load the save, it has its
\* types and the parts of the inductive invariant hold, whatever row the player
\* came with.
THEOREM GameInvariant == Spec => []GameInv
  BY GameInit, GameStep, PTL DEF Spec

\* What the invariant says of cycles is the property.
LEMMA CyclesAre ==
    ASSUME Typed, TrackHeld
    PROVE  CyclesTakeTime
<1>. DEFINE floor == config.batchQueue.blockFloor
            f == Track(carried)
            t == Track(save)
            slack == IF carried.meta.coldStorage.blocksClaimed = Blocks THEN 1 ELSE 0
            n == (save.meta.coldStorage.trackCycle - carried.meta.coldStorage.trackCycle) - slack
            c == n * floor
<1>1. floor \in Nat /\ clock \in Nat
  BY TrackNumbers DEF Typed
<1>2. c <= t[1] - f[1] /\ t[1] <= clock
  BY DEF TrackHeld, TrackFits, Track, Slack
<1>3. t[1] \in Int /\ f[1] \in Int /\ n \in Int
  BY DEF Typed, SaveOK, MetaOK, ColdOK, Track
<1>4. f[1] = carried.meta.coldStorage.trackStartedAt
  BY DEF Track
<1>5. CyclesTakeTime <=> c <= clock - f[1]
  BY <1>4 DEF CyclesTakeTime
<1>. HIDE DEF n, floor
<1>6. c \in Int
  BY <1>1, <1>3
<1>. HIDE DEF c, t, f
<1>. QED
  BY <1>1, <1>2, <1>3, <1>5, <1>6

\* No sequence of legal requests is paid for time nobody waited (ColdStorage
\* and Daily handlers of reducer.js, AccrueJob of state.js).
THEOREM RewardsEarned == Spec => []RewardsAreEarned
<1>1. GameInv => RewardsAreEarned
  BY CyclesAre, JobsHeldIs DEF GameInv, RewardsAreEarned
<1>. QED
  BY <1>1, GameInvariant, PTL

\* Whatever a player reached is held as an achievement once a request has loaded
\* the save, and the most cores ever held is on record or still held
\* (checkAchievements and recordLegacyCorePeak at every place that needs them).
THEOREM NothingMissed == Spec => []NothingReachedIsMissed
<1>1. GameInv => NothingReachedIsMissed
  BY DEF GameInv, NothingReachedIsMissed, MetHeld, PeakHeld
<1>. QED
  BY <1>1, GameInvariant, PTL

\* Tapes, wafers and xp earned are held or were spent, but for what the row came
\* with: every payer moves balance and lifetime counter alike, and every buyer
\* takes exactly its price.
THEOREM Balances == Spec => []BalancesAddUp
<1>1. GameInv => BalancesAddUp
  BY BalancedIs DEF GameInv
<1>. QED
  BY <1>1, GameInvariant, PTL

\* The board drawn again from the stored date is the one the day's first load
\* dealt, and a claimed contract was met by what was done since (contracts.js).
THEOREM ContractsMeasured == Spec => []ContractsMeasureToday
<1>1. GameInv => ContractsMeasureToday
  BY BoardIs DEF GameInv
<1>. QED
  BY <1>1, GameInvariant, PTL

(***************************************************************************)
(* What striking and scheduling leave alone: all that production is        *)
(* computed from, but for outages that are added.                          *)
(***************************************************************************)
Carries(s, t) ==
    /\ t.run = s.run /\ t.meta.stats = s.meta.stats /\ t.meta.shardUpgrades = s.meta.shardUpgrades
    /\ t.server.boost = s.server.boost /\ s.server.outages \subseteq t.server.outages

\* Carrying is transitive.
LEMMA CarriesOn ==
    ASSUME NEW s, NEW t, NEW u, Carries(s, t), Carries(t, u)
    PROVE  Carries(s, u)
  BY Zenon DEF Carries

\* And reflexive.
LEMMA CarriesSelf ==
    ASSUME NEW s
    PROVE  Carries(s, s)
  BY Zenon DEF Carries

\* A schedule may change and outages be added.
LEMMA ServerCarries ==
    ASSUME NEW s, NEW now, SaveOK(s, now), NEW v, v.boost = s.server.boost, s.server.outages \subseteq v.outages
    PROVE  Carries(s, [s EXCEPT !.server = v])
<1>1. [s EXCEPT !.server = v].run = s.run /\ [s EXCEPT !.server = v].meta = s.meta
      /\ [s EXCEPT !.server = v].server = v
  BY DEF SaveOK
<1>. QED
  BY <1>1, Zenon DEF Carries

\* Scheduling the next hazard is such a step.
LEMMA HazardsCarry ==
    ASSUME NEW s, NEW now, SaveOK(s, now), NEW t, NEW x \in ScheduledHazards(s, t)
    PROVE  Carries(s, x)
<1>1. PICK d \in config.risk.hazardDelays : x = [s EXCEPT !.server.nextHazardAt = t + d]
  BY DEF ScheduledHazards
<1>. DEFINE v == [s.server EXCEPT !.nextHazardAt = t + d]
<1>2. x = [s EXCEPT !.server = v]
  BY <1>1 DEF SaveOK
<1>3. v.boost = s.server.boost /\ v.outages = s.server.outages
  BY DEF SaveOK, ServerOK, ServerFields
<1>. HIDE DEF v
<1>. QED
  BY <1>2, <1>3, ServerCarries

\* So is absorbing a hazard or going down.
LEMMA AbsorbCarries ==
    ASSUME NEW s, NEW now, SaveOK(s, now), NEW h, h.kind \in Hazards
    PROVE  Carries(s, AbsorbOrGoDown(s, h))
<1>. DEFINE supply == SupplyForKind[h.kind]
            absorbed == s.meta.supplies[supply] >= 1
            notices == s.server.outageNotices \cup {[kind |-> h.kind, absorbed |-> absorbed, at |-> h.startAt]}
            v == [s.server EXCEPT !.outageNotices = notices]
            told == [s EXCEPT !.server = v]
            ups == [s.meta.supplies EXCEPT ![supply] = @ - 1]
            m == [s.meta EXCEPT !.supplies = ups]
            w == [v EXCEPT !.outages = @ \cup {h}]
<1>1. [s EXCEPT !.server.outageNotices = notices] = told
  BY DEF SaveOK
<1>2. AbsorbOrGoDown(s, h) = IF absorbed THEN [told EXCEPT !.meta.supplies[supply] = @ - 1]
                             ELSE [told EXCEPT !.server.outages = @ \cup {h}]
  BY <1>1 DEF AbsorbOrGoDown
<1>. HIDE DEF notices, supply
<1>3. /\ DOMAIN told = {"run", "meta", "server"}
      /\ told.run = s.run /\ told.meta = s.meta /\ told.server = v
  BY DEF SaveOK
<1>4. v.boost = s.server.boost /\ v.outages = s.server.outages /\ DOMAIN v = ServerFields
  BY DEF SaveOK, ServerOK, ServerFields
<1>. HIDE DEF told, v, absorbed
<1>5. CASE absorbed
  <2>1. [told EXCEPT !.meta.supplies[supply] = @ - 1] = [told EXCEPT !.meta = m]
    BY <1>3
  <2>2. m.stats = s.meta.stats /\ m.shardUpgrades = s.meta.shardUpgrades
    BY DEF SaveOK, MetaOK, MetaFields
  <2>. HIDE DEF m
  <2>3. [told EXCEPT !.meta = m].meta = m /\ [told EXCEPT !.meta = m].run = s.run /\ [told EXCEPT !.meta = m].server = v
    BY <1>3
  <2>. QED
    BY <1>2, <1>4, <1>5, <2>1, <2>2, <2>3, Zenon DEF Carries
<1>6. CASE ~absorbed
  <2>1. [told EXCEPT !.server.outages = @ \cup {h}] = [told EXCEPT !.server = w]
    BY <1>3
  <2>2. w.boost = s.server.boost /\ s.server.outages \subseteq w.outages
    BY <1>4 DEF ServerFields
  <2>. HIDE DEF w
  <2>3. [told EXCEPT !.server = w].meta = s.meta /\ [told EXCEPT !.server = w].run = s.run
        /\ [told EXCEPT !.server = w].server = w
    BY <1>3
  <2>. QED
    BY <1>2, <1>6, <2>1, <2>2, <2>3, Zenon DEF Carries
<1>. QED
  BY <1>5, <1>6

\* So is a hazard that fires.
LEMMA FireHazardCarries ==
    ASSUME PlayerOK, NEW s, NEW now \in 0 .. MaxClock, SaveOK(s, now), Due(s, now), NEW x \in FireHazard(s)
    PROVE  Carries(s, x)
<1>. DEFINE t == s.server.nextHazardAt
            h == HazardFrom(t, s)
            isNew == h # None /\ \A o \in s.server.outages : o.id # <<"hazard", t>>
            y == IF isNew THEN AbsorbOrGoDown(s, h) ELSE s
<1>1. t \in 0 .. MaxClock /\ t <= now /\ t \in Nat
  BY ClockAssumption DEF SaveOK, ServerOK, Due
<1>2. x \in ScheduledHazards(y, t)
  BY DEF FireHazard
<1>3. h # None => OutageOK(h, now) /\ h.kind \in Hazards
  <2>. HIDE DEF t
  <2>. QED BY <1>1, HazardOK
<1>. HIDE DEF h, t
<1>4. Carries(s, y) /\ SaveOK(y, now)
  <2>1. SaveOK(s, now) /\ Carries(s, s)
    BY CarriesSelf
  <2>2. isNew => Carries(s, AbsorbOrGoDown(s, h)) /\ SaveOK(AbsorbOrGoDown(s, h), now)
    BY <1>3, AbsorbCarries, AbsorbStep DEF Step
  <2>. QED BY <2>1, <2>2
<1>. HIDE DEF y
<1>5. Carries(y, x)
  BY <1>2, <1>4, HazardsCarry
<1>. QED
  BY <1>4, <1>5, CarriesOn

\* So is firing all that are due.
LEMMA FiredCarries ==
    ASSUME PlayerOK, NEW s, NEW now \in 0 .. MaxClock, SaveOK(s, now), NEW x \in FireDueHazards(s, now)
    PROVE  Carries(s, x)
<1>. DEFINE Reached(T) == \A y \in T : SaveOK(y, now) /\ Carries(s, y)
<1>0. now \in Nat /\ MaxHazards \in Nat
  BY DrawAssumption DEF Positive
<1>1. PICK fired : Firing(s, now, fired)
  BY FiringExists
<1>2. Reached({s})
  BY CarriesSelf
<1>3. ASSUME NEW T, Reached(T) PROVE Reached(FireDue(T, now))
  <2>1. ASSUME NEW y \in FireDue(T, now) PROVE SaveOK(y, now) /\ Carries(s, y)
    <3>1. PICK z \in T : y \in IF Due(z, now) THEN FireHazard(z) ELSE {z}
      BY <2>1 DEF FireDue
    <3>2. SaveOK(z, now) /\ Carries(s, z)
      BY <1>3, <3>1
    <3>3. SaveOK(y, now) /\ Carries(z, y)
      <4>1. CASE Due(z, now)
        BY <3>1, <3>2, <4>1, FireHazardStep, FireHazardCarries DEF Step
      <4>2. CASE ~Due(z, now)
        BY <3>1, <3>2, <4>2, CarriesSelf
      <4>. QED
        BY <4>1, <4>2
    <3>. QED
      BY <3>2, <3>3, CarriesOn
  <2>. QED
    BY <2>1
<1>4. Reached(fired[MaxHazards])
  <2>. DEFINE Ns == {n \in Nat : n <= MaxHazards => Reached(fired[n])}
  <2>1. 0 \in Ns
    BY <1>1, <1>2 DEF Firing
  <2>2. ASSUME NEW n \in Ns PROVE n + 1 \in Ns
    <3>1. n + 1 <= MaxHazards => fired[n + 1] = FireDue(fired[n], now)
      <4>1. n \in Nat /\ n + 1 # 0 /\ (n + 1) - 1 = n
        OBVIOUS
      <4>2. n + 1 <= MaxHazards => n + 1 \in 0 .. MaxHazards
        BY <1>0, <4>1
      <4>. QED
        BY <1>1, <4>1, <4>2 DEF Firing
    <3>. HIDE DEF Reached
    <3>. QED
      BY <1>0, <1>3, <2>2, <3>1
  <2>3. Ns = Nat
    <3>. HIDE DEF Reached
    <3>. QED BY <2>1, <2>2, AllNumbers
  <2>. HIDE DEF Reached
  <2>. QED
    BY <1>0, <2>3
<1>5. CASE ~RiskOn("hazardsEnabled")
  BY <1>1, <1>2, <1>5 DEF Firing
<1>6. CASE RiskOn("hazardsEnabled") /\ s.server.nextHazardAt = 0
  BY <1>1, <1>6, HazardsCarry DEF Firing
<1>7. CASE RiskOn("hazardsEnabled") /\ s.server.nextHazardAt # 0
  <2>1. PICK z \in fired[MaxHazards] : x \in IF Due(z, now) THEN ScheduledHazards(z, now) ELSE {z}
    BY <1>1, <1>7 DEF Firing, Reschedule
  <2>2. SaveOK(z, now) /\ Carries(s, z)
    BY <1>4, <2>1
  <2>3. Carries(z, x)
    BY <2>1, <2>2, HazardsCarry, CarriesSelf
  <2>. QED
    BY <2>2, <2>3, CarriesOn
<1>. QED
  BY <1>5, <1>6, <1>7

\* So is a maintenance window that begins.
LEMMA ActivateCarries ==
    ASSUME NEW s, NEW now, SaveOK(s, now)
    PROVE  Carries(s, ActivateDueMaintenance(s, now))
<1>. DEFINE gm == s.server.gridMaintenance
            outage == [id |-> <<"maintenance", gm.startAt>>, kind |-> "maintenance",
                   scope |-> [lane |-> "grid", index |-> gm.index], factor |-> 0,
                   startAt |-> gm.startAt, endAt |-> gm.endAt, source |-> "scheduled"]
            outs == s.server.outages \cup {outage}
            v == [[s.server EXCEPT !.gridMaintenance = None] EXCEPT !.outages = outs]
<1>1. CASE ~RiskOn("maintenanceEnabled") \/ gm = None \/ gm.startAt > now
  <2>1. ActivateDueMaintenance(s, now) = s
    BY <1>1 DEF ActivateDueMaintenance
  <2>. QED
    BY <2>1, CarriesSelf
<1>2. CASE RiskOn("maintenanceEnabled") /\ gm # None /\ ~(gm.startAt > now)
  <2>1. ActivateDueMaintenance(s, now) = [s EXCEPT !.server = v]
    BY <1>2 DEF ActivateDueMaintenance, SaveOK, ServerOK, ServerFields
  <2>. HIDE DEF outage
  <2>2. v.boost = s.server.boost /\ s.server.outages \subseteq v.outages
    BY DEF SaveOK, ServerOK, ServerFields
  <2>. HIDE DEF v
  <2>. QED
    BY <2>1, <2>2, ServerCarries
<1>. QED
  BY <1>1, <1>2

\* So is scheduling maintenance.
LEMMA MaintenanceCarries ==
    ASSUME NEW s, NEW now, SaveOK(s, now), NEW x \in ScheduledMaintenance(s, now)
    PROVE  Carries(s, x)
<1>1. PICK i \in Grid, d \in config.risk.maintenanceDelays :
         x = [s EXCEPT !.server.gridMaintenance =
                 [index |-> i, startAt |-> now + d, endAt |-> now + d + config.risk.maintenanceDuration]]
  BY DEF ScheduledMaintenance
<1>. DEFINE w == [index |-> i, startAt |-> now + d, endAt |-> now + d + config.risk.maintenanceDuration]
            v == [s.server EXCEPT !.gridMaintenance = w]
<1>2. x = [s EXCEPT !.server = v]
  BY <1>1 DEF SaveOK
<1>. HIDE DEF w
<1>3. v.boost = s.server.boost /\ v.outages = s.server.outages
  BY DEF SaveOK, ServerOK, ServerFields
<1>. HIDE DEF v
<1>. QED
  BY <1>2, <1>3, ServerCarries

\* So is scheduling an anomaly.
LEMMA AnomalyCarries ==
    ASSUME NEW s, NEW now, SaveOK(s, now), NEW t, NEW x \in ScheduledAnomaly(s, t)
    PROVE  Carries(s, x)
<1>1. PICK d \in config.anomaly.delays :
         x = [s EXCEPT !.server.nextAnomalyAt = t + d, !.server.anomalyExpiresAt = t + d + config.anomaly.window]
  BY DEF ScheduledAnomaly
<1>. DEFINE n == t + d
            e == t + d + config.anomaly.window
            v == [[s.server EXCEPT !.nextAnomalyAt = n] EXCEPT !.anomalyExpiresAt = e]
<1>2. x = [s EXCEPT !.server = v]
  BY <1>1 DEF SaveOK
<1>. HIDE DEF n, e
<1>3. v.boost = s.server.boost /\ v.outages = s.server.outages
  BY DEF SaveOK, ServerOK, ServerFields
<1>. HIDE DEF v
<1>. QED
  BY <1>2, <1>3, ServerCarries

\* So is scheduling whatever is missing.
LEMMA ScheduledCarries ==
    ASSUME PlayerOK, NEW s, NEW now \in Nat, SaveOK(s, now), NEW x \in Scheduled(s, now)
    PROVE  Carries(s, x)
<1>. DEFINE A == IF AnomalyMissed(s, now) THEN ScheduledAnomaly(s, now) ELSE {s}
            H(a) == IF a.server.nextHazardAt = 0 THEN ScheduledHazards(a, now) ELSE {a}
            M(h) == IF h.server.gridMaintenance = None THEN ScheduledMaintenance(h, now) ELSE {h}
<1>1. PICK h \in UNION {H(a) : a \in A} : x \in M(h)
  BY DEF Scheduled
<1>2. PICK a \in A : h \in H(a)
  BY <1>1
<1>3. Carries(s, a) /\ SaveOK(a, now)
  BY ScheduledAnomalyStep, AnomalyCarries, CarriesSelf DEF Step
<1>. HIDE DEF A
<1>4. Carries(a, h) /\ SaveOK(h, now)
  BY <1>2, <1>3, ScheduledHazardsStep, HazardsCarry, CarriesSelf DEF Step
<1>. HIDE DEF H
<1>5. Carries(h, x)
  BY <1>1, <1>4, MaintenanceCarries, CarriesSelf
<1>. QED
  BY <1>3, <1>4, <1>5, CarriesOn

\* A strike adds outages, or, with the risk system off, takes all of them away.
LEMMA StruckCarries ==
    ASSUME PlayerOK, NEW s, NEW last, NEW now \in 0 .. MaxClock, SaveOK(s, now), NEW x \in Struck(s, last, now)
    PROVE  IF now - last < 1 \/ riskEnabled THEN Carries(s, x)
           ELSE Carries([s EXCEPT !.server.outages = {}], x) /\ x.server.outages = {}
<1>. DEFINE v == [s.server EXCEPT !.outageNotices = {}]
            y == [s EXCEPT !.server = v]
<1>1. now \in Nat
  OBVIOUS
<1>2. CASE now - last < 1
  BY <1>2, CarriesSelf DEF Struck
<1>3. CASE ~(now - last < 1)
  <2>1. x \in Strike(y, now)
    <3>1. [s EXCEPT !.server.outageNotices = {}] = y
      BY DEF SaveOK
    <3>. QED
      BY <1>3, <3>1 DEF Struck
  <2>2. ServerOK(v, now) /\ v.boost = s.server.boost /\ v.outages = s.server.outages
    BY DEF SaveOK, ServerOK, ServerFields
  <2>3. DOMAIN y = {"run", "meta", "server"} /\ y.run = s.run /\ y.meta = s.meta /\ y.server = v
    BY DEF SaveOK
  <2>4. DOMAIN v = ServerFields
    BY <2>2 DEF ServerOK
  <2>. HIDE DEF v
  <2>5. SaveOK(y, now) /\ Carries(s, y)
    BY <2>2, NewServer, ServerCarries DEF Step
  <2>. HIDE DEF y
  <2>6. CASE riskEnabled
    <3>. DEFINE z == ActivateDueMaintenance(y, now)
    <3>1. SaveOK(z, now) /\ Carries(y, z) /\ x \in FireDueHazards(z, now)
      BY <1>1, <2>1, <2>5, <2>6, ActivateMaintenanceStep, ActivateCarries DEF Strike, Step
    <3>. HIDE DEF z
    <3>2. Carries(z, x)
      BY <3>1, FiredCarries
    <3>3. Carries(s, x)
      BY <2>5, <3>1, <3>2, CarriesOn
    <3>. QED
      BY <2>6, <3>3
  <2>7. CASE ~riskEnabled
    <3>1. x = [y EXCEPT !.server.outages = {}, !.server.gridMaintenance = None]
      BY <2>1, <2>7 DEF Strike
    <3>2. x.run = s.run /\ x.meta = s.meta /\ x.server.boost = s.server.boost /\ x.server.outages = {}
      BY <2>2, <2>3, <2>4, <3>1 DEF ServerFields
    <3>. DEFINE r == [s EXCEPT !.server.outages = {}]
    <3>3. r.run = s.run /\ r.meta = s.meta /\ r.server.boost = s.server.boost /\ r.server.outages = {}
      BY DEF SaveOK, ServerOK, ServerFields
    <3>. HIDE DEF r
    <3>4. Carries(r, x)
      BY <3>2, <3>3, Zenon DEF Carries
    <3>. QED
      BY <1>3, <2>7, <3>2, <3>4 DEF r
  <2>. QED
    BY <2>6, <2>7
<1>. QED
  BY <1>2, <1>3

(***************************************************************************)
(* What follows the payment adds no output and drops no outage that lasts. *)
(***************************************************************************)
Lives(s, t) == t.meta.stats = s.meta.stats /\ s.server.outages \subseteq t.server.outages

Flops(s) == s.meta.stats["lifetimeFlopsAllTime"]

\* Accruing a job changes no counter and no outage.
LEMMA AccrueLives ==
    ASSUME NEW s, NEW now, SaveOK(s, now), NEW elapsed
    PROVE  Lives(s, AccrueJob(s, elapsed))
<1>. DEFINE old == s.meta.coldStorage.job
            got == Smaller(config.batchQueue.jobs[old.type].duration, old.accruedOfflineSec + elapsed * OfflineJobRate(s))
            c == [s.meta.coldStorage EXCEPT !.job = [old EXCEPT !.accruedOfflineSec = got]]
            m == [s.meta EXCEPT !.coldStorage = c]
<1>1. CASE old = None
  BY <1>1, Zenon DEF AccrueJob, Lives
<1>2. CASE old # None
  <2>1. AccrueJob(s, elapsed) = [s EXCEPT !.meta.coldStorage.job.accruedOfflineSec = got]
    BY <1>2 DEF AccrueJob
  <2>. HIDE DEF got
  <2>2. [s EXCEPT !.meta.coldStorage.job.accruedOfflineSec = got] = [s EXCEPT !.meta = m]
    BY DEF SaveOK, MetaOK, MetaFields, ColdOK
  <2>. HIDE DEF c
  <2>3. m.stats = s.meta.stats
    BY DEF SaveOK, MetaOK, MetaFields
  <2>. HIDE DEF m
  <2>4. [s EXCEPT !.meta = m].meta = m /\ [s EXCEPT !.meta = m].server = s.server
    BY DEF SaveOK
  <2>. QED
    BY <2>1, <2>2, <2>3, <2>4, Zenon DEF Lives
<1>. QED
  BY <1>1, <1>2

\* Nor does a change of the run alone.
LEMMA RunLives ==
    ASSUME NEW s, NEW now, SaveOK(s, now), NEW r
    PROVE  Lives(s, [s EXCEPT !.run = r])
<1>1. [s EXCEPT !.run = r].meta = s.meta /\ [s EXCEPT !.run = r].server = s.server
  BY DEF SaveOK
<1>. QED
  BY <1>1, Zenon DEF Lives

\* A meltdown may add an outage.
LEMMA OverheatLives ==
    ASSUME NEW s, NEW now, SaveOK(s, now), NEW t
    PROVE  Lives(s, Overheat(s, t))
<1>. DEFINE outage == [id |-> <<"overheat", t>>, kind |-> "overheat",
                   scope |-> [lane |-> "tiers", index |-> Pick(OwnedTiers(s), t, 2)], factor |-> 0,
                   startAt |-> t, endAt |-> t + config.risk.overheatOutage, source |-> "overheat"]
            y == [s EXCEPT !.run.heat = 0]
            a == [y EXCEPT !.server.outages = @ \cup {outage}]
            b == [y EXCEPT !.run.heatCooldownUntil = t + config.heat.overheatCooldown]
<1>1. Overheat(s, t) = a \/ Overheat(s, t) = b
  BY DEF Overheat
<1>2. DOMAIN y = {"run", "meta", "server"} /\ y.meta = s.meta /\ y.server = s.server
  BY DEF SaveOK
<1>. HIDE DEF y, outage
<1>3. a.meta = s.meta /\ s.server.outages \subseteq a.server.outages
  BY <1>2 DEF SaveOK, ServerOK, ServerFields
<1>4. b.meta = s.meta /\ b.server = s.server
  BY <1>2
<1>. HIDE DEF a, b
<1>. QED
  BY <1>1, <1>3, <1>4, Zenon DEF Lives

\* So may warming up.
LEMMA WarmLives ==
    ASSUME NEW s, NEW now, SaveOK(s, now), NEW elapsed, NEW t
    PROVE  Lives(s, Warm(s, elapsed, t)) /\ Lives(s, Thaw(s, t))
<1>. DEFINE owned == SumFunction([i \in Overclock |-> s.run.overclock[i].owned])
            heat == s.run.heat + owned * config.heat.perSec * elapsed
            q == [s EXCEPT !.run.heatCooldownUntil = None]
<1>1. \/ Warm(s, elapsed, t) = s \/ Warm(s, elapsed, t) = Overheat(q, t)
      \/ Warm(s, elapsed, t) = [q EXCEPT !.run.heat = heat]
  BY DEF Warm
<1>2. Thaw(s, t) = s \/ Thaw(s, t) = q
  BY DEF Thaw
<1>. HIDE DEF heat
<1>3. q = [s EXCEPT !.run = [s.run EXCEPT !.heatCooldownUntil = None]]
  BY DEF SaveOK
<1>4. RunOK([s.run EXCEPT !.heatCooldownUntil = None])
  BY DEF SaveOK, RunOK
<1>5. SaveOK(q, now) /\ Lives(s, q)
  BY <1>3, <1>4, NewRun, RunLives DEF Step
<1>. HIDE DEF q
<1>6. [q EXCEPT !.run.heat = heat] = [q EXCEPT !.run = [q.run EXCEPT !.heat = heat]]
  BY <1>5 DEF SaveOK
<1>7. Lives(q, [q EXCEPT !.run.heat = heat]) /\ Lives(q, Overheat(q, t))
  BY <1>5, <1>6, RunLives, OverheatLives
<1>8. Lives(s, s)
  BY Zenon DEF Lives
<1>9. \A u : Lives(q, u) => Lives(s, u)
  BY <1>5, Zenon DEF Lives
<1>. QED
  BY <1>1, <1>2, <1>5, <1>7, <1>8, <1>9

\* Production is added to the lifetime counter.
LEMMA ProducePays ==
    ASSUME NEW s, NEW now, SaveOK(s, now), NEW last
    PROVE  /\ Flops(Produce(s, last, now)) = Flops(s) + TotalProduced(s, last, now, Weights(s.server.outages, last, now))
           /\ Produce(s, last, now).server = s.server
<1>. DEFINE weight == Weights(s.server.outages, last, now)
            total == TotalProduced(s, last, now, weight)
            kept == LaneProduced(s, "tiers", {i \in Tiers : ~s.run.tiers[i].manager}, last, now, weight)
            tiers == [i \in Tiers |->
                        IF s.run.tiers[i].manager THEN s.run.tiers[i]
                        ELSE [s.run.tiers[i] EXCEPT !.ready = @ + Produced(s, "tiers", i, last, now, weight.tiers[i])]]
            x == Produce(s, last, now)
<1>1. x = [s EXCEPT !.run.credits = @ + total - kept, !.run.lifetimeRun = @ + total, !.run.tiers = tiers,
                    !.meta.stats["lifetimeFlopsAllTime"] = @ + total]
  BY DEF Produce
<1>2. Flops(s) + TotalProduced(s, last, now, Weights(s.server.outages, last, now)) = Flops(s) + total
  OBVIOUS
<1>. HIDE DEF total, kept, tiers, x
<1>3. Flops(x) = Flops(s) + total /\ x.server = s.server
  BY <1>1 DEF SaveOK, MetaOK, MetaFields, Counters, Flops
<1>. QED
  BY <1>2, <1>3 DEF x

\* A gap is paid for once; outages that last beyond it are kept.
LEMMA SettledPays ==
    ASSUME PlayerOK, NEW s, NEW last \in Int, NEW now \in Nat, last < now, SaveOK(s, now)
    PROVE  LET x == Settled(s, last, now)
           IN  /\ Flops(x) = Flops(s) + TotalProduced(s, last, now, Weights(s.server.outages, last, now))
               /\ \A o \in s.server.outages : o.endAt > now => o \in x.server.outages
<1>. DEFINE x == Settled(s, last, now)
            paid == Produce(s, last, now)
            gap == now - last
            a == AccrueJob(paid, gap)
            lived == IF Online(last, now) THEN Warm(paid, gap, now) ELSE Thaw(a, now)
            outs == PruneExpired(lived.server.outages, now)
            boost == IF lived.server.boost # None /\ now >= lived.server.boost.until THEN None ELSE lived.server.boost
<1>1. gap \in Nat /\ ~(now - last < 1)
  OBVIOUS
<1>2. SaveOK(paid, now) /\ paid.server = s.server
      /\ Flops(paid) = Flops(s) + TotalProduced(s, last, now, Weights(s.server.outages, last, now))
  BY ProduceStep, ProducePays DEF Step
<1>3. x = [lived EXCEPT !.server.outages = PruneExpired(@, now),
                        !.server.boost = IF @ # None /\ now >= @.until THEN None ELSE @]
  BY <1>1 DEF Settled, Settle
<1>. HIDE DEF paid, gap
<1>4. SaveOK(a, now) /\ Lives(paid, a)
  BY <1>1, <1>2, AccrueStep, AccrueLives DEF Step
<1>5. SaveOK(lived, now) /\ Lives(paid, lived)
  <2>1. SaveOK(Warm(paid, gap, now), now) /\ Lives(paid, Warm(paid, gap, now))
    BY <1>1, <1>2, WarmStep, WarmLives DEF Step
  <2>. HIDE DEF a
  <2>2. SaveOK(Thaw(a, now), now) /\ Lives(a, Thaw(a, now))
    <3>1. 0 \in Nat
      OBVIOUS
    <3>. QED BY <1>4, <3>1, WarmStep, WarmLives DEF Step
  <2>3. Lives(paid, Thaw(a, now))
    BY <1>4, <2>2, Zenon DEF Lives
  <2>. QED
    BY <2>1, <2>2, <2>3
<1>. HIDE DEF lived, a
<1>6. x = [lived EXCEPT !.server.outages = outs, !.server.boost = boost]
  BY <1>3, <1>5 DEF SaveOK, ServerOK, ServerFields
<1>7. outs = {o \in lived.server.outages : o.endAt > now}
  BY DEF PruneExpired
<1>. HIDE DEF outs, boost, x
<1>8. x.server.outages = outs /\ x.meta = lived.meta
  BY <1>5, <1>6 DEF SaveOK, ServerOK, ServerFields
<1>9. Flops(x) = Flops(paid)
  BY <1>5, <1>8, Zenon DEF Lives, Flops
<1>10. \A o \in s.server.outages : o.endAt > now => o \in x.server.outages
  BY <1>2, <1>5, <1>7, <1>8 DEF Lives
<1>. QED
  BY <1>2, <1>9, <1>10 DEF x

(***************************************************************************)
(* What production over a gap is computed from, outages aside.             *)
(***************************************************************************)
Rates(s) ==
    <<s.run.tiers, s.run.grid, s.run.overclock, s.run.heatCooldownUntil, s.meta.shardUpgrades, s.server.boost>>

\* Equal rates, equal production.
LEMMA SameProduction ==
    ASSUME NEW s, NEW x, Rates(x) = Rates(s), NEW last, NEW now, NEW weight
    PROVE  TotalProduced(x, last, now, weight) = TotalProduced(s, last, now, weight)
<1>1. /\ \A lane \in Lanes : x.run[lane] = s.run[lane]
      /\ x.run.heatCooldownUntil = s.run.heatCooldownUntil /\ x.meta.shardUpgrades = s.meta.shardUpgrades
      /\ x.server.boost = s.server.boost
  BY DEF Rates, Lanes
<1>2. MilestoneThresholds(x) = MilestoneThresholds(s)
  BY <1>1 DEF MilestoneThresholds
<1>3. \A lane, n : TierRate(x, lane, n) = TierRate(s, lane, n)
  BY <1>2 DEF TierRate
<1>4. \A lane \in Lanes : LaneOutput(x, lane) = LaneOutput(s, lane)
  <2>1. ASSUME NEW lane \in Lanes PROVE LaneOutput(x, lane) = LaneOutput(s, lane)
    <3>1. \A i \in Units[lane] : TierRate(x, lane, x.run[lane][i].owned) = TierRate(s, lane, s.run[lane][i].owned)
      BY <1>1, <1>3
    <3>2. [i \in Units[lane] |-> TierRate(x, lane, x.run[lane][i].owned)]
          = [i \in Units[lane] |-> TierRate(s, lane, s.run[lane][i].owned)]
      BY <3>1
    <3>. QED
      BY <3>2, Zenon DEF LaneOutput
  <2>. QED
    BY <2>1
<1>5. RacksWith(x, last, now) = RacksWith(s, last, now) /\ Boost(x, last, now) = Boost(s, last, now)
  <2>1. OverclockBonus(x) = OverclockBonus(s) /\ Frozen(x, now) = Frozen(s, now) /\ BoostMult(x, now) = BoostMult(s, now)
    <3>1. "tiers" \in Lanes /\ "overclock" \in Lanes
      BY DEF Lanes
    <3>2. OverclockBonus(x) = OverclockBonus(s)
      BY <1>4, <3>1 DEF OverclockBonus
    <3>3. Frozen(x, now) = Frozen(s, now)
      BY <1>1, Zenon DEF Frozen
    <3>4. BoostMult(x, now) = BoostMult(s, now)
      BY <1>1 DEF BoostMult
    <3>. QED
      BY <3>2, <3>3, <3>4
  <2>2. LaneOutput(x, "tiers") = LaneOutput(s, "tiers")
    BY <1>4 DEF Lanes
  <2>. QED
    BY <2>1, <2>2, Zenon DEF RacksWith, Boost
<1>6. ASSUME NEW lane \in {"tiers", "grid"}, NEW i, NEW w
      PROVE  Produced(x, lane, i, last, now, w) = Produced(s, lane, i, last, now, w)
  <2>1. lane \in Lanes /\ "tiers" \in Lanes
    BY DEF Lanes
  <2>2. TierRate(x, lane, x.run[lane][i].owned) = TierRate(s, lane, s.run[lane][i].owned)
    BY <1>1, <1>3, <2>1
  <2>3. LaneOutput(x, "tiers") = LaneOutput(s, "tiers")
    BY <1>4, <2>1
  <2>. QED
    BY <1>5, <2>2, <2>3, Zenon DEF Produced
<1>7. ASSUME NEW lane \in {"tiers", "grid"}, NEW is
      PROVE  LaneProduced(x, lane, is, last, now, weight) = LaneProduced(s, lane, is, last, now, weight)
  <2>1. \A i \in is : Produced(x, lane, i, last, now, weight[lane][i]) = Produced(s, lane, i, last, now, weight[lane][i])
    BY <1>6
  <2>2. [i \in is |-> Produced(x, lane, i, last, now, weight[lane][i])]
        = [i \in is |-> Produced(s, lane, i, last, now, weight[lane][i])]
    BY <2>1
  <2>. QED
    BY <2>2, Zenon DEF LaneProduced
<1>. QED
  BY <1>7 DEF TotalProduced

\* What carries a save keeps its rates.
LEMMA CarriesRates ==
    ASSUME NEW s, NEW t, Carries(s, t)
    PROVE  Rates(t) = Rates(s) /\ Flops(t) = Flops(s)
  BY Zenon DEF Carries, Rates, Flops

\* Nothing that production is computed from is lost on the way to storage and back.
LEMMA StoredRates ==
    ASSUME NEW s, NEW t, SaveOK(s, t), NEW now
    PROVE  LET x == MigrateSave(s, now)
           IN  /\ Rates(x) = Rates(s) /\ Flops(x) = Flops(s)
               /\ x.server.outages = {o \in s.server.outages : o.endAt > o.startAt}
<1>. DEFINE r == ReadRun(s.run, FreshRun)
            m == ReadMeta(s.meta, FreshMeta(now))
            v == ReadServer(s.server, FreshServer)
            x == MigrateSave(s, now)
            F == {"credits", "lifetimeRun", "tiers", "grid", "overclock", "heat", "heatCooldownUntil"}
            down == {o \in s.server.outages : o.endAt > o.startAt}
<1>1. x = [run |-> r, meta |-> m, server |-> v]
  <2>1. Field(s, "run", Nothing) = s.run /\ Field(s, "meta", Nothing) = s.meta /\ Field(s, "server", Nothing) = s.server
    BY DEF Field, SaveOK
  <2>. QED
    BY <2>1, MigrateIs
<1>2. /\ r.tiers = s.run.tiers /\ r.grid = s.run.grid /\ r.overclock = s.run.overclock
      /\ r.heatCooldownUntil = s.run.heatCooldownUntil
  <2>1. DOMAIN s.run = F /\ DOMAIN FreshRun = F
    BY FreshDomains DEF SaveOK, RunOK
  <2>2. /\ PadArray(s.run.tiers, FreshRun.tiers) = s.run.tiers
        /\ PadArray(s.run.grid, FreshRun.grid) = s.run.grid
        /\ PadArray(s.run.overclock, FreshRun.overclock) = s.run.overclock
    <3>1. FreshRun.grid = [i \in Grid |-> [owned |-> 0]] /\ FreshRun.overclock = [i \in Overclock |-> [owned |-> 0]]
      BY DEF FreshRun
    <3>. QED
      BY <3>1, PadRacks, PadNodes DEF SaveOK, RunOK
  <2>3. Field(s.run, "tiers", Nothing) = s.run.tiers /\ Field(s.run, "grid", Nothing) = s.run.grid
        /\ Field(s.run, "overclock", Nothing) = s.run.overclock
    BY <2>1 DEF Field
  <2>. DEFINE o == Over(s.run, FreshRun)
  <2>4. DOMAIN o = F /\ o.heatCooldownUntil = s.run.heatCooldownUntil
    BY <2>1, SameOver
  <2>. HIDE DEF o
  <2>5. r = [o EXCEPT !.tiers = s.run.tiers, !.grid = s.run.grid, !.overclock = s.run.overclock]
    BY <2>2, <2>3 DEF ReadRun, o
  <2>. HIDE DEF r
  <2>. QED
    BY <2>4, <2>5
<1>3. m.shardUpgrades = s.meta.shardUpgrades /\ m.stats = s.meta.stats
  BY ReadMetaOK DEF SaveOK, MetaFields
<1>4. v.boost = s.server.boost /\ v.outages = down
  <2>. DEFINE o == Over(s.server, FreshServer)
              gm == s.server.gridMaintenance
              g == IF gm = None THEN None ELSE IF gm.endAt > gm.startAt THEN gm ELSE None
  <2>1. DOMAIN s.server = ServerFields /\ DOMAIN FreshServer = ServerFields
    BY FreshDomains DEF SaveOK, ServerOK
  <2>2. DOMAIN o = ServerFields /\ o.boost = s.server.boost
    BY <2>1, SameOver DEF ServerFields
  <2>3. v = [o EXCEPT !.outages = down, !.gridMaintenance = g]
    <3>1. Field(s.server, "outages", {}) = s.server.outages /\ Field(s.server, "gridMaintenance", None) = gm
      BY <2>1 DEF Field, ServerFields
    <3>. QED
      BY <3>1 DEF ReadServer
  <2>. HIDE DEF o, v, down, g
  <2>. QED
    BY <2>2, <2>3 DEF ServerFields
<1>. HIDE DEF r, m, v, x, down
<1>5. x.run = r /\ x.meta = m /\ x.server = v
  BY <1>1
<1>6. Rates(x) = Rates(s) /\ Flops(x) = Flops(s)
  BY <1>2, <1>3, <1>4, <1>5, Zenon DEF Rates, Flops
<1>. QED
  BY <1>4, <1>5, <1>6 DEF x, down

\* The save that is read has the rates, the counter and the outages of the one stored.
LEMMA ReadRates ==
    ASSUME Typed, Untouched
    PROVE  LET K == MigrateSave(Stored, clock)
           IN  /\ Rates(K) = Rates(save) /\ Flops(K) = Flops(save)
               /\ {o \in save.server.outages : o.endAt > o.startAt} \subseteq K.server.outages
<1>. DEFINE K == MigrateSave(Stored, clock)
<1>1. CASE Unread
  <2>1. Stored = Row /\ save = MigrateSave(Row, Start) /\ RowOK(Row) /\ K = MigrateSave(Row, clock)
    BY <1>1, RowsOK DEF Stored, Unread, Untouched, Row, Typed, PlayerOK
  <2>2. clock \in Nat /\ Start \in Nat /\ Start <= clock /\ Start <= Start
    BY ClockAssumption DEF Typed, Positive
  <2>. HIDE DEF K
  <2>3. /\ save.run = K.run /\ save.server = K.server
        /\ \A k \in MetaFields \ {"coldStorage"} : save.meta[k] = K.meta[k]
    BY <2>1, <2>2, RowSame
  <2>4. K.meta.shardUpgrades = save.meta.shardUpgrades /\ K.meta.stats = save.meta.stats
    BY <2>3 DEF MetaFields
  <2>. QED
    BY <2>3, <2>4 DEF Rates, Flops, K
<1>2. CASE ~Unread
  <2>1. Stored = save
    BY <1>2 DEF Stored, Unread
  <2>. QED
    BY <2>1, StoredRates DEF Typed
<1>. QED
  BY <1>1, <1>2

\* Recording the peak does not touch them.
LEMMA PeakRates ==
    ASSUME NEW s, NEW now, SaveOK(s, now)
    PROVE  LET x == RecordLegacyCorePeak(s)
           IN  /\ SaveOK(x, now) /\ Rates(x) = Rates(s) /\ Flops(x) = Flops(s)
               /\ x.server = s.server
<1>. DEFINE best == Larger(s.meta.stats["bestLegacyCores"], s.meta.legacyCores)
            st == [s.meta.stats EXCEPT !["bestLegacyCores"] = best]
            m == [s.meta EXCEPT !.stats = st]
            x == RecordLegacyCorePeak(s)
<1>1. x = [s EXCEPT !.meta = m]
  BY DEF RecordLegacyCorePeak, SaveOK, MetaOK, MetaFields
<1>2. SaveOK(x, now)
  BY PeakStep DEF Step
<1>. HIDE DEF best, x
<1>3. st["lifetimeFlopsAllTime"] = s.meta.stats["lifetimeFlopsAllTime"]
  BY DEF SaveOK, MetaOK, Counters
<1>. HIDE DEF st
<1>4. m.stats = st /\ m.shardUpgrades = s.meta.shardUpgrades
  BY DEF SaveOK, MetaOK, MetaFields
<1>. HIDE DEF m
<1>5. x.run = s.run /\ x.meta = m /\ x.server = s.server
  BY <1>1 DEF SaveOK
<1>. QED
  BY <1>2, <1>3, <1>4, <1>5 DEF Rates, Flops, x

\* A board dealt anew and achievements noted.
LEMMA FinishLives ==
    ASSUME NEW s, NEW t, SaveOK(s, t), NEW now
    PROVE  Lives(s, CheckAchievements(RolloverContracts(s, now), now))
<1>. DEFINE x == RolloverContracts(s, now)
            d == Dealt(s, now)
            a == x.meta.achievements \cup AchievementsMet(x, now)
<1>1. x = IF s.meta.contracts.dateKey = UtcDateKey(now) THEN s ELSE [s EXCEPT !.meta.contracts = d]
  BY DEF RolloverContracts, Dealt
<1>2. SaveOK(x, t) /\ x.meta.stats = s.meta.stats
  BY RolloverStep DEF Step
<1>. HIDE DEF d
<1>3. [s EXCEPT !.meta.contracts = d].server = s.server
  BY DEF SaveOK
<1>4. x.server = s.server
  BY <1>1, <1>3
<1>5. CheckAchievements(x, now) = [x EXCEPT !.meta.achievements = a]
  BY DEF CheckAchievements
<1>. HIDE DEF x, a
<1>6. [x EXCEPT !.meta.achievements = a].server = x.server
  BY <1>2 DEF SaveOK
<1>7. CheckAchievements(x, now).meta.stats = x.meta.stats
  BY <1>2, CheckedIs
<1>8. Lives(s, CheckAchievements(x, now))
  BY <1>2, <1>4, <1>5, <1>6, <1>7, Zenon DEF Lives
<1>. QED
  BY <1>8 DEF x

\* A load pays the gap at the weights of what struck it, and keeps what lasts.
LEMMA LoadPays ==
    ASSUME PlayerOK, clock \in Start .. MaxClock,
           NEW K, NEW last, NEW struck, NEW scheduled, NEW loaded, LoadOf(K, last, struck, scheduled, loaded)
    PROVE  /\ SaveOK(struck, clock)
           /\ IF clock - last < 1 \/ riskEnabled THEN K.server.outages \subseteq struck.server.outages
              ELSE struck.server.outages = {}
           /\ last < clock => Flops(loaded) = Flops(K)
                                  + TotalProduced(K, last, clock, Weights(struck.server.outages, last, clock))
           /\ \A o \in struck.server.outages : last = clock \/ o.endAt > clock => o \in loaded.server.outages
<1>. DEFINE known == RecordLegacyCorePeak(K)
            settled == Settled(struck, last, clock)
<1>1. /\ last \in Int /\ last <= clock /\ SaveOK(K, clock)
      /\ struck \in Struck(known, last, clock)
      /\ scheduled \in Scheduled(settled, clock)
      /\ loaded = CheckAchievements(RolloverContracts(scheduled, clock), clock)
  BY DEF LoadOf
<1>2. clock \in Nat /\ clock \in 0 .. MaxClock /\ clock \in Int
  BY ClockAssumption DEF Positive
<1>3. SaveOK(known, clock) /\ Rates(known) = Rates(K) /\ Flops(known) = Flops(K) /\ known.server = K.server
  BY <1>1, PeakRates
<1>. HIDE DEF known
<1>4. /\ SaveOK(struck, clock) /\ Rates(struck) = Rates(known) /\ Flops(struck) = Flops(known)
      /\ IF clock - last < 1 \/ riskEnabled THEN known.server.outages \subseteq struck.server.outages
         ELSE struck.server.outages = {}
  <2>1. SaveOK(struck, clock)
    BY <1>1, <1>2, <1>3, StruckStep DEF Step
  <2>2. CASE clock - last < 1 \/ riskEnabled
    <3>1. Carries(known, struck)
      BY <1>1, <1>2, <1>3, <2>2, StruckCarries
    <3>. QED
      BY <2>1, <2>2, <3>1, CarriesRates DEF Carries
  <2>3. CASE ~(clock - last < 1 \/ riskEnabled)
    <3>. DEFINE r == [known EXCEPT !.server.outages = {}]
    <3>1. Carries(r, struck) /\ struck.server.outages = {}
      BY <1>1, <1>2, <1>3, <2>3, StruckCarries
    <3>2. r.run = known.run /\ r.meta = known.meta /\ r.server.boost = known.server.boost
      BY <1>3 DEF SaveOK, ServerOK, ServerFields
    <3>. HIDE DEF r
    <3>3. Rates(r) = Rates(known) /\ Flops(r) = Flops(known)
      BY <3>2, Zenon DEF Rates, Flops
    <3>. QED
      BY <2>1, <2>3, <3>1, <3>3, CarriesRates
  <2>. QED
    BY <2>2, <2>3
<1>5. SaveOK(settled, clock)
  BY <1>1, <1>2, <1>4, SettledStep DEF Step
<1>6. /\ last < clock => Flops(settled) = Flops(struck)
             + TotalProduced(struck, last, clock, Weights(struck.server.outages, last, clock))
      /\ \A o \in struck.server.outages : last = clock \/ o.endAt > clock => o \in settled.server.outages
  <2>1. CASE last < clock
    BY <1>1, <1>2, <1>4, <2>1, SettledPays
  <2>2. CASE last = clock
    <3>1. settled = struck
      BY <1>2, <2>2 DEF Settled
    <3>. QED
      BY <2>2, <3>1
  <2>. QED
    BY <1>1, <1>2, <2>1, <2>2
<1>. HIDE DEF settled
<1>7. SaveOK(scheduled, clock) /\ Carries(settled, scheduled)
  BY <1>1, <1>2, <1>5, ScheduledStep, ScheduledCarries DEF Step
<1>8. Lives(scheduled, loaded)
  BY <1>1, <1>7, FinishLives
<1>9. Flops(loaded) = Flops(settled) /\ settled.server.outages \subseteq loaded.server.outages
  BY <1>7, <1>8, Zenon DEF Carries, Lives, Flops
<1>10. TotalProduced(struck, last, clock, Weights(struck.server.outages, last, clock))
       = TotalProduced(K, last, clock, Weights(struck.server.outages, last, clock))
  BY <1>3, <1>4, SameProduction
<1>. QED
  BY <1>3, <1>4, <1>6, <1>9, <1>10

(***************************************************************************)
(* Only a load, a cure and a reset change the outages of a save.           *)
(***************************************************************************)
Suffers(s, O) ==
    DOMAIN s = {"run", "meta", "server"} /\ "outages" \in DOMAIN s.server /\ s.server.outages = O
OutagesStay == Suffers(save', save.server.outages)

\* Paying FLOPS, wafers or tapes, or recording the peak, touches no outage.
LEMMA SufferSame ==
    ASSUME NEW s, NEW O, Suffers(s, O), NEW n
    PROVE  /\ Suffers(PayFlops(s, n), O) /\ Suffers(PayWafers(s, n), O) /\ Suffers(PayTapes(s, n), O)
           /\ Suffers(RecordLegacyCorePeak(s), O)
<1>1. Suffers(PayFlops(s, n), O)
  BY DEF Suffers, PayFlops
<1>2. Suffers(PayWafers(s, n), O)
  BY DEF Suffers, PayWafers
<1>3. Suffers(PayTapes(s, n), O)
  BY DEF Suffers, PayTapes
<1>4. Suffers(RecordLegacyCorePeak(s), O)
  BY DEF Suffers, RecordLegacyCorePeak
<1>. QED
  BY <1>1, <1>2, <1>3, <1>4

\* Nor does noting achievements.
LEMMA SucceedSuffers ==
    ASSUME NEW x, NEW O, Suffers(x, O), Succeed(x)
    PROVE  Suffers(save', O)
<1>1. Suffers(CheckAchievements(x, clock), O)
  BY DEF Suffers, CheckAchievements
<1>2. save' = CheckAchievements(x, clock)
  BY DEF Succeed
<1>. QED
  BY <1>1, <1>2, Zenon

\* Nor does paying blocks.
LEMMA PayBlocksSuffers ==
    ASSUME NEW s, NEW O, Suffers(s, O), NEW bs
    PROVE  Suffers(PayBlocks(s, bs), O)
<1>. DEFINE tapes == SumFunction([i \in bs |-> BlockTapes(s, i)])
            flops == SumFunction([i \in bs |-> BlockFlops(s, i)])
            p == PayTapes(PayFlops(s, flops), tapes)
<1>1. PayBlocks(s, bs) = [p EXCEPT !.meta.coldStorage.blocksClaimed = @ \cup bs,
                                   !.meta.stats["blocksClaimedLifetime"] = @ + Cardinality(bs)]
  BY DEF PayBlocks
<1>2. Suffers(p, O)
  <2>. HIDE DEF tapes, flops
  <2>. QED BY SufferSame
<1>. HIDE DEF p
<1>. QED
  BY <1>1, <1>2 DEF Suffers

\* Nor does scheduling an anomaly.
LEMMA AnomalySuffers ==
    ASSUME NEW s, NEW O, Suffers(s, O), NEW t, NEW x \in ScheduledAnomaly(s, t)
    PROVE  Suffers(x, O)
<1>1. PICK d \in config.anomaly.delays :
         x = [s EXCEPT !.server.nextAnomalyAt = t + d, !.server.anomalyExpiresAt = t + d + config.anomaly.window]
  BY DEF ScheduledAnomaly
<1>. DEFINE n == t + d
            e == t + d + config.anomaly.window
<1>2. x = [s EXCEPT !.server.nextAnomalyAt = n, !.server.anomalyExpiresAt = e]
  BY <1>1
<1>. HIDE DEF n, e
<1>. QED
  BY <1>2 DEF Suffers

\* The actions on the run change no outage.
LEMMA RunSuffers ==
    ASSUME Ready, RunActions
    PROVE  OutagesStay
<1>. DEFINE O == save.server.outages
<1>1. Suffers(save, O)
  BY DEF Ready, SaveOK, ServerOK, ServerFields, Suffers
<1>. SUFFICES \E x : Suffers(x, O) /\ Succeed(x)
  BY SucceedSuffers DEF OutagesStay
<1>. HIDE DEF O
<1>2. ASSUME NEW lane, NEW i, NEW mode, Buy(lane, i, mode) PROVE \E x : Suffers(x, O) /\ Succeed(x)
  <2>. DEFINE n == ResolveBuyCount(save, lane, i, mode)
              cost == CostForN(lane, save.run[lane][i].owned, n)
              x == [save EXCEPT !.run.credits = @ - cost, !.run[lane][i].owned = @ + n]
  <2>1. Succeed(x)
    BY <1>2 DEF Buy
  <2>. HIDE DEF n, cost
  <2>2. Suffers(x, O)
    BY <1>1 DEF Suffers
  <2>. HIDE DEF x
  <2>. QED BY <2>1, <2>2
<1>3. ASSUME NEW is PROVE Suffers(Emptied(save, is), O)
  <2>. DEFINE c == SumFunction([i \in is |-> save.run.tiers[i].ready])
  <2>1. Emptied(save, is) = [save EXCEPT !.run.credits = @ + c,
              !.run.tiers = [i \in Tiers |-> IF i \in is THEN [@[i] EXCEPT !.ready = 0] ELSE @[i]]]
    BY DEF Emptied
  <2>. HIDE DEF c
  <2>. QED BY <1>1, <2>1 DEF Suffers
<1>4. ASSUME NEW i, Collect(i) PROVE \E x : Suffers(x, O) /\ Succeed(x)
  BY <1>3, <1>4 DEF Collect
<1>5. ASSUME NEW i, HireManager(i) PROVE \E x : Suffers(x, O) /\ Succeed(x)
  <2>. DEFINE e == Emptied(save, {i})
              x == [e EXCEPT !.run.credits = @ - config.managerCost, !.run.tiers[i].manager = TRUE]
  <2>1. Succeed(x)
    BY <1>5 DEF HireManager
  <2>2. Suffers(e, O)
    BY <1>3
  <2>. HIDE DEF e
  <2>3. Suffers(x, O)
    BY <2>2 DEF Suffers
  <2>. HIDE DEF x
  <2>. QED BY <2>1, <2>3
<1>6. CASE CollectAll
  BY <1>3, <1>6 DEF CollectAll
<1>7. CASE Vent
  <2>. DEFINE h == Larger(0, save.run.heat - (config.heat.capacity * config.heat.ventPercent) \div 100)
              x == [save EXCEPT !.server.lastVentAt = clock, !.run.heat = h]
  <2>1. Succeed(x)
    <3>1. Succeed([save EXCEPT !.server.lastVentAt = clock,
                     !.run.heat = Larger(0, @ - (config.heat.capacity * config.heat.ventPercent) \div 100)])
      BY <1>7 DEF Vent
    <3>2. [save EXCEPT !.server.lastVentAt = clock,
                     !.run.heat = Larger(0, @ - (config.heat.capacity * config.heat.ventPercent) \div 100)] = x
      BY <1>1 DEF Suffers
    <3>. HIDE DEF x
    <3>. QED BY <3>1, <3>2, Zenon
  <2>. HIDE DEF h
  <2>2. Suffers(x, O)
    BY <1>1 DEF Suffers
  <2>. HIDE DEF x
  <2>. QED BY <2>1, <2>2
<1>8. CASE Singularity
  <2>. DEFINE s == RecordLegacyCorePeak(save)
              shards == ShardsFor(save.meta.legacyCores)
              x == [s EXCEPT !.run = FreshRun, !.meta.legacyCores = 0, !.meta.singularityShards = @ + shards,
                             !.meta.stats["singularities"] = @ + 1]
  <2>1. Succeed(x)
    BY <1>8 DEF Singularity
  <2>2. Suffers(s, O)
    BY <1>1, SufferSame
  <2>. HIDE DEF s, shards
  <2>3. Suffers(x, O)
    BY <2>2 DEF Suffers
  <2>. HIDE DEF x
  <2>. QED BY <2>1, <2>3
<1>9. CASE ClaimAnomaly
  <2>. DEFINE Boosted(mult, lasts) == [save EXCEPT !.server.boost = [mult |-> mult, until |-> clock + lasts]]
  <2>1. \/ \E n : \E s \in ScheduledAnomaly(PayFlops(save, n), clock) : Succeed(s)
        \/ \E mult, lasts : \E s \in ScheduledAnomaly(Boosted(mult, lasts), clock) : Succeed(s)
    BY <1>9 DEF ClaimAnomaly
  <2>2. \A mult, lasts : Suffers(Boosted(mult, lasts), O)
    BY <1>1 DEF Suffers
  <2>. HIDE DEF Boosted
  <2>. QED
    BY <1>1, <2>1, <2>2, SufferSame, AnomalySuffers
<1>10. ASSUME NEW id, BuyUpgrade(id) PROVE \E x : Suffers(x, O) /\ Succeed(x)
  <2>. DEFINE level == save.meta.upgrades[id]
              cost == UpgradeCost(UpgradeDefs[id], level)
              x == [save EXCEPT !.meta.wafers = @ - cost, !.meta.upgrades[id] = level + 1]
  <2>1. Succeed(x)
    BY <1>10 DEF BuyUpgrade
  <2>. HIDE DEF level, cost
  <2>2. Suffers(x, O)
    BY <1>1 DEF Suffers
  <2>. HIDE DEF x
  <2>. QED BY <2>1, <2>2
<1>11. ASSUME NEW id, BuyShardUpgrade(id) PROVE \E x : Suffers(x, O) /\ Succeed(x)
  <2>. DEFINE level == save.meta.shardUpgrades[id]
              cost == UpgradeCost(SingularityDefs[id], level)
              x == [save EXCEPT !.meta.singularityShards = @ - cost, !.meta.shardUpgrades[id] = level + 1]
  <2>1. Succeed(x)
    BY <1>11 DEF BuyShardUpgrade
  <2>. HIDE DEF level, cost
  <2>2. Suffers(x, O)
    BY <1>1 DEF Suffers
  <2>. HIDE DEF x
  <2>. QED BY <2>1, <2>2
<1>12. ASSUME NEW id, ClaimGoal(id) PROVE \E x : Suffers(x, O) /\ Succeed(x)
  <2>. DEFINE p == PayWafers(save, GoalDefs[id].wafers)
              m == ApplyLevelUps([p.meta EXCEPT !.goalsCompleted = save.meta.goalsCompleted \cup {id}], GoalDefs[id].xp)
  <2>1. Suffers(p, O)
    BY <1>1, SufferSame
  <2>2. Succeed([p EXCEPT !.meta = ApplyLevelUps([@ EXCEPT !.goalsCompleted = save.meta.goalsCompleted \cup {id}],
                                                 GoalDefs[id].xp)])
    BY <1>12 DEF ClaimGoal
  <2>. HIDE DEF p
  <2>3. [p EXCEPT !.meta = ApplyLevelUps([@ EXCEPT !.goalsCompleted = save.meta.goalsCompleted \cup {id}],
                                         GoalDefs[id].xp)] = [p EXCEPT !.meta = m]
    BY <2>1 DEF Suffers
  <2>. HIDE DEF m
  <2>4. Suffers([p EXCEPT !.meta = m], O)
    BY <2>1 DEF Suffers
  <2>. QED BY <2>2, <2>3, <2>4, Zenon
<1>13. ASSUME NEW id, ClaimRepeatable(id) PROVE \E x : Suffers(x, O) /\ Succeed(x)
  <2>. DEFINE level == save.meta.repeatable[id]
              pay == RepeatablePay(RepeatableDefs[id], level)
              p == PayWafers(save, pay)
              m == ApplyLevelUps([p.meta EXCEPT !.repeatable[id] = level + 1], pay)
  <2>1. Suffers(p, O)
    <3>. HIDE DEF pay
    <3>. QED BY <1>1, SufferSame
  <2>2. Succeed([p EXCEPT !.meta = ApplyLevelUps([@ EXCEPT !.repeatable[id] = level + 1], pay)])
    BY <1>13 DEF ClaimRepeatable
  <2>. HIDE DEF p, pay
  <2>3. [p EXCEPT !.meta = ApplyLevelUps([@ EXCEPT !.repeatable[id] = level + 1], pay)] = [p EXCEPT !.meta = m]
    BY <2>1 DEF Suffers
  <2>. HIDE DEF m
  <2>4. Suffers([p EXCEPT !.meta = m], O)
    BY <2>1 DEF Suffers
  <2>. HIDE DEF level
  <2>. QED BY <2>2, <2>3, <2>4, Zenon
<1>. QED
  BY <1>2, <1>4, <1>5, <1>6, <1>7, <1>8, <1>9, <1>10, <1>11, <1>12, <1>13 DEF RunActions

\* Nor do those of cold storage.
LEMMA ColdSuffers ==
    ASSUME Ready, ColdActions
    PROVE  OutagesStay
<1>. DEFINE O == save.server.outages
<1>1. Suffers(save, O)
  BY DEF Ready, SaveOK, ServerOK, ServerFields, Suffers
<1>. SUFFICES \E x : Suffers(x, O) /\ Succeed(x)
  BY SucceedSuffers DEF OutagesStay
<1>. HIDE DEF O
<1>2. CASE ClaimAllBlocks \/ \E i \in Blocks : ClaimBlock(i)
  <2>1. \E bs : Succeed(PayBlocks(save, bs))
    BY <1>2 DEF ClaimAllBlocks, ClaimBlock
  <2>. QED
    BY <1>1, <2>1, PayBlocksSuffers
<1>3. CASE ResetTrack
  <2>. DEFINE r == [save EXCEPT !.meta.coldStorage.trackCycle = @ + 1,
                                !.meta.coldStorage.trackStartedAt = clock,
                                !.meta.coldStorage.blocksClaimed = {}]
  <2>1. Succeed(PayBlocks(r, HeadStart(save)))
    BY <1>3 DEF ResetTrack
  <2>2. Suffers(r, O)
    BY <1>1 DEF Suffers
  <2>. HIDE DEF r
  <2>. QED
    BY <2>1, <2>2, PayBlocksSuffers
<1>4. ASSUME NEW job, Succeed([save EXCEPT !.meta.coldStorage.job = job])
      PROVE  \E x : Suffers(x, O) /\ Succeed(x)
  <2>1. Suffers([save EXCEPT !.meta.coldStorage.job = job], O)
    BY <1>1 DEF Suffers
  <2>. QED BY <1>4, <2>1, Zenon
<1>5. CASE CancelJob
  BY <1>4, <1>5 DEF CancelJob
<1>6. ASSUME NEW type, StartJob(type) PROVE \E x : Suffers(x, O) /\ Succeed(x)
  BY <1>4, <1>6 DEF StartJob
<1>7. CASE ClaimJob
  <2>. DEFINE job == save.meta.coldStorage.job
              pay == config.batchQueue.jobs[job.type].tapes * TapeRewardMult(save)
              deep == IF job.type = "deep" THEN 1 ELSE 0
              p == PayTapes(save, pay)
              x == [p EXCEPT !.meta.coldStorage.job = None,
                             !.meta.stats["jobsCompletedLifetime"] = @ + 1,
                             !.meta.stats["deepJobsCompletedLifetime"] = @ + deep]
  <2>1. Succeed(x)
    BY <1>7 DEF ClaimJob
  <2>. HIDE DEF pay, deep
  <2>2. Suffers(p, O)
    BY <1>1, SufferSame
  <2>. HIDE DEF p
  <2>3. Suffers(x, O)
    BY <2>2 DEF Suffers
  <2>. HIDE DEF x
  <2>. QED BY <2>1, <2>3
<1>8. ASSUME NEW id, BuyTapeUpgrade(id) PROVE \E x : Suffers(x, O) /\ Succeed(x)
  <2>. DEFINE level == ColdLevel(save, id)
              cost == UpgradeCost(TapeUpgradeDefs[id], level)
              x == [save EXCEPT !.meta.coldStorage.tapes = @ - cost, !.meta.coldStorage.upgrades[id] = level + 1]
  <2>1. Succeed(x)
    BY <1>8 DEF BuyTapeUpgrade
  <2>. HIDE DEF level, cost
  <2>2. Suffers(x, O)
    BY <1>1 DEF Suffers
  <2>. HIDE DEF x
  <2>. QED BY <2>1, <2>2
<1>. QED
  BY <1>2, <1>3, <1>5, <1>6, <1>7, <1>8 DEF ColdActions

\* Nor do prestige, streak, contracts and supplies.
LEMMA DailySuffers ==
    ASSUME Ready, Migrate \/ ClaimStreak \/ (\E i \in 1 .. BoardSize : ClaimContract(i)) \/ (\E id \in Supplies : BuySupply(id))
    PROVE  OutagesStay
<1>. DEFINE O == save.server.outages
<1>1. Suffers(save, O)
  BY DEF Ready, SaveOK, ServerOK, ServerFields, Suffers
<1>. SUFFICES \E x : Suffers(x, O) /\ Succeed(x)
  BY SucceedSuffers DEF OutagesStay
<1>. HIDE DEF O
<1>2. CASE Migrate
  <2>. DEFINE r == [FreshRun EXCEPT !.credits = 10 * Power(config.bootstrap, save.meta.shardUpgrades["bootstrap"])]
              gain == MigrateGain(save)
              x == [save EXCEPT !.run = r, !.meta.legacyCores = @ + gain + save.meta.shardUpgrades["echocores"],
                                !.meta.stats["migrates"] = @ + 1]
  <2>1. Succeed(x)
    BY <1>2 DEF Migrate
  <2>. HIDE DEF r, gain
  <2>2. Suffers(x, O)
    BY <1>1 DEF Suffers
  <2>. HIDE DEF x
  <2>. QED BY <2>1, <2>2
<1>3. CASE ClaimStreak
  <2>. DEFINE today == UtcDateKey(clock)
              day == NextStreakCount(save.meta.streak, today)
              p == StreakReward(save, day)
              x == [p EXCEPT !.meta.streak = [count |-> day, lastClaimDate |-> today],
                             !.meta.stats["bestStreak"] = Larger(@, day)]
  <2>1. Succeed(x)
    BY <1>3 DEF ClaimStreak
  <2>2. Suffers(p, O)
    <3>. HIDE DEF day
    <3>1. \/ \E a, b : p = PayTapes(PayWafers(save, a), b)
          \/ \E a : p = PayWafers(save, a) \/ p = PayFlops(save, a)
      BY DEF StreakReward
    <3>. HIDE DEF p
    <3>2. \A a : Suffers(PayWafers(save, a), O) /\ Suffers(PayFlops(save, a), O)
      BY <1>1, SufferSame
    <3>3. \A a, b : Suffers(PayTapes(PayWafers(save, a), b), O)
      BY <3>2, SufferSame
    <3>. QED BY <3>1, <3>2, <3>3
  <2>. HIDE DEF p, day, today
  <2>3. Suffers(x, O)
    BY <2>2 DEF Suffers
  <2>. HIDE DEF x
  <2>. QED BY <2>1, <2>3
<1>4. ASSUME NEW i, ClaimContract(i) PROVE \E x : Suffers(x, O) /\ Succeed(x)
  <2>. DEFINE a == config.social.contractWafers * (1 + save.meta.level)
              b == config.social.contractTapes * (1 + save.meta.level)
              p == PayTapes(PayWafers(save, a), b)
              x == [p EXCEPT !.meta.contracts.claimed = @ \cup {i},
                             !.meta.stats["contractsCompletedLifetime"] = @ + 1]
  <2>1. Succeed(x)
    BY <1>4 DEF ClaimContract
  <2>2. Suffers(p, O)
    <3>. HIDE DEF a, b
    <3>. QED BY <1>1, SufferSame
  <2>. HIDE DEF p
  <2>3. Suffers(x, O)
    BY <2>2 DEF Suffers
  <2>. HIDE DEF x
  <2>. QED BY <2>1, <2>3
<1>5. ASSUME NEW id, BuySupply(id) PROVE \E x : Suffers(x, O) /\ Succeed(x)
  <2>. DEFINE cost == SupplyCost(save, id, clock)
              x == [save EXCEPT !.run.credits = @ - cost, !.meta.supplies[id] = @ + 1]
  <2>1. Succeed(x)
    BY <1>5 DEF BuySupply
  <2>. HIDE DEF cost
  <2>2. Suffers(x, O)
    BY <1>1 DEF Suffers
  <2>. HIDE DEF x
  <2>. QED BY <2>1, <2>2
<1>. QED
  BY <1>2, <1>3, <1>4, <1>5

(***************************************************************************)
(* The books.                                                              *)
(***************************************************************************)
\* What is remembered had begun when the save was last loaded, and what is not
\* over by then is in the save.
Books ==
    \A o \in incidents :
        /\ lastSave # None /\ OutageOK(o, lastSave)
        /\ o.endAt > lastSave => o \in save.server.outages

\* The books are empty at first.
LEMMA BooksInit == Init => Books
<1>. SUFFICES ASSUME Init PROVE Books
  OBVIOUS
<1>1. incidents = save.server.outages /\ SaveOK(save, Start - 1)
  BY InitTyped DEF Init
<1>2. \A o \in save.server.outages : OutageOK(o, Start - 1)
  BY <1>1 DEF SaveOK, ServerOK
<1>3. CASE player.row = None
  <2>1. save = MigrateSave(Nothing, Start)
    BY <1>3 DEF Init
  <2>2. Field(Nothing, "server", Nothing) = Nothing /\ Field(Nothing, "outages", {}) = {}
    BY DEF Field, Nothing
  <2>3. save.server = ReadServer(Nothing, FreshServer)
    BY <2>1, <2>2, MigrateIs
  <2>4. "outages" \in DOMAIN Over(Nothing, FreshServer)
    BY FreshDomains DEF Over, ServerFields
  <2>. DEFINE o == Over(Nothing, FreshServer)
              gm == Field(Nothing, "gridMaintenance", None)
              g == IF gm = None THEN None ELSE IF gm.endAt > gm.startAt THEN gm ELSE None
              down == {p \in Field(Nothing, "outages", {}) : p.endAt > p.startAt}
  <2>5. save.server = [o EXCEPT !.outages = down, !.gridMaintenance = g] /\ down = {}
    BY <2>2, <2>3 DEF ReadServer
  <2>. HIDE DEF o, g, down
  <2>6. save.server.outages = {}
    BY <2>4, <2>5 DEF o
  <2>. QED
    BY <1>1, <2>6 DEF Books
<1>4. CASE player.row # None
  <2>1. lastSave = Start - 1 /\ lastSave # None
    BY <1>4, ClockAssumption DEF Init, Positive
  <2>. QED
    BY <1>1, <1>2, <2>1 DEF Books
<1>. QED
  BY <1>3, <1>4

\* A load, from what it has read to what it stores and remembers.
LEMMA LoadSteps ==
    ASSUME Typed, Untouched, Load
    PROVE  LET last == IF lastSave = None THEN clock ELSE lastSave
               K == MigrateSave(Stored, clock)
           IN  \E struck, scheduled, loaded :
                  /\ LoadOf(K, last, struck, scheduled, loaded)
                  /\ save' = loaded /\ lastSave' = clock
                  /\ credited' = Flops(loaded) - Flops(save)
                  /\ incidents' = RememberIncidents(struck, last, clock)
<1>. DEFINE last == IF lastSave = None THEN clock ELSE lastSave
            K == MigrateSave(Stored, clock)
<1>1. PICK struck \in Struck(RecordLegacyCorePeak(K), last, clock) :
        \E scheduled \in Scheduled(Settled(struck, last, clock), clock) :
            LET loaded == CheckAchievements(RolloverContracts(scheduled, clock), clock)
            IN  /\ save' = loaded
                /\ lastSave' = clock
                /\ credited' = loaded.meta.stats["lifetimeFlopsAllTime"] - save.meta.stats["lifetimeFlopsAllTime"]
                /\ incidents' = RememberIncidents(struck, last, clock)
  BY DEF Load
<1>2. PICK scheduled \in Scheduled(Settled(struck, last, clock), clock) :
            LET loaded == CheckAchievements(RolloverContracts(scheduled, clock), clock)
            IN  /\ save' = loaded
                /\ lastSave' = clock
                /\ credited' = Flops(loaded) - Flops(save)
                /\ incidents' = RememberIncidents(struck, last, clock)
  BY <1>1 DEF Flops
<1>3. SaveOK(K, clock)
  BY ReadIs DEF Reads
<1>4. last \in Int /\ last <= clock
  BY ClockAssumption DEF Typed, Positive
<1>. DEFINE loaded == CheckAchievements(RolloverContracts(scheduled, clock), clock)
<1>5. LoadOf(K, last, struck, scheduled, loaded)
  BY <1>1, <1>2, <1>3, <1>4 DEF LoadOf
<1>. HIDE DEF K, last
<1>6. /\ save' = loaded /\ lastSave' = clock /\ credited' = Flops(loaded) - Flops(save)
      /\ incidents' = RememberIncidents(struck, last, clock)
  BY <1>2
<1>. HIDE DEF loaded
<1>7. \E a, b, c :
         /\ LoadOf(K, last, a, b, c)
         /\ save' = c /\ lastSave' = clock
         /\ credited' = Flops(c) - Flops(save)
         /\ incidents' = RememberIncidents(a, last, clock)
  BY <1>5, <1>6
<1>. QED
  BY <1>7 DEF K, last

\* An outage of the books that is not over is among those the load has struck
\* the gap with, while the risk system is on.
LEMMA OldStrikes ==
    ASSUME Typed, Untouched, Books,
           NEW struck, MigrateSave(Stored, clock).server.outages \subseteq struck.server.outages,
           NEW o \in incidents, o.endAt > lastSave
    PROVE  o \in struck.server.outages
<1>1. lastSave # None /\ OutageOK(o, lastSave) /\ o \in save.server.outages
  BY DEF Books
<1>2. lastSave \in Int
  BY <1>1, ClockAssumption DEF Typed, Positive
<1>3. o.endAt > o.startAt
  BY <1>1, <1>2 DEF OutageOK
<1>. QED
  BY <1>1, <1>3, ReadRates

\* The books after a load.
LEMMA BooksLoad ==
    ASSUME Typed, Untouched, Books, Load
    PROVE  Books'
<1>. DEFINE last == IF lastSave = None THEN clock ELSE lastSave
            K == MigrateSave(Stored, clock)
<1>0. clock \in Int /\ Start <= clock /\ None \notin Int /\ PlayerOK /\ clock \in Start .. MaxClock
      /\ (lastSave = None \/ (lastSave \in Int /\ lastSave <= clock))
  BY ClockAssumption DEF Typed, Positive
<1>1. PICK struck, scheduled, loaded :
         /\ LoadOf(K, last, struck, scheduled, loaded)
         /\ save' = loaded /\ lastSave' = clock
         /\ incidents' = RememberIncidents(struck, last, clock)
  BY LoadSteps
<1>2. PICK E : E = incidents'
  OBVIOUS
<1>3. last \in Int /\ last <= clock
  BY <1>0
<1>4. /\ SaveOK(struck, clock)
      /\ IF clock - last < 1 \/ riskEnabled THEN K.server.outages \subseteq struck.server.outages
         ELSE struck.server.outages = {}
      /\ \A o \in struck.server.outages : last = clock \/ o.endAt > clock => o \in loaded.server.outages
  <2>. HIDE DEF K, last
  <2>. QED
    BY <1>0, <1>1, LoadPays
<1>5. \A o \in struck.server.outages : OutageOK(o, clock)
  BY <1>4 DEF SaveOK, ServerOK
<1>6. \A o \in incidents : lastSave \in Int /\ last = lastSave /\ OutageOK(o, lastSave)
  BY <1>0 DEF Books
<1>7. \A o \in incidents : OutageOK(o, clock)
  <2>1. ASSUME NEW o \in incidents PROVE OutageOK(o, clock)
    BY <1>0, <1>6 DEF OutageOK
  <2>. QED
    BY <2>1
<1>8. ASSUME NEW o \in E PROVE OutageOK(o, clock) /\ (o.endAt > clock => o \in loaded.server.outages)
  <2>1. CASE clock - last < 1
    <3>1. o \in incidents /\ last = clock /\ K.server.outages \subseteq struck.server.outages
      BY <1>0, <1>1, <1>2, <1>3, <1>4, <1>8, <2>1 DEF RememberIncidents
    <3>2. OutageOK(o, clock) /\ lastSave = clock
      BY <1>6, <1>7, <3>1
    <3>3. ASSUME o.endAt > clock PROVE o \in struck.server.outages
      BY <3>1, <3>2, <3>3, OldStrikes
    <3>. QED
      BY <1>4, <3>1, <3>2, <3>3
  <2>2. CASE clock - last >= 1 /\ ~riskEnabled
    BY <1>1, <1>2, <1>3, <1>0, <1>8, <2>2 DEF RememberIncidents
  <2>3. CASE clock - last >= 1 /\ riskEnabled
    <3>1. \/ o \in struck.server.outages
          \/ o \in incidents /\ \A p \in struck.server.outages : p.id # o.id
      BY <1>1, <1>2, <1>3, <1>0, <1>8, <2>3 DEF RememberIncidents
    <3>2. OutageOK(o, clock)
      BY <1>5, <1>7, <3>1
    <3>3. ASSUME o \in incidents, o.endAt > clock PROVE o \in struck.server.outages
      <4>1. o.endAt > lastSave
        BY <1>0, <1>6, <3>2, <3>3 DEF OutageOK
      <4>. QED
        BY <1>4, <2>3, <3>3, <4>1, OldStrikes
    <3>. QED
      BY <1>4, <3>1, <3>2, <3>3
  <2>. QED
    BY <1>0, <1>3, <2>1, <2>2, <2>3
<1>9. lastSave' # None
  BY <1>0, <1>1, ClockAssumption DEF Positive
<1>10. \A o \in E : OutageOK(o, lastSave') /\ (o.endAt > lastSave' => o \in save'.server.outages)
  <2>1. save' = loaded /\ lastSave' = clock
    BY <1>1
  <2>. QED
    BY <1>8, <2>1
<1>. QED
  BY <1>2, <1>9, <1>10 DEF Books, OutageOK, Hazards

\* The books after a cure.
LEMMA BooksCure ==
    ASSUME Typed, Books, NEW o \in save.server.outages, ResolveOutage(o),
           incidents' = (incidents \ {o}) \cup {[o EXCEPT !.endAt = clock]}
    PROVE  Books'
<1>. DEFINE price == PriceOfCure(o)
            q == [o EXCEPT !.endAt = clock]
            O == (save.server.outages \ {o}) \cup {q}
            x == [save EXCEPT !.run.credits = @ - price, !.server.outages = O]
<1>1. Suffers(save, save.server.outages) /\ OutageOK(o, clock) /\ Start \in Nat /\ clock \in Nat /\ clock >= Start /\ None \notin Int
  BY ClockAssumption DEF Typed, SaveOK, ServerOK, ServerFields, Suffers, Positive
<1>2. Succeed(x) /\ lastSave = clock /\ lastSave' = clock
  <2>1. Succeed([save EXCEPT !.run.credits = @ - PriceOfCure(o),
                            !.server.outages = (@ \ {o}) \cup {[o EXCEPT !.endAt = clock]}])
        /\ lastSave = clock
    BY DEF ResolveOutage, Posts
  <2>2. [save EXCEPT !.run.credits = @ - PriceOfCure(o),
                     !.server.outages = (@ \ {o}) \cup {[o EXCEPT !.endAt = clock]}] = x
    BY <1>1 DEF Suffers
  <2>. HIDE DEF x
  <2>3. lastSave' = lastSave
    BY <2>1 DEF Succeed
  <2>. QED
    BY <2>1, <2>2, <2>3
<1>3. OutageOK(q, clock) /\ q.endAt = clock
  BY <1>1 DEF OutageOK
<1>. HIDE DEF price, q
<1>4. Suffers(x, O)
  BY <1>1 DEF Suffers
<1>. HIDE DEF x
<1>5. save'.server.outages = O
  BY <1>2, <1>4, SucceedSuffers DEF Suffers
<1>6. incidents' = (incidents \ {o}) \cup {q}
  BY DEF q
<1>7. ASSUME NEW p \in incidents' PROVE OutageOK(p, clock) /\ (p.endAt > clock => p \in save'.server.outages)
  BY <1>1, <1>2, <1>3, <1>5, <1>6, <1>7 DEF Books
<1>8. lastSave' # None
  BY <1>1, <1>2
<1>9. PICK E : E = incidents'
  OBVIOUS
<1>10. \A p \in E : OutageOK(p, lastSave') /\ (p.endAt > lastSave' => p \in save'.server.outages)
  BY <1>2, <1>7, <1>9
<1>. QED
  BY <1>8, <1>9, <1>10 DEF Books, OutageOK, Hazards

\* The books stay as they are while the outages do.
LEMMA BooksSame ==
    ASSUME Books, incidents' = incidents, lastSave' = lastSave, save'.server.outages = save.server.outages
    PROVE  Books'
  BY DEF Books, OutageOK, Hazards

\* The books after an action.
LEMMA BooksAct ==
    ASSUME Typed, Books, Act
    PROVE  Books'
<1>0. Ready /\ lastSave' = lastSave
  BY ActMoves DEF Typed, Ready
<1>1. CASE /\ \/ RunActions \/ ColdActions \/ ClaimStreak \/ Migrate
              \/ (\E i \in 1 .. BoardSize : ClaimContract(i)) \/ (\E id \in Supplies : BuySupply(id))
           /\ incidents' = incidents
  <2>1. OutagesStay
    BY <1>0, <1>1, RunSuffers, ColdSuffers, DailySuffers
  <2>2. save'.server.outages = save.server.outages
    BY <2>1 DEF OutagesStay, Suffers
  <2>. QED
    BY <1>0, <1>1, <2>2, BooksSame
<1>2. CASE \E o \in save.server.outages :
              ResolveOutage(o) /\ incidents' = (incidents \ {o}) \cup {[o EXCEPT !.endAt = clock]}
  BY <1>2, BooksCure
<1>3. CASE HardReset /\ incidents' = {}
  BY <1>3 DEF Books
<1>. QED
  BY <1>1, <1>2, <1>3 DEF Act, historyVars

\* Every step keeps the books.
LEMMA BooksStep ==
    ASSUME Typed, Untouched, Books, [Next]_vars
    PROVE  Books'
<1>1. CASE SetRisk \/ Tick \/ UNCHANGED vars
  <2>1. incidents' = incidents /\ lastSave' = lastSave /\ save' = save
    BY <1>1 DEF SetRisk, Tick, vars, gameVars, historyVars
  <2>. QED
    BY <2>1, BooksSame
<1>. QED
  BY <1>1, BooksLoad, BooksAct DEF Next

\* The outages that cover a second of the gap, in the books and in the save.
LEMMA SameCovering ==
    ASSUME Typed, Untouched, Books, NEW struck, NEW E, NEW last \in Int, last = lastSave, last < clock,
           E = RememberIncidents(struck, last, clock),
           IF riskEnabled THEN MigrateSave(Stored, clock).server.outages \subseteq struck.server.outages
           ELSE struck.server.outages = {},
           NEW lane, NEW i, NEW t \in last .. clock - 1
    PROVE  Covering(E, lane, i, t) = Covering(struck.server.outages, lane, i, t)
<1>0. clock \in Int /\ ~(clock - last < 1) /\ t \in Int /\ last <= t
  BY ClockAssumption DEF Typed, Positive
<1>1. CASE ~riskEnabled
  BY <1>0, <1>1 DEF RememberIncidents, Covering
<1>2. CASE riskEnabled
  <2>1. E = {o \in incidents : \A p \in struck.server.outages : p.id # o.id} \cup struck.server.outages
    BY <1>0, <1>2 DEF RememberIncidents
  <2>2. ASSUME NEW o \in incidents, t < o.endAt PROVE o \in struck.server.outages
    <3>1. o.endAt \in Int
      BY DEF Books, OutageOK
    <3>2. o.endAt > lastSave
      BY <1>0, <2>2, <3>1
    <3>. QED
      BY <1>2, <3>2, OldStrikes
  <2>. QED
    BY <2>1, <2>2 DEF Covering
<1>. QED
  BY <1>1, <1>2

\* What a gap produces is a count.
LEMMA TotalNat ==
    ASSUME PlayerOK, NEW s, NEW last \in Int, NEW now \in Nat, last < now, SaveOK(s, now),
           NEW O, IsFiniteSet(O), \A o \in O : OutageOK(o, now)
    PROVE  TotalProduced(s, last, now, Weights(O, last, now)) \in Nat
<1>. DEFINE weight == Weights(O, last, now)
            ft == [i \in Tiers |-> Produced(s, "tiers", i, last, now, weight["tiers"][i])]
            fg == [i \in Grid |-> Produced(s, "grid", i, last, now, weight["grid"][i])]
<1>1. Units["tiers"] = Tiers /\ Units["grid"] = Grid /\ IsFiniteSet(Tiers) /\ IsFiniteSet(Grid)
  BY IndexAssumption DEF Units
<1>2. ASSUME NEW lane \in {"tiers", "grid"}, NEW i \in Units[lane]
      PROVE  Produced(s, lane, i, last, now, weight[lane][i]) \in Nat
  BY EachNat
<1>. HIDE DEF weight
<1>3. TotalProduced(s, last, now, weight) = SumFunction(ft) + SumFunction(fg)
  BY DEF TotalProduced, LaneProduced
<1>4. DOMAIN ft = Tiers /\ DOMAIN fg = Grid /\ (\A i \in Tiers : ft[i] \in Nat) /\ \A i \in Grid : fg[i] \in Nat
  BY <1>1, <1>2
<1>. HIDE DEF ft, fg
<1>5. SumFunction(ft) \in Nat /\ SumFunction(fg) \in Nat
  BY <1>1, <1>4, SumNat
<1>. QED
  BY <1>3, <1>5 DEF weight

\* What a load credits.
LEMMA LoadCredits ==
    ASSUME Typed, Untouched, Books, Load, lastSave # None, lastSave' # lastSave, NEW E, E = incidents'
    PROVE  credited' = TotalProduced(save, lastSave, clock,
                [lane \in {"tiers", "grid"} |-> [i \in Units[lane] |-> PerSecond(E, lane, i, lastSave, clock)]])
<1>. DEFINE last == IF lastSave = None THEN clock ELSE lastSave
            K == MigrateSave(Stored, clock)
<1>0. clock \in Int /\ PlayerOK /\ clock \in Start .. MaxClock /\ lastSave \in Int /\ lastSave <= clock
  BY ClockAssumption DEF Typed, Positive
<1>1. PICK struck, scheduled, loaded :
         /\ LoadOf(K, last, struck, scheduled, loaded)
         /\ save' = loaded /\ lastSave' = clock
         /\ credited' = Flops(loaded) - Flops(save)
         /\ incidents' = RememberIncidents(struck, last, clock)
  BY LoadSteps
<1>2. last = lastSave /\ last < clock
  BY <1>0, <1>1
<1>3. Rates(K) = Rates(save) /\ Flops(K) = Flops(save) /\ SaveOK(K, clock)
  BY ReadRates, ReadIs DEF Reads
<1>. DEFINE O == struck.server.outages
            weight == Weights(O, last, clock)
<1>4. /\ SaveOK(struck, clock)
      /\ IF clock - last < 1 \/ riskEnabled THEN K.server.outages \subseteq O ELSE O = {}
      /\ Flops(loaded) = Flops(K) + TotalProduced(K, last, clock, weight)
  <2>. HIDE DEF K, last
  <2>. QED
    BY <1>0, <1>1, <1>2, LoadPays
<1>5. TotalProduced(K, last, clock, weight) = TotalProduced(save, last, clock, weight)
  <2>. HIDE DEF weight, K
  <2>. QED
    BY <1>3, SameProduction
<1>6. IsFiniteSet(O) /\ \A o \in O : OutageOK(o, clock)
  BY <1>4 DEF SaveOK, ServerOK
<1>7. ASSUME NEW lane, NEW i
      PROVE  WeightedFactor(O, lane, i, last, clock) = PerSecond(E, lane, i, last, clock)
  <2>1. WeightedFactor(O, lane, i, last, clock) = PerSecond(O, lane, i, last, clock)
    <3>. HIDE DEF O, last
    <3>1. last \in Int /\ clock \in Int /\ \A o \in O : o.factor \in Nat /\ o.startAt \in Int /\ o.endAt \in Int
      BY <1>0, <1>2, <1>6 DEF OutageOK
    <3>. QED
      BY <3>1, <1>2, <1>6, Integral
  <2>2. ASSUME NEW t \in last .. clock - 1 PROVE Covering(E, lane, i, t) = Covering(O, lane, i, t)
    <3>1. IF riskEnabled THEN K.server.outages \subseteq O ELSE O = {}
      BY <1>0, <1>2, <1>4
    <3>2. E = RememberIncidents(struck, last, clock) /\ last \in Int
      BY <1>0, <1>1, <1>2
    <3>. HIDE DEF last
    <3>. QED
      BY <1>2, <2>2, <3>1, <3>2, SameCovering
  <2>. HIDE DEF O, last
  <2>3. [t \in last .. clock - 1 |-> Combined(Covering(E, lane, i, t))] = [t \in last .. clock - 1 |-> Combined(Covering(O, lane, i, t))]
    BY <2>2, Zenon
  <2>. QED
    BY <2>1, <2>3 DEF PerSecond
<1>8. weight = [lane \in {"tiers", "grid"} |-> [i \in Units[lane] |-> PerSecond(E, lane, i, last, clock)]]
  <2>. HIDE DEF O, last
  <2>. QED
    BY <1>7, Zenon DEF Weights
<1>9. Flops(loaded) - Flops(save) = TotalProduced(save, last, clock, weight)
  <2>1. Flops(K) \in Int /\ Flops(loaded) = Flops(save) + TotalProduced(save, last, clock, weight)
    BY <1>3, <1>4, <1>5 DEF Flops, SaveOK, MetaOK, Counters
  <2>2. TotalProduced(save, last, clock, weight) \in Int
    <3>1. SaveOK(save, clock) /\ clock \in Nat /\ last \in Int
      BY <1>0, <1>2, ClockAssumption DEF Typed, Positive
    <3>. HIDE DEF O, last
    <3>2. TotalProduced(save, last, clock, Weights(O, last, clock)) \in Nat
      BY <1>0, <1>2, <1>6, <3>1, TotalNat
    <3>. QED
      BY <3>2
  <2>. HIDE DEF weight, K, last
  <2>. QED
    BY <1>3, <2>1, <2>2
<1>10. credited' = TotalProduced(save, last, clock, weight)
  BY <1>1, <1>9
<1>. HIDE DEF weight
<1>. QED
  BY <1>2, <1>8, <1>10

\* Only a load moves the time the save was last loaded.
LEMMA OnlyLoads ==
    ASSUME Typed, [Next]_vars, lastSave' # lastSave
    PROVE  Load
<1>1. CASE SetRisk \/ Tick \/ UNCHANGED vars
  BY <1>1 DEF SetRisk, Tick, vars, gameVars
<1>2. CASE Act
  BY <1>2, ActMoves
<1>. QED
  BY <1>1, <1>2 DEF Next

\* A load credits each second of the gap once, at the factors of every outage
\* that covered it, whether it fired late, was cured or is long over: the closed
\* form weightedFactor() samples is that sum, and no outage the books still need
\* is lost to settle's pruning, to a cure or to migrateSave (state.js, outages.js).
THEOREM UptimePaid == Spec => PaidForUptime
<1>. DEFINE Paying == (lastSave # None /\ lastSave' # lastSave) =>
          LET Down(lane, i, t) == {o \in incidents' : ScopeCovers(o.scope, lane, i) /\ o.startAt <= t /\ t < o.endAt}
              weight == [lane \in {"tiers", "grid"} |-> [i \in Units[lane] |->
                            SumFunction([t \in lastSave .. clock - 1 |-> Combined(Down(lane, i, t))])]]
          IN  (credited' = TotalProduced(save, lastSave, clock, weight))
            BookInv == Typed /\ Untouched /\ Books
<1>1. Init => BookInv
  BY BooksInit, GameInit DEF GameInv
<1>2. BookInv /\ [Next]_vars => BookInv'
  BY TypedStep, BooksStep
<1>3. BookInv /\ [Next]_vars => [Paying]_vars
  <2>. SUFFICES ASSUME BookInv, [Next]_vars, lastSave # None, lastSave' # lastSave PROVE Paying
    OBVIOUS
  <2>1. PICK E : E = incidents'
    OBVIOUS
  <2>2. Load
    BY OnlyLoads
  <2>3. credited' = TotalProduced(save, lastSave, clock,
                [lane \in {"tiers", "grid"} |-> [i \in Units[lane] |-> PerSecond(E, lane, i, lastSave, clock)]])
    BY <2>1, <2>2, LoadCredits
  <2>. QED
    BY <2>1, <2>3 DEF PerSecond, Covering
<1>. HIDE DEF BookInv
<1>. QED
  BY <1>1, <1>2, <1>3, PTL DEF Spec, PaidForUptime
=============================================================================
