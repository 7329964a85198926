----------------------------- MODULE ColdStorage ----------------------------
(***************************************************************************)
(* The Cold Storage handlers of shared/reducer.js: blocks that arrive on a *)
(* track in real time, the track's reset, jobs that run while the player   *)
(* is away, and the shop their tapes are spent in.                         *)
(***************************************************************************)
EXTENDS Economy

Blocks == 0 .. TotalBlocks - 1
ColdLevel(s, id) == s.meta.coldStorage.upgrades[id]

BlockDuration(s) ==
    Larger(config.batchQueue.blockFloor,
           config.batchQueue.blockDuration - ColdLevel(s, "robotarm"))

OfflineJobRate(s) == 1 + ColdLevel(s, "priorityspinup")
TapeRewardMult(s) == 1 + ColdLevel(s, "compression")

\* Later blocks and later cycles pay more, the last block a multiple.
BlockTapes(s, i) ==
    config.batchQueue.blockBaseTapes * (i + 1) * (1 + s.meta.coldStorage.trackCycle)
        * (IF i = TotalBlocks - 1 THEN config.batchQueue.jackpot ELSE 1) * TapeRewardMult(s)

BlockFlops(s, i) ==
    IF (i + 1) % config.batchQueue.flopsInterval = 0
    THEN TotalOutputPerSec(s, clock) * config.batchQueue.flopsSeconds ELSE 0

Arrived(s) ==
    {i \in Blocks : i < (clock - s.meta.coldStorage.trackStartedAt) \div BlockDuration(s)}

\* Mutant. The bulk claim forgets the lifetime counter.
PayBalanceOnly(s, bs) ==
    LET tapes == SumFunction([i \in bs |-> BlockTapes(s, i)])
        flops == SumFunction([i \in bs |-> BlockFlops(s, i)])
    IN  [PayFlops(s, flops) EXCEPT
            !.meta.coldStorage.tapes = @ + tapes,
            !.meta.coldStorage.blocksClaimed = @ \cup bs,
            !.meta.stats["blocksClaimedLifetime"] = @ + Cardinality(bs)]

\* The blocks are marked, and each pays.
PayBlocks(s, bs) ==
    LET tapes == SumFunction([i \in bs |-> BlockTapes(s, i)])
        flops == SumFunction([i \in bs |-> BlockFlops(s, i)])
    IN  [PayTapes(PayFlops(s, flops), tapes) EXCEPT
            !.meta.coldStorage.blocksClaimed = @ \cup bs,
            !.meta.stats["blocksClaimedLifetime"] = @ + Cardinality(bs)]

ClaimBlock(i) ==
    /\ Posts("claimBlock")
    /\ i \in Arrived(save) \ save.meta.coldStorage.blocksClaimed
    /\ Succeed(PayBlocks(save, {i}))

ClaimAllBlocks ==
    LET waiting == Arrived(save) \ save.meta.coldStorage.blocksClaimed
    IN  /\ Posts("claimAllBlocks")
        /\ waiting # {}
        /\ Succeed(PayBlocks(save, waiting))

\* Mutant. A head start may pay for the whole track.
HeadStartWhole(s) == {i \in Blocks : i < ColdLevel(s, "headstart")}

\* The last block is never given away.
HeadStart(s) == {i \in Blocks : i < Smaller(ColdLevel(s, "headstart"), TotalBlocks - 1)}

ResetTrack ==
    LET reset == [save EXCEPT !.meta.coldStorage.trackCycle = @ + 1,
                              !.meta.coldStorage.trackStartedAt = clock,
                              !.meta.coldStorage.blocksClaimed = {}]
    IN  /\ Posts("resetTrack")
        /\ save.meta.coldStorage.blocksClaimed = Blocks
        /\ Succeed(PayBlocks(reset, HeadStart(save)))

JobTypes == DOMAIN config.batchQueue.jobs

StartJob(type) ==
    /\ Posts("startJob")
    /\ save.meta.coldStorage.job = None
    /\ Succeed([save EXCEPT !.meta.coldStorage.job =
                    [type |-> type, accruedOfflineSec |-> 0, startedAt |-> clock]])

CancelJob ==
    /\ Posts("cancelJob")
    /\ save.meta.coldStorage.job # None
    /\ Succeed([save EXCEPT !.meta.coldStorage.job = None])

\* A gap in play is work done, up to what the job needs.
AccrueJob(s, elapsed) ==
    IF s.meta.coldStorage.job = None THEN s
    ELSE [s EXCEPT !.meta.coldStorage.job.accruedOfflineSec =
              Smaller(config.batchQueue.jobs[s.meta.coldStorage.job.type].duration,
                      @ + elapsed * OfflineJobRate(s))]

ClaimJob ==
    LET job == save.meta.coldStorage.job
        paid == PayTapes(save, config.batchQueue.jobs[job.type].tapes * TapeRewardMult(save))
        deep == IF job.type = "deep" THEN 1 ELSE 0
    IN  /\ Posts("claimJob")
        /\ job # None
        /\ job.accruedOfflineSec >= config.batchQueue.jobs[job.type].duration
        /\ Succeed([paid EXCEPT !.meta.coldStorage.job = None,
                                !.meta.stats["jobsCompletedLifetime"] = @ + 1,
                                !.meta.stats["deepJobsCompletedLifetime"] = @ + deep])

BuyTapeUpgrade(id) ==
    LET level == ColdLevel(save, id)
        cost == UpgradeCost(TapeUpgradeDefs[id], level)
    IN  /\ Posts("buyTapeUpgrade")
        /\ level < config.maxLevels[id]
        /\ cost <= save.meta.coldStorage.tapes
        /\ Succeed([save EXCEPT !.meta.coldStorage.tapes = @ - cost,
                                !.meta.coldStorage.upgrades[id] = level + 1])
=============================================================================
