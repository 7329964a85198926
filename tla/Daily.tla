-------------------------------- MODULE Daily -------------------------------
(***************************************************************************)
(* What a player may claim once a UTC day: the contracts board             *)
(* (shared/contracts.js) and the streak (shared/streak.js).  The board's   *)
(* types are not stored: they are drawn again from its date whenever it is *)
(* read.                                                                   *)
(***************************************************************************)
EXTENDS Economy

CONSTANTS
    ContractDefs,   \* metric -> [lane, base, perLevel, seconds]
    Shuffle         \* day -> the order the date deals the metrics in

ASSUME EnoughBaseContracts ==
    Cardinality({m \in DOMAIN ContractDefs : ContractDefs[m].lane = "base"}) >= BoardSize
ASSUME ContractAssumption ==
    /\ DOMAIN ContractDefs \subseteq Counters
    /\ ContractDefs \in [DOMAIN ContractDefs ->
                            [lane : {"base", "cold"}, base : Nat, perLevel : Nat, seconds : Nat]]
    /\ \A t \in 0 .. MaxClock : Shuffle[t \div DayLength] \in Seq(DOMAIN ContractDefs)

(***************************************************************************)
(* The first three of the day's order; a player without Cold Storage has   *)
(* each cold pick replaced by the next base one not used yet.              *)
(***************************************************************************)
DailyContractTypes(day, coldUnlocked) ==
    LET order == Shuffle[day]
        Used(picked) == {picked[i] : i \in 1 .. Len(picked)}
        Free(picked, base) ==
            {i \in 1 .. Len(order) : /\ order[i] \notin Used(picked)
                                     /\ base => ContractDefs[order[i]].lane = "base"}
        Deal(picked, i) ==
            IF Len(picked) = BoardSize \/ order[i] \in Used(picked) THEN picked
            ELSE IF coldUnlocked \/ ContractDefs[order[i]].lane = "base" THEN Append(picked, order[i])
            ELSE IF Free(picked, TRUE) = {} THEN picked
            ELSE Append(picked, order[Min(Free(picked, TRUE))])
        dealt[i \in 0 .. Len(order)] == IF i = 0 THEN <<>> ELSE Deal(dealt[i - 1], i)
    IN  dealt[Len(order)]

IsColdUnlocked(s) == s.run.tiers[ColdTier].owned >= 1

ContractTarget(s, now, m) ==
    Larger(ContractDefs[m].base + ContractDefs[m].perLevel * s.meta.level,
           TotalOutputPerSec(s, now) * ContractDefs[m].seconds)

\* A new day's board: today's targets, and today's counters as its baseline.
RolloverContracts(s, now) ==
    LET today == UtcDateKey(now)
        types == DailyContractTypes(today, IsColdUnlocked(s))
    IN  IF s.meta.contracts.dateKey = today THEN s
        ELSE [s EXCEPT !.meta.contracts =
                 [dateKey |-> today,
                  targets |-> PadTo3([i \in 1 .. Len(types) |-> ContractTarget(s, now, types[i])]),
                  baseline |-> [m \in {types[i] : i \in 1 .. Len(types)} |-> s.meta.stats[m]],
                  claimed |-> {}]]

\* Mutant. The board is dealt again for the racks owned at this moment.
DealtForRacksNow(s) ==
    IF s.meta.contracts.dateKey = None THEN <<>>
    ELSE DailyContractTypes(s.meta.contracts.dateKey, IsColdUnlocked(s))

\* contractsForState: whether Cold Storage was unlocked is read off the baseline.
ContractsForState(s) ==
    LET hadCold == \E m \in DOMAIN s.meta.contracts.baseline : ContractDefs[m].lane = "cold"
    IN  IF s.meta.contracts.dateKey = None THEN <<>>
        ELSE DailyContractTypes(s.meta.contracts.dateKey, hadCold)

Grown(s, m) == Larger(0, s.meta.stats[m] - Field(s.meta.contracts.baseline, m, 0))

ClaimContract(i) ==
    LET board == ContractsForState(save)
        scaled == 1 + save.meta.level
        paid == PayTapes(PayWafers(save, config.social.contractWafers * scaled),
                         config.social.contractTapes * scaled)
    IN  /\ Posts("claimContract")
        /\ save.meta.contracts.dateKey = UtcDateKey(clock)
        /\ i \in 1 .. Len(board)
        /\ i \notin save.meta.contracts.claimed
        /\ Grown(save, board[i]) >= save.meta.contracts.targets[i]
        /\ Succeed([paid EXCEPT !.meta.contracts.claimed = @ \cup {i},
                                !.meta.stats["contractsCompletedLifetime"] = @ + 1])

\* Only yesterday's claim continues it.
NextStreakCount(streak, today) ==
    IF streak.lastClaimDate # None /\ today = streak.lastClaimDate + 1
    THEN Smaller(streak.count + 1, config.social.streakMaxDay) ELSE 1

\* Early days pay output, later ones wafers, the last one tapes as well.
StreakReward(s, day) ==
    LET wafers == config.social.streakWafers * day
    IN  IF day >= config.social.streakMaxDay
        THEN PayTapes(PayWafers(s, wafers), config.social.streakTapes)
        ELSE IF day > config.social.streakFlopsDays THEN PayWafers(s, wafers)
        ELSE PayFlops(s, TotalOutputPerSec(s, clock) * day)

ClaimStreak ==
    LET today == UtcDateKey(clock)
        day == NextStreakCount(save.meta.streak, today)
    IN  /\ Posts("claimStreak")
        /\ save.meta.streak.lastClaimDate # today
        /\ Succeed([StreakReward(save, day) EXCEPT
                        !.meta.streak = [count |-> day, lastClaimDate |-> today],
                        !.meta.stats["bestStreak"] = Larger(@, day)])
=============================================================================
