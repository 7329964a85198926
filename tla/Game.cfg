SPECIFICATION Spec
CONSTANTS
    None = None
    Tiers <- MCTiers
    Grid <- MCGrid
    Overclock <- MCOverclock
    BasePrice <- MCBasePrice
    BaseProd <- MCBaseProd
    Growth = 2
    ColdTier = 1
    UpgradeDefs <- MCUpgradeDefs
    SingularityDefs <- MCSingularityDefs
    TapeUpgradeDefs <- MCTapeUpgradeDefs
    GoalDefs <- MCGoalDefs
    RepeatableDefs <- MCRepeatableDefs
    AchievementDefs <- MCAchievementDefs
    ContractDefs <- MCContractDefs
    Shuffle <- MCShuffle
    BoardSize = 2
    TotalBlocks = 2
    Players <- MCPlayers
    Draw <- MCDraw
    DrawRange = 6
    Full = 4
    MaxHazards = 2
    Start = 2
    DayLength = 2
    MaxClock = 8
    MaxOwned = 2
INVARIANTS
    RewardsAreEarned
    ContractsMeasureToday
    BalancesAddUp
    NothingReachedIsMissed
PROPERTIES
    PaidForUptime
CHECK_DEADLOCK FALSE
