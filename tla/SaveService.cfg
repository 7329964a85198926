SPECIFICATION FairSpec
CONSTANTS
    u1 = u1
    u2 = u2
    claimA = claimA
    claimB = claimB
    load = load
    other = other
    NoSave = NoSave
    NoCall = NoCall
    MinGap = 2
    MaxClock = 2
    Users <- OneUser
    Calls <- TwoTabs
    UserOf <- MCUserOf
    ReadOnly <- MCReadOnly
    Claiming <- MCClaiming
PROPERTIES
    LooksAtomic
    EveryRequestAnswered
CHECK_DEADLOCK FALSE
