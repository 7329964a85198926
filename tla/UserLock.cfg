SPECIFICATION LockFairSpec
CONSTANTS
    u1 = u1
    u2 = u2
    c1 = c1
    c2 = c2
    c3 = c3
    c4 = c4
    NoCall = NoCall
    Users <- MCUsers
    Calls <- MCCalls
    UserOf <- MCUserOf
INVARIANTS
    Exclusive
PROPERTIES
    EveryCallRuns
CHECK_DEADLOCK FALSE
