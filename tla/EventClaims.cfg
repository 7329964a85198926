SPECIFICATION Spec
CONSTANTS
    e1 = e1
    e2 = e2
    NoEvent = NoEvent
    NoRecord = NoRecord
    Events <- TwoEvents
    Ladder <- MCLadder
    MaxPending = 1
    Grace = 1
    Day = 1
    Length = 2
    MaxActivations = 2
    MaxMetric = 2
    MaxClock = 3
    MaxMishaps = 1
INVARIANTS
    PaidOnce
    PaidWasMet
    ClaimSurvives
SYMMETRY AnyEvent
CHECK_DEADLOCK FALSE
