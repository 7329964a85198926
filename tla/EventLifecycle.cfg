SPECIFICATION FairSpec
CONSTANTS
    q1 = q1
    q2 = q2
    v1 = v1
    Scheduler = Scheduler
    NoTime = NoTime
    NoRow = NoRow
    Events <- MCEvents
    Recurrence <- MCRecurrence
    Requests <- TwoRequests
    Bodies <- MCBodies
    Contents <- OneContent
    Year = 4
    Grace = 1
    MaxClock = 8
    MaxInFlight = 1
    MaxMishaps = 1
INVARIANTS
    OneActive
    SweepSettles
PROPERTIES
    WindowsClose
    RecurrenceResumes
CHECK_DEADLOCK FALSE
