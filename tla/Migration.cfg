SPECIFICATION MigrationSpec
CONSTANTS
    p1 = p1
    p2 = p2
    Procs = {p1, p2}
    TABLES <- MCTables
    WriteSets <- MCWriteSets
    Seeded = "live_events"
    MaxWrites = 2
    MaxBoots = 3
    Own = Own
INVARIANTS
    CopiedOneMoment
    NeverServesEmptyGame
    NobodyLockedOut
PROPERTIES
    BootEnds
CHECK_DEADLOCK FALSE
