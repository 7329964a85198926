SPECIFICATION Spec
CONSTANTS
    u = u
    r1 = r1
    r2 = r2
    r3 = r3
    r4 = r4
    Users = {u}
    Requests = {r1, r2, r3, r4}
    UserOf <- MCUserOf
    Games = {"match", "rush"}
    Metrics = {1, 2}
    Cap <- MCCap
    Window = 0
    Cooldown = 1
    Ttl = 1
    MaxClock = 1
    None = None
SYMMETRY AnyRequest
INVARIANTS
    OneWinPerCooldown
    BestWasAnnounced
PROPERTIES
    HiddenAfterTtl
CHECK_DEADLOCK FALSE
