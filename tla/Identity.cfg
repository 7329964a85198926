SPECIFICATION Spec
CONSTANTS
    a = a
    b = b
    l1 = l1
    l2 = l2
    Players = {a, b}
    Logins = {l1, l2}
    Player <- MCPlayer
    Flows <- MCFlows
    Supplied <- MCSupplied
    Chosen <- MCChosen
    Environments <- MCEnvironments
    Cores <- MCCores
    CdiSupported = {5}
    MaxRestarts = 1
    MaxChoices = 1
    MaxTries = 1
    None = None
INVARIANTS
    SessionOpensTheSave
    RaceFailsNobody
    ChosenNameKept
PROPERTIES
    LoginsEnd
CHECK_DEADLOCK FALSE
