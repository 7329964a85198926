SPECIFICATION CutoverSpec
CONSTANTS
    a = a
    b = b
    Accounts = {a, b}
    Deployments <- MCDeployments
    Databases <- MCDatabases
    CdiSupported = {5}
    MaxChanges = 1
    None = None
INVARIANTS
    CleanPreflightLogsIn
    ClearedAuditKeepsSaves
PROPERTIES
    ClearedBootIsNotRefused
