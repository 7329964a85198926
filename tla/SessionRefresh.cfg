SPECIFICATION Spec
CONSTANTS
    a = a
    b = b
    r1 = r1
    r2 = r2
    r3 = r3
    c1 = c1
    None = None
    Tabs = {a, b}
    Requests = {r1, r2, r3}
    TabOf <- MCTabOf
    Codes = {c1}
    MaxExpiries = 1
    MaxFaults = 2
    MaxTokens = 7
INVARIANTS
    SessionSurvives
    ExpiryGoesUnnoticed
    CodeExchangedOnce
PROPERTIES
    CallsEnd
CHECK_DEADLOCK FALSE
