SPECIFICATION Spec
CONSTANTS
    Browsers = {b}
    Requests = {r1, r2}
    SESSION_TTL = 2
    MaxIds = 3
    MaxTime = 3
    MaxRestarts = 1
SYMMETRY Interchangeable
INVARIANT SessionsAreExact
PROPERTY OverForGood
CHECK_DEADLOCK FALSE
