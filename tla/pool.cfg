SPECIFICATION LiveSpec
CONSTANTS
    N = 2
    Callers = {a}
    Timers = {s, t}
    Free = Free
    CheckTicks = 1
INVARIANT TypeOK
INVARIANT ActiveNotStale
INVARIANT RecoveryPending
PROPERTY FailoverSettles
PROPERTY SessionsFollow
