SPECIFICATION RaceSpec
CONSTANTS
    Threads = {t1, t2}
    Observers = {}
    Controllers = {}
    Flushers = {}
    Limits = {2}
    Meterings = {"max", "sum"}
    Chunks = {1}
    NoLimit = NoLimit
    NoActor = NoActor
    MaxHour = 3
    MaxBytes = 8
INVARIANT BytesNeverLost
INVARIANT OvershootBounded
SYMMETRY ThreadSymmetry
CHECK_DEADLOCK FALSE
