SPECIFICATION LiveSpec
CONSTANTS
    Threads = {t}
    Observers = {}
    Controllers = {c}
    Flushers = {}
    Limits = {1, 2, NoLimit}
    Meterings = {"max", "sum"}
    Chunks = {0, 1}
    NoLimit = NoLimit
    NoActor = NoActor
    MaxHour = 2
    MaxBytes = 2
PROPERTY LimitEnforced
CHECK_DEADLOCK FALSE
