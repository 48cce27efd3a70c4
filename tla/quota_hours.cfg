SPECIFICATION Spec
CONSTANTS
    Threads = {t1, t2}
    Observers = {}
    Controllers = {}
    Flushers = {}
    Limits = {2}
    Meterings = {"max"}
    Chunks = {1}
    NoLimit = NoLimit
    NoActor = NoActor
    MaxHour = 2
    MaxBytes = 3
PROPERTY HourClosedOnce
CHECK_DEADLOCK FALSE
