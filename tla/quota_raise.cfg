SPECIFICATION Spec
CONSTANTS
    Threads = {t1, t2}
    Observers = {}
    Controllers = {c}
    Flushers = {}
    Limits = {1, 3}
    Meterings = {"max"}
    Chunks = {1}
    NoLimit = NoLimit
    NoActor = NoActor
    MaxHour = 2
    MaxBytes = 3
INVARIANT RaisedQuotaResumes
CHECK_DEADLOCK FALSE
