SPECIFICATION Spec
CONSTANTS
    Threads = {t}
    Observers = {o}
    Controllers = {}
    Flushers = {f}
    Limits = {2}
    Meterings = {"max"}
    Chunks = {1}
    NoLimit = NoLimit
    NoActor = NoActor
    MaxHour = 2
    MaxBytes = 2
INVARIANT TypeOK
INVARIANT NeverOverbilled
INVARIANT NoEarlyCutoff
INVARIANT SnapshotNotAhead
INVARIANT SnapshotNotTorn
PROPERTY BillMovesOnlyWithTraffic
CHECK_DEADLOCK FALSE
