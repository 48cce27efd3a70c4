SPECIFICATION LiveSpec
CONSTANTS
    Conns = {c}
    Workers = {v, w}
    Pipes = {p}
    NoPipe = NoPipe
    MaxIdle = 1
    Small = 1
    Big = 2
    GrowAfter = 1
    Limits = {2, 4}
    MaxBytes = 3
INVARIANT ByteExact
PROPERTY RelaysStreams
PROPERTY RemovalCloses
PROPERTY AllArrives
CHECK_DEADLOCK FALSE
