SPECIFICATION LiveSpec
CONSTANTS
    Peers = {p, q}
    Tasks = {s, t}
    NoTask = NoTask
    MaxSessions = 1
    MaxPending = 2
    BatchSize = 2
    MaxPackets = 4
INVARIANT InOrder
INVARIANT EntryOwned
PROPERTY OpeningResolves
PROPERTY StopDrains
