SPECIFICATION LiveSpec
CONSTANTS
    f = f
    g = g
    broken = broken
    d = d
    e = e
    Files <- MCFiles
    Edits <- MCEdits
    Accepts <- MCAccepts
    Pages = {p, q}
    NoStore = NoStore
    Torn = Torn
    MaxEdits = 2
    MaxSaves = 2
    MaxBoots = 1
INVARIANT RestartKeepsConfig
PROPERTY NoLostUpdate
PROPERTY FileIsHeard
CHECK_DEADLOCK FALSE
