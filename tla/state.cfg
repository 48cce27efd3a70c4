SPECIFICATION LiveSpec
CONSTANTS
    Users = {u}
    Gens = 2
    MaxBytes = 2
    MaxApplies = 4
    MaxHours = 1
    MaxFaults = 1
INVARIANT FilterIsExact
INVARIANT PowerLossKeepsHours
INVARIANT RemovedAreSaved
PROPERTY CountedIsSaved
CHECK_DEADLOCK FALSE
