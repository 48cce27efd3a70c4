SPECIFICATION Spec
CONSTANTS
    Users = {u}
    Gens = 1
    MaxBytes = 2
    MaxApplies = 2
    MaxHours = 0
    MaxFaults = 0
INVARIANT RemovedLoseNothing
CHECK_DEADLOCK FALSE
