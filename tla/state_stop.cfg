SPECIFICATION Spec
CONSTANTS
    Users = {u}
    Gens = 1
    MaxBytes = 2
    MaxApplies = 1
    MaxHours = 0
    MaxFaults = 1
PROPERTY StopLosesNothing
CHECK_DEADLOCK FALSE
