SPECIFICATION Spec
CONSTANTS
    Users <- MCUsers
    Packages <- MCPackages
    Sizes <- MCSizes
    Starts <- MCStarts
    Configs <- MixedConfigs
    NoLimit = NoLimit
    NoLimits = NoLimits
    MaxUsed = 1
    MaxOps = 2
    MaxEvents = 1
INVARIANT CreditedOnce
INVARIANT LimitsMatchBook
PROPERTY SyncConserves
PROPERTY GiverKeepsWhatIsSpent
CHECK_DEADLOCK FALSE
