SPECIFICATION Spec
CONSTANTS
    Users <- MCUsers
    Packages <- MCPackages
    Sizes <- MCSizes
    Starts <- MCStarts
    Configs <- OfflineConfigs
    NoLimit = NoLimit
    NoLimits = NoLimits
    MaxUsed = 1
    MaxOps = 2
    MaxEvents = 1
INVARIANT OfflineUsesQuota
CHECK_DEADLOCK FALSE
