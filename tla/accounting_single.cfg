SPECIFICATION Spec
CONSTANTS
    Users <- MCUsers
    Packages <- MCPackages
    Sizes <- MCSizes
    Starts <- MCStarts
    Configs <- SingleConfigs
    NoLimit = NoLimit
    NoLimits = NoLimits
    MaxUsed = 1
    MaxOps = 2
    MaxEvents = 1
PROPERTY SingleUserHasItAll
CHECK_DEADLOCK FALSE
