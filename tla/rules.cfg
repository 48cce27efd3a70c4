SPECIFICATION Spec
CONSTANTS
    None = None
    MIN_SYNC_SECS = 60
    Shaped = {"x:1", "y:1"}
    a = a
    b = b
    Addrs <- MCAddrs
    Configs <- MCAccepted
    Places <- MCAddrs
    Totals = {0, 7}
    Width = 11
    Bits = 8
    UnitBits = 2
    MaxTraffic = 12
    MaxSessions = 40
    MaxShards = 8
    Nothing = Nothing
    Shards = 2
    MaxApplies = 3
INVARIANT AllOrNothing
INVARIANT RulesHaveSockets
PROPERTY UnchangedUntouched
INVARIANT AcceptedAreSound
INVARIANT AmountsAddUp
CHECK_DEADLOCK FALSE
