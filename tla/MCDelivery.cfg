SPECIFICATION FairSpec
CONSTANTS
    Lane = {1, 2}
    Task = {1, 2, 3}
    None = None
    MaxUpdate = 3
    MaxDeliveries = 1
    MaxCrashes = 1
    Hook = {h1}
    Poller = poller
    LaneOf <- MCLaneOf
    Configs <- MCConfigs
CHECK_DEADLOCK FALSE
INVARIANTS
    PolledKept
PROPERTIES
    ChatOrder
    PolledSettle
