SPECIFICATION FairSpec
CONSTANTS
    Session = {s1, s2}
    MaxCmds = 3
    SubmitModes = {"collect", "followup", "steer", "interrupt"}
    LaneConfigs <- MCLaneConfigs
    QueueConfigs <- MCQueueConfigs
    None = None
CHECK_DEADLOCK FALSE
INVARIANTS
    LaneSerialized
