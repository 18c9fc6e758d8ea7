CONSTANTS
    Pid = {p1, p2, p3}
    Platforms = {"unix", "windows"}
    MaxRestarts = 2
    MaxLines = 3
    Main = Main
    Monitor = Monitor
    Caller = Caller
    None = None
SPECIFICATION FairSpec
CHECK_DEADLOCK FALSE
INVARIANTS OneSidecar ConnectedToCurrent AnswersOwn
PROPERTIES StopEnds RestartsOrGivesUp
