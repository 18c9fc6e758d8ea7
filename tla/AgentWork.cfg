CONSTANTS
    Thread = {t1, t2}
    MaxChildren = 1
    MaxRuns = 3
    MaxJobs = 2
    MaxCrashes = 1
    None = None
SPECIFICATION FairSpec
CHECK_DEADLOCK FALSE
INVARIANTS ChildrenBounded JobsOnDisk
PROPERTIES RequestsServed
