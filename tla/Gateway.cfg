SPECIFICATION FairSpec
CONSTANTS
    Conn = {c1, c2}
    Id = {1}
    AuthModes = {"none", "token"}
    MaxAttempts = 2
    None = None
INVARIANTS
    AnsweredByRight
    
PROPERTIES
    LockoutHolds
    ShortRequestsAnswered
