SPECIFICATION Spec
CONSTANTS
    Provider = {"a", "b", "c"}
    Model = {"ma", "mb", "mc"}
    Selectable = {"ma", "mc"}
    Profile = {"main", "spare"}
    Chains <- MCChains
    ProfileSets <- MCProfileSets
    MaxRetries = 1
    MaxFailovers = 2
    MaxRounds = 2
    ModelOf <- MCModelOf
    Registered = {"a", "b"}
    Startup = "ma"
    None = None
CHECK_DEADLOCK FALSE
INVARIANTS
    FallbackReturned
