SPECIFICATION FairSpec
CONSTANTS
    Replies <- MCReplies
    MaxSteps = 2
    Keep = 2
    MaxRuns = 2
    Launches = 3
    Cancels = 2
INVARIANTS
    NothingLeaks
    TurnsMatch
PROPERTIES
    EveryRunEnds
CHECK_DEADLOCK FALSE
