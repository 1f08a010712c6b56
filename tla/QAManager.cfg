SPECIFICATION FairSpec
CONSTANTS
    Requests = 3
    MaxSteps = 1
    ReplaySize = 3
    QueueSize = 4
    Connects = 2
INVARIANTS
    OneRunAtATime
    ReportsOnce
    PanelFollows
PROPERTIES
    StopStops
    SaveLeadsToRun
CHECK_DEADLOCK FALSE
