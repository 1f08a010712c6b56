SPECIFICATION FairSpec
CONSTANTS
    Visits <- MCVisits
    Cases <- MCCases
    Root = "/"
    Reveals <- MCReveals
    Crashes = 2
    DevActivities = 1
    Plans = 1
    Disturbances = 2
INVARIANTS
    LossBounded
PROPERTIES
    RecoversFromCrash
