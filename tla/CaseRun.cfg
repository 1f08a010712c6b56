SPECIFICATION FairSpec
CONSTANTS
    Cases <- MCCases
    Apps <- MCApps
    MaxPolls = 3
INVARIANTS
    VerdictIsRight
PROPERTIES
    EveryCaseEnds
CHECK_DEADLOCK FALSE
