SPECIFICATION FairSpec
CONSTANTS
    Routes <- MCRoutes
    Cases <- MCCases
    RouteOfCase <- MCRouteOfCase
    Priority <- MCPriority
    Root = "/"
    Forms <- MCForms
    FormOf <- MCFormOf
    RouteOf <- MCRouteOf
    NonSubmitting <- MCNonSubmitting
    Context <- MCContext
    Destructive = {"f2"}
    Links <- MCLinks
    Landing <- MCLanding
    ActionsOn <- MCActionsOn
    MaxPages = 2
    MaxDepth = 1
    MaxCases = 2
    AllowDestructive = FALSE
    UseGemini = FALSE
    Sessions = 2
    DevActivities = 1
INVARIANTS
    NoOrphanCase
PROPERTIES
    BoostedFirst
    CatchesUp
CHECK_DEADLOCK FALSE
