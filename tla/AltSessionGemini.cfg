SPECIFICATION Spec
CONSTANTS
    Routes <- MCRoutes2
    Cases <- MCCases2
    RouteOfCase <- MCRouteOfCase2
    Priority <- MCPriority2
    Root = "/"
    Forms <- MCForms
    FormOf <- MCFormOf2
    RouteOf <- MCRouteOf
    NonSubmitting <- MCNonSubmitting
    Context <- MCContext
    Destructive = {"f2"}
    Links <- MCLinks2
    Landing <- MCLanding2
    ActionsOn <- MCNoActions2
    MaxPages = 2
    MaxDepth = 1
    MaxCases = 2
    AllowDestructive = FALSE
    UseGemini = TRUE
    Sessions = 2
    DevActivities = 0
INVARIANTS
    RunOnce
PROPERTIES
    HeuristicsRespected
CHECK_DEADLOCK FALSE
