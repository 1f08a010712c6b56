\* With plans from Gemini three statements about the session are false: one of them is checked here,
\* the other two in its place.
SPECIFICATION Spec
CONSTANTS
    Routes <- MCRoutes2
    Cases <- MCCases
    RouteOfCase <- MCRouteOfCase
    Priority <- MCPriority
    Root = "/"
    Forms <- MCForms
    FormOf <- MCFormOf
    RouteOf <- MCRouteOf
    NonSubmitting <- MCNonSubmitting
    Context <- MCContext
    Destructive = {"f2"}
    Links <- MCLinks2
    Landing <- MCLanding2
    ActionsOn <- MCActionsOn2
    MaxPages = 2
    MaxDepth = 1
    MaxCases = 2
    AllowDestructive = FALSE
    UseGemini = TRUE
    Sessions = 1
    DevActivities = 1
INVARIANTS
    NoOrphanCase
\*  DrainedWhenWatching
\* PROPERTIES
\*  NoDestructiveSubmit
CHECK_DEADLOCK FALSE
