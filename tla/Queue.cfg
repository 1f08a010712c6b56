SPECIFICATION QueueSpec
CONSTANTS
    Routes <- MCRoutes
    Cases <- MCCases
    RouteOfCase <- MCRouteOfCase
    Priority <- MCPriority
    Offered <- MCOffered
    MaxSeq = 3
PROPERTIES
    ImplementsInterface
