SPECIFICATION MCSpec
CONSTANTS
    Tabs = {"t1", "t2"}
    Pages = {"a/", "b/"}
    OriginOf <- MCOriginOf
    Home <- MCHome
    Landing <- MCLanding
    Ops = 2
    Faults = 2
    Ports = {"p1", "p2", "p3"}
    Uses = 3
    Sockets = 3
    Troubles = 3
INVARIANTS
    WorksOnThePage
PROPERTIES
    NoTabForgotten
    EveryTaskEnds
    LinksComeBack
CHECK_DEADLOCK FALSE
