CONSTANTS
    Task <- MCTask
    Edge <- MCEdge
    Dag <- MCDag
    MaxEdges = 4
SPECIFICATION Spec
INVARIANTS
    DependenciesFirst
    ScheduledUnlessCyclic
    PathSpansTheLayers
CHECK_DEADLOCK FALSE
