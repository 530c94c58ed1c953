CONSTANTS
    dev = dev
    qa = qa
    g1 = g1
    Role = {dev, qa}
    Goal = {g1, g2}
    Call = {c1, c2}
    WorkerTypes <- MCWorkerTypes
    MinCount <- MCMinCount
    Matches <- MCMatches
    MaxWorkers = 4
    MaxHires = 8
    MaxFires = 1
SPECIFICATION FairSpec
INVARIANTS
    TypeOK
    GoalsFitTheWorker
    WithinMaxWorkers
PROPERTIES
    GoalsAreKept
    MinimumStaffingRestored
