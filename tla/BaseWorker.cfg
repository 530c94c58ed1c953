CONSTANTS
    urgent = urgent
    routine = routine
    GoalId = {urgent, routine}
    Priority <- MCPriority
    Call = {c1, c2}
    MaxGoals = 3
    MAX_RECOVERY_ATTEMPTS = 3
SPECIFICATION FairSpec
CHECK_DEADLOCK FALSE
INVARIANTS
    TypeOK
    ActiveGoalIsAccountedFor
    OneCallPerGoal
PROPERTIES
    RecoveryGetsOn
    EveryCallEnds
