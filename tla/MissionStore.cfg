CONSTANTS
    Task = {t1, t2}
    MinBudgetUsd = 1
    MaxBudgetUsd = 2
    MinDurationHours = 1
    MaxDurationHours = 2
    Writer = {w1, w2}
    Budgets <- MCBudgets
    DAGs <- MCDAGs
    Cost = {1}
    Hours = {0, 2}
    MaxGates = 2
SPECIFICATION StoreSpec
CHECK_DEADLOCK FALSE
SYMMETRY MCSymmetry
INVARIANTS
    StoreTypeOK
    ReplyIsTruthful
PROPERTIES
    StatusMovesAsIfInTurn
    DecisionsStand
