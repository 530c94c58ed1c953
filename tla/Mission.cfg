CONSTANTS
    Task = {t1, t2}
    MinBudgetUsd = 1
    MaxBudgetUsd = 2
    MinDurationHours = 1
    MaxDurationHours = 2
    Budgets <- MCBudgets
    DAGs <- MCDAGs
    Cost = {0, 1, 2}
    MaxGates = 3
    MaxElapsed = 2
SPECIFICATION Spec
INVARIANTS
    TypeOK
    VerifiedWithinBudget
    NoProceedingPastAnOpenGate
    BlockedByOneOpenGate
PROPERTIES
    TerminalIsFinal
    VersionCountsTransitions
    BudgetStopsMission
