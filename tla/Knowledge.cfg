CONSTANTS
    k1 = k1
    k2 = k2
    Item = {k1, k2}
    Domain <- MCDomain
    Confidence <- MCConfidence
    field = field
    department = department
    Department = department
    Covered = {field, department}
    Limit = 1
    Headcount = 2
    MaxLeavers = 1
    Recovering = {1}
SPECIFICATION Spec
INVARIANTS
    TypeOK
    OnlyTheGapLoses
    ForgottenOnlyUnderLoad
CHECK_DEADLOCK FALSE
