CONSTANTS
    w1 = w1
    Worker = {w1}
    Manager = {"ceo", "cto", "none"}
    MaxOptions = 2
    MaxEscalations = 1
SPECIFICATION Spec
INVARIANTS
    TypeOK
    LeastRiskAlone
    AutonomyKeepsUp
