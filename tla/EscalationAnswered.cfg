CONSTANTS
    w1 = w1
    Worker = {w1}
    Manager = {"ceo", "cto", "none"}
    MaxOptions = 1
    MaxEscalations = 1
SPECIFICATION FairSpec
PROPERTY
    EscalationAnswered
