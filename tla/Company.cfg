CONSTANTS
    engineering = engineering
    research = research
    product = product
    Departments <- MCDepartments
    Targets <- MCTargets
    CompanyGoal = {g1}
    Knowledge = {k1}
    MinStaff <- MCMinStaff
    MaxHires = 3
    MaxFires = 2
    Reporters = {engineering}
SPECIFICATION FairSpec
INVARIANTS
    TypeOK
    OnlyTheActiveListen
    KnowledgeReachesPeers
PROPERTIES
    EveryShareEnds
    CompanyGoalArrivesOnce
