CONSTANTS
    mail = mail
    gone = gone
    web = web
    e1 = e1
    e2 = e2
    Tool = {mail, gone, web}
    Registered = {mail, web}
    AllowedTools = {mail, gone}
    SourceId = {e1, e2}
    Results <- MCResults
    WorkingTokens = {0, 2, 6}
    TokenBudget = 5
    TaskBudget = 6
    Requests = {1, 3}
    MaxResponse = 3
    MaxInFlight = 3
SPECIFICATION FairSpec
INVARIANTS
    TypeOK
    AnswerMatchesRecord
    OvershootIsBounded
    ContextWithinBudget
PROPERTY
    ToolCallsEnd
CHECK_DEADLOCK FALSE
