CONSTANTS
    massive = massive
    openfigi = openfigi
    LastDay = 3
    Window = 2
    Instrs = {1, 2}
    Datasources = {massive, openfigi}
    EventSource = massive
    Administrator = Administrator
    Precedence <- MCPrecedence
    MaxAnswers = 3
SPECIFICATION Spec
INVARIANTS
    FollowsTheRule
    DisagreementsByDay
PROPERTY GreyZoneStands
CHECK_DEADLOCK FALSE
