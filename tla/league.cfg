SPECIFICATION Spec
CONSTANTS
    Proc = {p1, p2}
    NoProc = NoProc
    NumUsers = 2
    NumTiers = 2
    LastWeek = 1
    Top = 1
    Bottom = 1
    Batch = 1
    Starts <- LeagueStarts
    Demo = 2
    MaxCalls = 2
    MaxFaults = 1
INVARIANTS
    SettledOnce
    WeeklyXpShown
    PodiumPaidOnce
PROPERTIES
    ViewerSeesHisXp
    EventuallyClosed
CHECK_DEADLOCK FALSE
