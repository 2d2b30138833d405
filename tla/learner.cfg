SPECIFICATION Spec
CONSTANTS
    Users = {u1, u2, u3, u4}
    Proc = {p1, p2}
    Players = {u1}
    MaxHearts = 3
    MaxFreezes = 1
    DayTicks = 1
    ReviewPerDay = 2
    RewardCap = 2
    Gift = 1
    Lessons = {1, 2}
    MaxTime = 3
    MaxCalls = 3
SYMMETRY Symmetry
CONSTRAINT FewRedeem
INVARIANTS
    TypeOK
    PaidOnce
    ReferrerServed
CHECK_DEADLOCK FALSE
