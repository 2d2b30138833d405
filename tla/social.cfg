SPECIFICATION Spec
CONSTANTS
    User = {u1, u2, u3}
    Request = {r1, r2}
    Invites = {i1}
    Premium = {}
    FreeFriends = 1
    PremiumFriends = 2
    MaxDaily = 2
    MaxPending = 2
    MaxReports = 1
    MaxUses = 1
    MaxDay = 2
    MaxCalls = 3
    FreeMessages = 2
    PremiumMessages = 3
    PerRecipient = 1
SYMMETRY SocialSymmetry
INVARIANTS
    Consented
    InviteWithinUses
    LimitsKept
    BlockedApart
    MessagesAccounted
CHECK_DEADLOCK FALSE
