SPECIFICATION BackofficeSpec
CONSTANTS
    Owner = Owner
    Member = {m1}
    Device = {d1}
    Module = {k1, k2}
    Grid <- MCGrid
    Request = {r1, r2}
    MaxTokens = 3
    MaxCalls = 4
SYMMETRY Symmetry
INVARIANTS
    OneSessionPerLogin
    ChangeEndsSessions
    PermissionsAsGiven
CHECK_DEADLOCK FALSE
