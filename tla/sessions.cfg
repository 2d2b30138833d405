SPECIFICATION AccountsSpec
CONSTANTS
    Device = {d1}
    Request = {r1, r2}
    Grace = 0
    MaxTokens = 4
    MaxLogins = 2
    MaxFaults = 2
    MaxCuts = 1
    MaxCodes = 2
    MaxLinks = 1
    MaxTries = 1
    MaxMixed = 3
    Nobody = Nobody
SYMMETRY SessionSymmetry
INVARIANTS
    LastCodeOpens
    NoGhostSessions
PROPERTIES
    ClientKeepsSession
