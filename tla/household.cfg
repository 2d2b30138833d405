SPECIFICATION Spec
CONSTANTS
    User = {u1, u2, u3}
    Household = {h1, h2}
    Request = {r1}
    MaxInvitations = 2
    MaxMembers = 2
    Ttl = 1
    MaxTime = 3
    MaxCalls = 4
    Nobody = Nobody
    Deleted = Deleted
SYMMETRY HouseholdSymmetry
INVARIANTS
    SerialPremium
    SerialHousehold
CHECK_DEADLOCK FALSE
