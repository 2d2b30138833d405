SPECIFICATION NotificationsSpec
CONSTANTS
    NumUsers = 1
    Token = {t1}
    Request = {r1}
    Job = {j1, j2}
    Nobody = Nobody
    Day = 2
    Zone <- MCZone
    Hours <- MCHours
    Threshold <- MCThreshold
    Batch = 1
    Segments <- MCSegments
    Owners <- MCOwners
    Since <- MCSince
    MaxTime = 2
    MaxSends = 2
    MaxVisits = 1
    MaxFaults = 1
    MaxMixed = 2
INVARIANTS
    RemindedOnce
    StageFits
    DisabledWasReported
CHECK_DEADLOCK FALSE
