SPECIFICATION FairSpec
CONSTANTS
    Challenge = {c1}
    User = {u1, u2}
    Request = {r1, r2}
    JobRequest = r1
    Snapshot = TRUE
    Target = 1
    WeeklyCap = 3
    StartsAt = 1
    EndsAt = 2
    MaxNow = 2
    MaxWork = 1
    MaxNudged = 1
    MaxAborts = 1
    Nobody = Nobody
    Never = Never
INVARIANTS
    ProgressIsEarned
    NobodyLeftInvited
PROPERTIES
    EarlyEndMeansAllDone
    ImplementsLife
    EventuallyClosed
