SPECIFICATION FairSpec
CONSTANTS
    Event = {1, 2}
    ServerWorker = {s1}
    JobWorker = {j1}
    NHandlers = 2
    MaxAttempts = 2
    BatchLimit = 2
    MaxRounds = 1
    LeaseLen = 0
INVARIANTS
    AttemptsAccounted
    OneWorkerPerAttempt
    ServerDoneMeansHandled
PROPERTIES
    ImplementsDelivery
    EventuallySettled
