SPECIFICATION Spec
CONSTANTS
    Event = {1, 2}
    ServerWorker = {s1}
    JobWorker = {j1}
    NHandlers = 1
    MaxAttempts = 2
    BatchLimit = 2
    MaxRounds = 2
    LeaseLen = 0
INVARIANTS
    ProcessedMeansHandled
