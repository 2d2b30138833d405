SPECIFICATION StudySpec
CONSTANTS
    Surah = {1, 114}
    Words <- StudyWords
    Hizb <- StudyHizb
    Lang = {"fr"}
    Letters = 4
    LetterLessons = 1
    SignLetters = 2
    Signs <- StudySigns
    SeedLessons = 2
    DemoSteps <- StudyDemo
    Concurrency = 2
    Scripts = {"import", "reimport", "seed", "lessons", "alphabet", "translate"}
    MaxScripts = 3
    MaxFaults = 1
    Starts = {"empty", "full", "unlinked"}
    Quality = {"facile"}
    Worker = {w1, w2}
    MaxRequests = 4
    MaxAborts = 1
    MaxMixed = 2
SYMMETRY WorkerSymmetry
INVARIANTS
    LessonsMatchVerses
    MasteryRecorded
    GuidedNeverAhead
CHECK_DEADLOCK FALSE
