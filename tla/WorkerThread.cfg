CONSTANTS
    w1 = w1
    w2 = w2
    NoWorker = NoWorker
    Workers = {w1, w2}
    Owners <- AllOwners
SPECIFICATION FairThreadSpec
INVARIANTS
    OneWorker
    PauseCallbackRuns
PROPERTIES
    ExitReturnsUnlessInGap
    RepeatedResumeRuns
