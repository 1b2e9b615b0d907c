SPECIFICATION FairSpec
CONSTANTS
    Modes <- BothModes
    MaxUpdates = 2
    MaxCalls = 2
    RetryBudget = 1
    MaxFailures = 2
    MaxFaults = 1
INVARIANTS FinalsAreKept PostedOnce OnePreviewMessage EndedMeansRefused
PROPERTIES FlushIsTruthful AnswersAreTruthful EveryCallIsAnswered UpdatesAreShown
CHECK_DEADLOCK FALSE
