SPECIFICATION Spec
CONSTANTS
    NumSamples = 1
    Runtime = 0
    Timeout = 1
    NumRemotes = 1
    Collate = TRUE
    MaxPackets = 1
    Lossy = FALSE
    MaxDuplicates = 0
    SendMayFail = FALSE
    OversizedReplies = FALSE
    EarlyPackets = TRUE
    Prompt = TRUE
    SlowReplies = FALSE
    Horizon = 1
INVARIANT FinishedMeansResolved
