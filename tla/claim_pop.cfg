SPECIFICATION Spec
CONSTANTS
    NumSamples = 2
    Runtime = 0
    Timeout = 1
    NumRemotes = 1
    Collate = TRUE
    MaxPackets = 2
    Lossy = TRUE
    MaxDuplicates = 0
    SendMayFail = FALSE
    OversizedReplies = FALSE
    EarlyPackets = TRUE
    Prompt = TRUE
    SlowReplies = FALSE
    Horizon = 1
INVARIANT RemovesTheAggregatedEntry
