SPECIFICATION FairSpec
CONSTANTS
    NumSamples = 0
    Runtime = 1
    Timeout = 0
    NumRemotes = 1
    Collate = FALSE
    MaxPackets = 1
    Lossy = TRUE
    MaxDuplicates = 0
    SendMayFail = FALSE
    OversizedReplies = FALSE
    EarlyPackets = TRUE
    Prompt = FALSE
    SlowReplies = FALSE
    Horizon = 1
PROPERTY RuntimeLimited
