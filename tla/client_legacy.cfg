SPECIFICATION FairSpec
CONSTANTS
    NumSamples = 0
    Runtime = 1
    Timeout = 2
    NumRemotes = 2
    Collate = FALSE
    MaxPackets = 3
    Lossy = TRUE
    MaxDuplicates = 1
    SendMayFail = TRUE
    OversizedReplies = FALSE
    EarlyPackets = TRUE
    Prompt = FALSE
    SlowReplies = FALSE
    Horizon = 2
PROPERTY Termination
