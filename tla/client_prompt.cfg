SPECIFICATION Spec
CONSTANTS
    NumSamples = 3
    Runtime = 0
    Timeout = 1
    NumRemotes = 1
    Collate = TRUE
    MaxPackets = 3
    Lossy = FALSE
    MaxDuplicates = 0
    SendMayFail = FALSE
    OversizedReplies = FALSE
    EarlyPackets = FALSE
    Prompt = TRUE
    SlowReplies = FALSE
    Horizon = 1
INVARIANT VerdictOnce
INVARIANT NoSplitReply
