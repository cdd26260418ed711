SPECIFICATION Spec
CONSTANTS
    NumSamples = 2
    Runtime = 0
    Timeout = 2
    NumRemotes = 1
    Collate = TRUE
    MaxPackets = 2
    Lossy = TRUE
    MaxDuplicates = 0
    SendMayFail = FALSE
    OversizedReplies = TRUE
    EarlyPackets = TRUE
    Prompt = TRUE
    SlowReplies = TRUE
    Horizon = 7
INVARIANT EntriesInSendOrder
INVARIANT LiveEntriesDistinct
INVARIANT PipelineInv
INVARIANT EndsInTime
INVARIANT PopRemovesJudged
 
INVARIANT NoGapInRecord
