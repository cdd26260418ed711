SPECIFICATION FairMainSpec
CONSTANTS
    NumSamples = 1
    Runtime = 0
    Timeout = 1
    NumRemotes = 1
    Collate = TRUE
    MaxPackets = 1
    Lossy = TRUE
    MaxDuplicates = 0
    SendMayFail = FALSE
    OversizedReplies = FALSE
    EarlyPackets = TRUE
    Prompt = FALSE
    SlowReplies = FALSE
    Horizon = 1
    Reports = {"stats", "json"}
INVARIANT TypeOK
INVARIANT ObservationPopSafe
INVARIANT VerdictsMatchPops
INVARIANT ObjectOutlivesThreads
INVARIANT ReportsAreFinal
PROPERTY ProgramEnds
