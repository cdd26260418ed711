SPECIFICATION FairSpec
CONSTANTS
    NumSamples = 0
    Timeout = 0
    UintModulus = 8
    BufferSize = 1472
    Clients = {c1, c2}
    Lengths = {42, 1473}
    KernelStamps = {TRUE, FALSE}
    Ports = {"number"}
    ReceiveMayFail = FALSE
    SendMayFail = TRUE
    ClientTimes = {7}
    StartTime = 1
    MaxDatagrams = 3
    MaxClock = 2
    c1 = c1
    c2 = c2
PROPERTY EventuallyHandled
