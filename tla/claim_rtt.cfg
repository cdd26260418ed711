SPECIFICATION SessionSpec
CONSTANTS
    NumSamples = 0
    Timeout = 0
    UintModulus = 8
    BufferSize = 1472
    Clients = {c1}
    Lengths = {42}
    KernelStamps = {TRUE}
    Ports = {"number"}
    ReceiveMayFail = FALSE
    SendMayFail = FALSE
    ClientTimes = {}
    StartTime = 8
    MaxDatagrams = 1
    MaxClock = 14
    Nanoseconds = 3
    Fractions = 8
    Word = 64
    EpochOffset = 5
    ClientStart = {10}
    ClientTimeout = 1
    ClockSteps = {2}
    MaxSteps = 0
    MaxSent = 1
    c1 = c1
INVARIANT RttSampleIsRoundTrip
