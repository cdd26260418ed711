SPECIFICATION FairSpec
CONSTANTS
    NumSamples = 2
    Timeout = 1
    UintModulus = 8
    BufferSize = 1472
    Clients = {c1, c2}
    Lengths = {42, 1473}
    KernelStamps = {TRUE, FALSE}
    Ports = {"number", "service"}
    ReceiveMayFail = TRUE
    SendMayFail = TRUE
    ClientTimes = {7}
    StartTime = 1
    MaxDatagrams = 3
    MaxClock = 3
    c1 = c1
    c2 = c2
INVARIANT TypeOK
INVARIANT Conservation
INVARIANT ReflectsInOrder
INVARIANT TimesEncloseStay
INVARIANT SampleBudget
PROPERTY ImplementsReflector
PROPERTY EventuallyExits
