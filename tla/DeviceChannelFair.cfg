SPECIFICATION FairSpec
CONSTANTS
    HostThreads = {t1, t2}
    ChildThread = c1
    Devices = {d1, d2}
    General = gen
    Kinds = {"packet", "short", "text"}
    Chunks = 2
    MaxOrderId = 3
    MaxCalls = 2
    None = none
PROPERTIES ImplementsOrderedLinks DeviceCallsReturn
CHECK_DEADLOCK FALSE
