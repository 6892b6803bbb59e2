SPECIFICATION Spec
CONSTANTS
    HostThreads = {t1, t2}
    ChildThread = c1
    Devices = {d1, d2}
    General = gen
    Kinds = {"packet", "binary"}
    Chunks = 2
    MaxOrderId = 3
    MaxCalls = 3
    None = none
SYMMETRY Symmetry
CHECK_DEADLOCK FALSE
INVARIANTS TypeOK PacketsOrderedAndWhole OrderIdsUnique DeviceLinksPrivate CallsAccounted
