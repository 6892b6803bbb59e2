SPECIFICATION Spec
CONSTANTS
    Threads = {t1, t2}
    Devices = {0, 1}
    Addrs = {a1, a2}
    Keys = {k1, k2}
    MaxCalls = 3
    None = None
    LibraryCalls <- MCLibraryCalls
SYMMETRY Symmetry
CHECK_DEADLOCK FALSE
INVARIANTS CallsReported ViewsAgree DeviceViewsAgree
