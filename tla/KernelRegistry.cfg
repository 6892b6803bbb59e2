SPECIFICATION Spec
CONSTANTS
    Threads = {t1, t2}
    Handles = {h1, h2}
    Kernels = {k1, k2}
    NoHandle = nohandle
    MaxLoads = 2
    MaxLaunches = 2
    MaxMade = 2
SYMMETRY Symmetry
CHECK_DEADLOCK FALSE
INVARIANTS RunsOwnCopy FindsOwnBinary CopiesLive
