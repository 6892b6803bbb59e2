SPECIFICATION Spec
CONSTANTS
    Sections = {s1, s2}
    Configs <- MCConfigs
    UsedHooks <- MCHooks
    Kernels <- MCKernels
    ReplayTimes = 2
    Faults = {"backup", "alloc", "expand", "dbi", "start", "launch", "restore"}
    MaxFaults = 1
    MaxWork = 7
    LaunchWork = 3
SYMMETRY MCSymmetry
CHECK_DEADLOCK FALSE
INVARIANTS RunsReadInput OneRunLeft RecordsOwn NewBlockKept
