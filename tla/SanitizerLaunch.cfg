\* Launches under the memory checker: sequences with a failure, and overlaps.
SPECIFICATION Spec
CONSTANTS
    t1 = t1
    t2 = t2
    Threads = {t1, t2}
    Scenarios <- MCScenarios
    Kinds <- MCKinds
SYMMETRY ThreadSymmetry
CHECK_DEADLOCK FALSE
INVARIANTS CheckedHasHeads BufferSound ReportedOnce RangesTracked OwnLaunchUsed
