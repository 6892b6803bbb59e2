SPECIFICATION Spec
CONSTANTS
    Threads = {t1, t2}
    Allocs <- MCAllocs
    HeapDescs <- MCHeaps
    RegionDescs <- MCRegions
    Domains = {d1}
    Global = global
    NoHeap = noheap
    Batches <- MCBatches
    ExtraInputs = 1
    MaxCount = 3
INVARIANTS RangesExact EntriesFit ToolAgrees
SYMMETRY ThreadSymmetry
CHECK_DEADLOCK FALSE
