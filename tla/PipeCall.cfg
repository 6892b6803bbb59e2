SPECIFICATION FairSpec
CONSTANTS
    Callers = {c1, c2}
    Programs = {"cat", "emit"}
    Inputs = {2}
    Output = 1
    Capacity = 1
    MaxCalls = 2
    None = none
CHECK_DEADLOCK FALSE
INVARIANTS PipesSound CallEndsClean
PROPERTY CallsReturn
