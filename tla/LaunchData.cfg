SPECIFICATION DataSpec
CONSTANTS
    LaunchInputs <- MCInputs
    Forms <- MCForms
    MaxRuns = 2
    MaxAll = 14
    Values = {1, 2}
    MaxParams = 3
    MaxCalls = 8
CHECK_DEADLOCK FALSE
INVARIANTS LayoutSound ArgsSound
