SPECIFICATION Spec
CONSTANTS
    SetLimit = 2
    SetLimitA5 = 1
    Devices = {d1, d2}
    Setups <- MCSetups
    MaxFaults = 1
CHECK_DEADLOCK FALSE
INVARIANTS DataInOwnFile RunsComplete NothingLeft
PROPERTY LaunchReturns
