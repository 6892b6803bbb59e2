SPECIFICATION Spec
CONSTANTS
    Threads = {t1, t2}
    Devices = {d1, d2}
    Blocks = {b1, b2}
    UserSizes = {1, 2, 7}
    SizeMax = 7
    DefaultBack = 1
    ConfigBack = 2
    AlignExtra = 1
    MaxCalls = 4
    None = None
SYMMETRY Symmetry
CHECK_DEADLOCK FALSE
INVARIANTS TablesAgree GuardsInside AlarmsExact
