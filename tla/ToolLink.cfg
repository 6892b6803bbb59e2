SPECIFICATION Spec
CONSTANTS
    Threads = {t1, t2}
    Devices = {d1}
    General = general
    MaxClients = 1
    Kinds = {"getConfig", "ipc", "collectStart", "dataPath", "ctrl", "data"}
    MaxCalls = 3
    None = none
CHECK_DEADLOCK FALSE
INVARIANTS AnswersTogether ServerQuiet
PROPERTY AllReturn
