SPECIFICATION CtlFairSpec
CONSTANTS
    Pid = {p1}
    NoPid = NoPid
    Logger = {}
    NoLogger = NoLogger
    HasLog = FALSE
    Faults = {"crash"}
    Commands <- NoCommands
    MaxFifo = 1
    Client = {c1}
    CtlCommands <- LiveCommands
PROPERTIES ExitCompletes DownCompletes UpCompletes DownAnswered
