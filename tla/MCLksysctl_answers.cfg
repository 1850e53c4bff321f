SPECIFICATION CtlSpec
CONSTANTS
    Pid = {p1}
    NoPid = NoPid
    Logger = {}
    NoLogger = NoLogger
    HasLog = FALSE
    Faults = {}
    Commands <- NoCommands
    MaxFifo = 3
    Client = {c1, c2}
    CtlCommands <- RacingCommands
SYMMETRY CtlSymmetry
PROPERTIES AnswersTrue ServedInOrder
