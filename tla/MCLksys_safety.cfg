SPECIFICATION Spec
CONSTANTS
    Pid = {p1, p2}
    NoPid = NoPid
    Logger = {}
    NoLogger = NoLogger
    HasLog = FALSE
    Faults = {}
    Commands <- OneByte
    MaxFifo = 2
SYMMETRY PidSymmetry
INVARIANTS TypeOK StatusTold FlagsTold CleanLeave
PROPERTY LifeSpec
