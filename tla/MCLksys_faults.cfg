SPECIFICATION Spec
CONSTANTS
    Pid = {p1, p2, p3}
    NoPid = NoPid
    Logger = {l1}
    NoLogger = NoLogger
    HasLog = TRUE
    Faults = {"spawn", "publish", "crash"}
    Commands <- FaultBytes
    MaxFifo = 1
SYMMETRY FaultSymmetry
INVARIANTS NoLostChild NoStrayHandle
