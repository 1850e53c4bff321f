SPECIFICATION FairSpec
CONSTANTS
    c1 = c1
    c2 = c2
    jail = jail
    Process = {c1, c2}
    NoProcess = NoProcess
    Root = {jail}
    Host = Host
    Requests <- ChpstRequests
    HardLimit = 2
CHECK_DEADLOCK FALSE
INVARIANTS AsRequested GroupsFirst OneAtATime
PROPERTY NeverBlocks
