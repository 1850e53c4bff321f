SPECIFICATION Spec
CONSTANTS
    Service = {s1}
    Requester = {r1, r2}
    Asked <- RebootOnly
    PlainTerms = FALSE
    EnvReboot = FALSE
    DirFails = FALSE
    StageFails = FALSE
CHECK_DEADLOCK FALSE
INVARIANT ActionPickedUp
