SPECIFICATION FairSpec
CONSTANTS
    Service = {s1, s2}
    Requester = {r1}
    Asked <- AnyPower
    PlainTerms = TRUE
    EnvReboot = TRUE
    DirFails = TRUE
    StageFails = TRUE
CHECK_DEADLOCK FALSE
INVARIANTS NoUnaskedEnd AsAsked SupervisorsEnd
PROPERTY TermIsServed
