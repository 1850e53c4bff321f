SPECIFICATION FairSpec
CONSTANT MaxTries = 3
CHECK_DEADLOCK FALSE
INVARIANTS TypeOK InitInside VirtualsFollow ShellFirst
PROPERTY BootEnds
