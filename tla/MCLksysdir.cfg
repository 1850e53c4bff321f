SPECIFICATION FairSpec
CONSTANTS
    dbus = dbus
    networkmanager = networkmanager
    agetty1 = agetty1
    Service <- Services
    Dbus <- dbus
    Agetty <- Agettys
    MaxTrouble = 2
CHECK_DEADLOCK FALSE
PROPERTIES DbusFirst AgettysLast Supervised RemovedGoes TermEnds
