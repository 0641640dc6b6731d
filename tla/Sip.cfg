SPECIFICATION FairSpec
CONSTANTS
    Savers = {"s1"}
    Forms <- MCForms
    Overlays <- MCOverlays
    DefaultPort = 1
    Phases = {"registered", "unregistered"}
    RespawnLimit = 2
    CrashCap = 2
    MaxSaves = 1
    MaxLosses = 1
    MaxPipe = 1
    MaxFaults = 2
CHECK_DEADLOCK FALSE
INVARIANTS
    TypeOK
    OneChild
    ChildAsConfigured
    StatusTrue
PROPERTIES
    Recovers
