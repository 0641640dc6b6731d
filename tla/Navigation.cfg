CONSTANTS
    Help <- MCHelp
    HistoryLimit = 2
    MaxQueue = 1
    MaxRecordings = 2
    MaxPlayers = 2
    None = None
SPECIFICATION Spec
CHECK_DEADLOCK FALSE
INVARIANTS
    TypeOK
    BackStaysInside
    KeyMeansItsScreen
    CallTasks
