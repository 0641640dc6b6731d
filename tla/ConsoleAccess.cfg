SPECIFICATION Spec
CONSTANTS
    Slots = {r1, r2}
    Users = {u1}
    Steps = {1}
    BackupCodes = {1}
    PerUser = 2
    Total = 2
    FailureLimit = 2
    HashLimit = 2
    AccountLimit = 2
    TokenAttempts = 2
    TokenLimit = 2
    MaxRequests = 4
    MaxSecrets = 2
SYMMETRY MCSymmetry
CHECK_DEADLOCK FALSE
INVARIANTS
    TypeOK
    AccountsBalance
    CodesOnce
