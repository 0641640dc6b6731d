SPECIFICATION FairSpec
CONSTANTS
    r1 = r1
    u1 = u1
    u2 = u2
    Requests = {r1}
    Users = {u1, u2}
    UserOf <- MCOneUser
    MaxBreaks = 1
    Faults = {"bridge", "timer", "revoke", "apply", "shutdown", "native"}
CHECK_DEADLOCK FALSE
INVARIANTS
    TypeOK
    AnswersOnce
PROPERTIES
    KeepsPromise
    NothingLeft
