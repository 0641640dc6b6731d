SPECIFICATION Spec
CONSTANTS
    u1 = u1
    m1 = m1
    m2 = m2
    Users = {u1}
    Messages = {m1, m2}
    MaxAttempts = 2
    MaxConcurrent = 2
    MaxPerRound = 1
    MinDelay = 1
    StaleAfter = 2
    CallTicks = 1
    MaxCrashes = 1
    Faults = {"crash", "cancel", "store"}
    Changes = {"read"}
    TestUsers = {u1}
    Owner <- MCOwner
INVARIANTS
    TypeOK
    CallsHold
    CooldownHolds
