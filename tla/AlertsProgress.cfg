SPECIFICATION FairSpec
CONSTANTS
    u1 = u1
    m1 = m1
    m2 = m2
    Users = {u1}
    Messages = {m1, m2}
    MaxAttempts = 2
    MaxConcurrent = 1
    MaxPerRound = 1
    MinDelay = 1
    StaleAfter = 3
    CallTicks = 2
    MaxCrashes = 1
    Faults = {"crash", "cancel"}
    Changes = {"available", "settings"}
    TestUsers = {}
    Owner <- MCOwner
INVARIANTS
    AnnouncedOnce
PROPERTIES
    Settles
