SPECIFICATION Spec
CONSTANTS
    c1 = c1
    u1 = u1
    u2 = u2
    Calls <- OneCall
    Users <- TwoUsers
    QueueSize = 2
    MaxKeys = 3
    Pressed = {1, 2, 11}
    Rotating <- FirstUser
CHECK_DEADLOCK FALSE
INVARIANTS
    TypeOK
    SignedIn
    CallersKept
