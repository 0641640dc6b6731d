SPECIFICATION Spec
CONSTANTS
    Calls = {c1, c2}
    Texts = {t1}
    Items = {i1, i2}
    None = None
    MaxSaves = 2
    MaxSends = 2
    MaxFaults = 1
    MaxCrashes = 1
SYMMETRY MCSymmetry
CHECK_DEADLOCK FALSE
INVARIANTS
    TypeOK
    SentTruly
    DraftsKept
