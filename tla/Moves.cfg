CONSTANTS
    m1 = m1
    m2 = m2
    m3 = m3
    Messages = {m1, m2, m3}
    Folders = {"Inbox", "Trash", "Other"}
    Inbox = "Inbox"
    Trash = "Trash"
    Validity <- MCValidity
    Reconciled = {m1}
    Named = {m1, m3}
    MaxMoves = 3
    MaxFaults = 1
    MaxOthers = 1
    None = None
SPECIFICATION MovesSpec
CHECK_DEADLOCK FALSE
INVARIANTS
    MovesTypeOK
PROPERTIES
    JournalIsTrue
    OnlyTheChosen
