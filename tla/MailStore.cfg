CONSTANTS
  m1 = m1
  Messages = {m1}
  Kinds = {"incremental", "reconciliation"}
  None = None
  MaxToggles = 2
  RowIds = {1, 2}
  OtherQueued = {1}
  OtherKept = {}
  MaxFaults = 1
SPECIFICATION MCSpec
INVARIANTS
    MailTypeOK
    AcknowledgedIsApplied
PROPERTIES
    PurgeSparesUntouched
    ChoicesSettle
