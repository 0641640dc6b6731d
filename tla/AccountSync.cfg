\* One request of each kind, two live watchers, three requests or crashes in all.
CONSTANTS
  Sweep = Sweep
  Console = {c1}
  Phone = {p1}
  Watchers = {w1, w2}
  AccountDeletes = {d1}
  UserDeletes = {u1}
  Saves = {v1}
  None = None
  MaxRuns = 2
  MaxVersion = 2
  MaxMail = 1
  MaxJobs = 2
  MaxEvents = 3
SYMMETRY Symmetry
CHECK_DEADLOCK FALSE
SPECIFICATION Spec
INVARIANTS
    TypeOK
    RunsHaveOwners
    RecoversAndCleans
