SPECIFICATION Spec
CONSTANTS
  a = a
  b = b
  ab = ab
  c1 = c1
  c2 = c2
  None = None
  Backup = {a, b}
  Labelled = {a, b}
  Within <- Names
  Wanted <- Schedules
  Content = {c1}
  KeepLast = 1
  Aged = FALSE
  Ties = TRUE
  MaxCreates = 2
  MaxEdits = 0
  MaxDeletes = 0
  MaxTicks = 1
  MaxFaults = 0
  MaxRestarts = 0
INVARIANTS
  RetentionKeeps
CHECK_DEADLOCK FALSE
