SPECIFICATION FairSpec
CONSTANTS
  a = a
  b = b
  ab = ab
  c1 = c1
  c2 = c2
  None = None
  Backup = {a}
  Labelled = {a}
  Within <- Names
  Wanted <- Various
  Content = {c1}
  KeepLast = 1
  Aged = TRUE
  Ties = FALSE
  MaxCreates = 1
  MaxEdits = 1
  MaxDeletes = 1
  MaxTicks = 1
  MaxFaults = 1
  MaxRestarts = 0
INVARIANTS
  TypeOK
  CompletedHasData
PROPERTIES
  
  OneTimeBackupMade
  ScheduleServed
  DeletionCompletes
CHECK_DEADLOCK FALSE
