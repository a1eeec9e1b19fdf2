SPECIFICATION FairSpec
CONSTANTS
  d1 = d1
  d2 = d2
  e1 = e1
  e2 = e2
  index = index
  a = a
  b = b
  c = c
  c1 = c1
  c2 = c2
  None = None
  Dir = {d1}
  Entry = {e1, index}
  Safe <- Distinct
  IndexEntry = index
  Source = {a}
  Invalid = {}
  Private = {a}
  Content = {c1}
  Attempts = 2
  MaxCreates = 2
  MaxEdits = 2
  MaxPushes = 1
  MaxFaults = 1
  MaxRestarts = 0
PROPERTIES
  CacheConverges
  DeletionCleans
  ForegroundCompletes
CHECK_DEADLOCK FALSE
