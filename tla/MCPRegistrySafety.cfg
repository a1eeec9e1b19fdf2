SPECIFICATION Spec
CONSTANTS
  d1 = d1
  d2 = d2
  e1 = e1
  e2 = e2
  index = index
  a = a
  b = b
  c = c
  c1 = c1
  c2 = c2
  None = None
  Dir = {d1, d2}
  Entry = {e1, e2, index}
  Safe <- Distinct
  IndexEntry = index
  Source = {a, b}
  Invalid = {b}
  Private = {a}
  Content = {c1}
  Attempts = 2
  MaxCreates = 1
  MaxEdits = 2
  MaxPushes = 0
  MaxFaults = 1
  MaxRestarts = 1
INVARIANTS
  TypeOK
  SyncedFitsSpec
  ReadyIsCached
  NeverForgotten
SYMMETRY Alike
CHECK_DEADLOCK FALSE
