SPECIFICATION Spec
CONSTANTS
  s1 = s1
  r1 = r1
  r2 = r2
  t1 = t1
  t2 = t2
  UserImage = UserImage
  None = None
  Bare = Bare
  ImageValues = {UserImage, None, Bare}
  Server = {s1}
  Registry = {r1, r2}
  Template = {t1}
  NameValues = {r1, r2}
  AliasValues = {}
  MaxEdits = 4
  MaxSyncs = 2
  MaxFaults = 1
  MaxRestarts = 1
SYMMETRY Symmetry
INVARIANTS
  TypeOK
  NoLostWakeup
  RefusalReported
  
  GuardedWork
PROPERTY FinalizerProtocol
CHECK_DEADLOCK FALSE
