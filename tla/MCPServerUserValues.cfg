SPECIFICATION Spec
CONSTANTS
  s1 = s1
  r1 = r1
  r2 = r2
  t1 = t1
  t2 = t2
  UserImage = UserImage
  None = None
  Bare = Bare
  ImageValues = {UserImage, None}
  Server = {s1}
  Registry = {r1}
  Template = {t1}
  NameValues = {r1}
  AliasValues = {}
  MaxEdits = 2
  MaxSyncs = 1
  MaxFaults = 0
  MaxRestarts = 0
PROPERTY UserValuesKept
CHECK_DEADLOCK FALSE
