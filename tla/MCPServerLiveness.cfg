SPECIFICATION FairSpec
CONSTANTS
  s1 = s1
  r1 = r1
  r2 = r2
  t1 = t1
  t2 = t2
  UserImage = UserImage
  None = None
  Bare = Bare
  ImageValues = {UserImage, None, Bare}
  Server = {s1}
  Registry = {r1}
  Template = {t1, t2}
  NameValues = {r1}
  AliasValues = {r1}
  MaxEdits = 2
  MaxSyncs = 2
  MaxFaults = 1
  MaxRestarts = 1
PROPERTIES
  DeletionCompletes
  EnrichmentConverges
CHECK_DEADLOCK FALSE
