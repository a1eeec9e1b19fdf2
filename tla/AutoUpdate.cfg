SPECIFICATION FairSpec
CONSTANTS
  Nil = Nil
  Server <- TwoServers
  Telling <- TellingNames
  Templates <- ThreeTemplates
  Refused <- RefusedOnes
  Objects <- FewObjects
  MaxRetries = 2
  RateLimitMaxRetries = 1
  NetworkMaxRetries = 2
  Interval = 1
  Cap = 2
  Bits = 4
  MaxStarts = 2
  MaxChanges = 2
INVARIANTS
  TypeOK
  FinalAnswers
PROPERTIES
  NoDowngrade
  UpdatesArrive
CHECK_DEADLOCK FALSE
