SPECIFICATION FairSpec
CONSTANTS
  g1 = g1
  g2 = g2
  None = None
  Caller = {g1, g2}
  Configured <- TwoFailures
  MaxCalls = 7
  MaxResets = 1
INVARIANTS
  TypeOK
  
PROPERTIES
  KeepsContract
  EveryCallReturns
CHECK_DEADLOCK FALSE
