SPECIFICATION RolloutSpec
CONSTANTS
  Nil = Nil
  Text <- Strings
  Selector <- Selectors
  Environment <- Environments
  Requested <- Lists
  Quotas <- TenantQuotas
  Trusted <- TrustedImages
  Latest <- LatestImages
  Oversized <- LongNames
  LongTenant <- LongTenants
  DNSLabel <- DNSLabels
  Written <- AllServers
  Neighbour <- Near
  Followed <- Names
  Verdicts <- Clusters
  MaxPods = 3
  Attempts = 2
  MaxPasses = 2
  MaxFaults = 1
  MaxBirths = 2
INVARIANTS
  RolloutTypeOK
  
  RecordKept
  ReadyIsCurrent
  NoCrossTraffic
  TrafficArrives
  BuildersAgree
  AdmittedThenRefused
PROPERTIES
  RetrySurvivesFirstFault
  DeletionLeavesNothing
CHECK_DEADLOCK FALSE
