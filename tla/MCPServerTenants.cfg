SPECIFICATION Spec
CONSTANTS
  Nil = Nil
  Text <- Strings
  Selector <- Selectors
  Environment <- Environments
  Requested <- Lists
  Quotas <- TenantQuotas
  Trusted <- TrustedImages
  Latest <- LatestImages
  Oversized <- LongNames
  LongTenant <- LongTenants
  DNSLabel <- DNSLabels
  Written <- All_
  Neighbour <- Near
INVARIANT
  TenantIsolated
CHECK_DEADLOCK FALSE
