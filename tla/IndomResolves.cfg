\* Ids the agent chose freely: what libpcp_pmda finds for a metric.
SPECIFICATION Spec
CONSTANTS
  Clusters = {1, 2}
  Items = {0, 1}
  Domains = {d1, d2}
  NoDomain = NoDomain
  DomainIds = {0, 1, 5, 15}
  PmdaDomain = 1
  ClusterSize = 2
  ItemSize = 2
  SerialSize = 4
  PM_INDOM_NULL = 15
INVARIANT IndomResolves
CHECK_DEADLOCK FALSE
