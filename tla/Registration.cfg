\* Every agent with up to four metrics, one cluster wider than a PMID holds, up
\* to three domains, ids that collide, overflow a serial or were never set.
\* initialize_pmda ends, so a state without a successor is expected.
SPECIFICATION FairSpec
CONSTANTS
  Clusters = {1, 3}
  Items = {0, 1}
  Domains = {d1, d2, d3}
  NoDomain = NoDomain
  DomainIds = {0, 1, 5, 15}
  PmdaDomain = 1
  ClusterSize = 2
  ItemSize = 2
  SerialSize = 4
  PM_INDOM_NULL = 15
  DomainSize = 4
  Texts <- MCTexts
INVARIANTS
  TypeOK
  AssertsHold
  RowNamesItsDomain
  PmidFindsItsMetric
  OrdinalIndomResolves
  BothIdsReach
  RecordedIsCarried
  MetricTextIsItsOwn
  
PROPERTY PublishesOnce
CHECK_DEADLOCK FALSE
