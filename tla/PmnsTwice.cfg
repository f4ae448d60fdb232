\* The same agents, and every namespace file they export.
SPECIFICATION Spec
CONSTANTS
  ClusterNames = {"a", "b"}
  MetricNames = {"m"}
  Domains = {d1, d2}
  NoDomain = NoDomain
  DomainIds = {0, 1}
  MaxClusters = 3
  MaxItems = 1
  MaxExports = 2
INVARIANT EveryExportIsTree
CHECK_DEADLOCK FALSE
