\* Every agent with three clusters of at most one metric, exported from twice.
SPECIFICATION Spec
CONSTANTS
  ClusterNames = {"a", "b"}
  MetricNames = {"m"}
  Domains = {d1, d2}
  NoDomain = NoDomain
  DomainIds = {0, 1}
  MaxClusters = 3
  MaxItems = 1
  MaxExports = 2
SYMMETRY DomainSymmetry
INVARIANTS
  TypeOK
  HelpCoversAll
PROPERTY ExportedIsTree
CHECK_DEADLOCK FALSE
