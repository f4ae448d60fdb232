\* An exception that carries a cache status: the fetch it cut short.
SPECIFICATION Spec
CONSTANTS
  single = single
  array = array
  readonly = readonly
  unknown = unknown
  d = d
  PMIDs <- MCPMIDs
  supported_metrics <- MCMetrics
  Domains = {d}
  NoDomain = NoDomain
  Instances = {i1, i2}
  PM_INDOM_NULL = PM_INDOM_NULL
  AgentCodes <- CacheCodes
  MaxValues = 1
  MaxBatch = 1
INVARIANT DeliveredFresh
CHECK_DEADLOCK FALSE
