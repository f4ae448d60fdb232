\* An agent whose exceptions all carry errors.  Of two values in a store, each
\* can fail or change the domain the other is validated against.
SPECIFICATION FairSpec
CONSTANTS
  single = single
  array = array
  readonly = readonly
  unknown = unknown
  d = d
  PMIDs <- MCPMIDs
  supported_metrics <- MCMetrics
  Domains = {d}
  NoDomain = NoDomain
  Instances = {i1, i2}
  PM_INDOM_NULL = PM_INDOM_NULL
  AgentCodes <- ErrorCodes
  MaxValues = 2
  MaxBatch = 2
INVARIANTS
  TypeOK
  StoreInOrder
  OnlyStorableReachAgent
  DeliveredFresh
PROPERTIES
  StoreSuccessMeansAll
  ServesRequests
  Answered
CHECK_DEADLOCK FALSE
