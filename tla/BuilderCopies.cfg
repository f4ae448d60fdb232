\* The same descriptions, used in any order.
SPECIFICATION Spec
CONSTANTS
  Objects = {o1, o2}
  ClusterIds = {c1, c2}
  ItemIds = {i1}
  Names = {n1, n2}
  Metrics = {m1, m2}
  NoCluster = NoCluster
  MaxCalls = 4
INVARIANT
  AsDescribed
CHECK_DEADLOCK FALSE
