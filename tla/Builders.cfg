\* Two descriptions, two clusters with one item each, four functor calls with
\* copies, moves and ends of life between them.
SPECIFICATION Spec
CONSTANTS
  Objects = {o1, o2}
  ClusterIds = {c1, c2}
  ItemIds = {i1}
  Names = {n1, n2}
  Metrics = {m1, m2}
  NoCluster = NoCluster
  MaxCalls = 4
INVARIANTS
  TypeOK
  AsDescribedUnlessStrayed
CHECK_DEADLOCK FALSE
