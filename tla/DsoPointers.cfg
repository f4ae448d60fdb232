\* The strings a DSO hands to libpcp_pmda.
SPECIFICATION Spec
CONSTANTS
  Builds = {TRUE}
  Modes = {"dso"}
  MaxOptions = 0
INVARIANT PointersLive
CHECK_DEADLOCK FALSE
