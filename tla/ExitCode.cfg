\* A daemon without options, built with Boost, all of whose calls may fail.
SPECIFICATION Spec
CONSTANTS
  Builds = {TRUE}
  Modes = {"daemon"}
  MaxOptions = 0
INVARIANT ExitCodeTellsErrors
CHECK_DEADLOCK FALSE
