\* Every three options, any of them perhaps in the configuration file; every way
\* the agent's functions may fail.  The agent's life ends: no deadlock check.
SPECIFICATION FairSpec
CONSTANTS
  Builds = {TRUE, FALSE}
  Modes = {"daemon", "dso"}
  MaxOptions = 3
INVARIANTS
  TypeOK
  DaemonPointersLive
  OwnedOnce
  NothingLeft
  CallbacksFindAgent
  StartsOnlyAsTold
  
PROPERTY Settles
CHECK_DEADLOCK FALSE
