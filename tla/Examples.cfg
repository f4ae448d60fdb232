\* simple with a file that changes twice, to any of two times, and simplecpu
\* with two of three CPUs at start, under an old kernel and a new one.
SPECIFICATION ExamplesSpec
CONSTANTS
  Agents = {"simple", "simplecpu"}
  Contents <- MCContents
  ClientLists <- MCClientLists
  StoreIds <- MCStoreIds
  Values <- MCValues
  FetchSize = 3
  ColorSize = 3
  MaxTime = 2
  MaxEdits = 2
  MaxBatch = 2
  CPUs = {0, 1, 2}
  BootCPUs = {0, 2}
  States = {0, 8}
  Columns <- MCColumns
INVARIANTS
  ExamplesTypeOK
  NowIsCurrent
  NowIsItsSlice
  TimesFresh
  OneSnapshot
  CpuOneLineEach
PROPERTIES
  ExamplesAnswer
  ImplementDispatch
  SimpleDelivers
  CpuTicksOfItsCPU
CHECK_DEADLOCK FALSE
