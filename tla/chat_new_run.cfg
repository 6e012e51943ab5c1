\* The run behind a cached timeline is over and a new one starts.
CONSTANTS
  AsyncHydrate = FALSE
  CacheLimit = 4
  MaxLog = 3
  MaxRuns = 2
SPECIFICATION Spec
INVARIANTS
  HistoryIsReplayed
