\* The mobile hook reads its cache while the socket delivers.
CONSTANTS
  AsyncHydrate = TRUE
  CacheLimit = 4
  MaxLog = 3
  MaxRuns = 1
SPECIFICATION Spec
PROPERTIES
  TimelineOnlyGrows
