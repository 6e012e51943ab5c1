\* The web hook, two runs of a session, a cache that holds a whole log.
CONSTANTS
  AsyncHydrate = FALSE
  CacheLimit = 6
  MaxLog = 6
  MaxRuns = 2
SPECIFICATION FairSpec
INVARIANTS
  TypeOK
  NothingTwice
  FirstRunInOrder
  
PROPERTIES
  TimelineOnlyGrows
  EveryReplyShown
