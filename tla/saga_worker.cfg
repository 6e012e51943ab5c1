\* Production worker (loop errors), one saga, no attempt ever forced to
\* progress, and none ever awaited for longer than its timeout.
CONSTANTS
  s1 = s1
  o1 = o1
  o2 = o2
  Session <- OneSession
  Offer <- OneOffer
  LoopFaults = TRUE
  MicroagentAttempts = 2
  NotifyAttempts = 2
  MaxRounds = 1
  MaxAlive = 8
SPECIFICATION FairSpec
INVARIANTS
  TypeOK
  WorkerInv

  
