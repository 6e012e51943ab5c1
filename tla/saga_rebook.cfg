\* A compensated booking confirmed again.
CONSTANTS
  s1 = s1
  o1 = o1
  o2 = o2
  Session <- OneSession
  Offer <- OneOffer
  LoopFaults = FALSE
  MicroagentAttempts = 2
  NotifyAttempts = 1
  MaxRounds = 2
  MaxAlive = 2
SPECIFICATION Spec
PROPERTIES
  ConfirmedIsHeld
