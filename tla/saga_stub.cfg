\* Stub worker: two sagas of one session, over one offer twice or two offers.
CONSTANTS
  s1 = s1
  o1 = o1
  o2 = o2
  Session <- OneSession
  Offer <- TwoOffers
  LoopFaults = FALSE
  MicroagentAttempts = 2
  NotifyAttempts = 2
  MaxRounds = 2
  MaxAlive = 3
SPECIFICATION Spec
INVARIANTS
  ConfirmedWasNotified
  SentAtMostOnce
  CompensatedIsReleased
  CompensationNoticeIsTrue
  NoSilentReservation
PROPERTIES
  CancelledIsFinal
  
