\* Three messages in the first run and three in the one after it.
CONSTANTS
  d1 = d1
  d2 = d2
  NoSlot = NoSlot
  Slot <- Slots
  SlotList <- SlotLists
  MaxMessages = 3
  MaxRuns = 2
SPECIFICATION FairSpec
INVARIANTS
  TypeOK
  OneSayPerTurn
  OfferBookedOnce
  BookedWasOffered
  WithdrawnIsNotBooked
  OrdinalsAreFresh
PROPERTIES
  OnlyNewestOffer
  EveryMessageAnswered
