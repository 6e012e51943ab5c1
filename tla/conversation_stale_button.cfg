\* Slot buttons of an older offer.
CONSTANTS
  d1 = d1
  d2 = d2
  NoSlot = NoSlot
  Slot <- Slots
  SlotList <- SlotLists
  MaxMessages = 3
  MaxRuns = 1
SPECIFICATION Spec
INVARIANTS
  BookedWasAsked
