SPECIFICATION FairSpec
CONSTANTS
  Producers = {p1, p2}
  N = 4
  MaxWrites = 7
INVARIANTS TypeOK AppliedInOrder NoSlotIsShared NeverAppliesNothing
PROPERTIES EveryPutReturns EveryNumberIsApplied WriterStops
