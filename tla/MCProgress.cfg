SPECIFICATION FairSpec
PROPERTIES
  WorkEnds
  EverySlotIsSettled
  EveryItemIsDecided
  EnabledIsDelivered
CHECK_DEADLOCK FALSE
