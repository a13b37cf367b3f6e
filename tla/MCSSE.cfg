SPECIFICATION SSEFairSpec
CONSTANTS
  Publishers = {pipe, dog}
  Subscribers = {s1}
  Cap = 1
  MaxSent = 1
  Pipeline = pipe
  Watchdog = dog
  MaxChanges = 2
INVARIANTS
  SSETypeOK
  ViewConverges
PROPERTIES
  NeverBlocks
  DroppedStreamEnds
CHECK_DEADLOCK FALSE
