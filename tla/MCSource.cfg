SPECIFICATION Spec
CONSTANTS
  Packets <- MCPackets
  OutCap = 2
  KernelCap = 2
  Nothing = Nothing
INVARIANTS
  SourceTypeOK
  StatusArrives
PROPERTIES
  GameIsRead
  SilenceIsLeft
  RunReturns
CHECK_DEADLOCK FALSE
