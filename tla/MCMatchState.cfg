SPECIFICATION FairSpec
CONSTANTS
  Guids = {g1}
  NoGuid = NoGuid
  Rosters = {0}
INVARIANTS
  NoneIffInactive
  ReplayHasAnExit
PROPERTIES
  SilenceEndsMatch
