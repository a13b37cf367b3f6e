SPECIFICATION WireSpec
CONSTANTS
  Guids = {g1, g2}
  NoGuid = NoGuid
  Rosters = {2}
CONSTRAINT Separate
SYMMETRY Symmetry
INVARIANTS
  WireTypeOK
  SubscribersAgree
PROPERTIES
  StartFollowsItsFrame
  NoSecondStart
  AbandonsTheOpenMatch
