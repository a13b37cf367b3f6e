SPECIFICATION Spec
CONSTANTS
  Dirs = {d1}
  AutoDir = d1
  Unset = Unset
  MaxSize = 2
  Cap = 2
  Queue = 2
  Requests = {1}
INVARIANTS
  ReplayTypeOK
  PendingIsTimed
PROPERTIES
  ReloadSeen
  SavesAnnounced
CHECK_DEADLOCK FALSE
