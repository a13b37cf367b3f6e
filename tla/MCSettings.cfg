SPECIFICATION FairSpec
CONSTANTS
  Writers = {w1, w2}
  Plugins = {p1}
  Sizes = {s1}
  People = {i1}
  Unset = Unset
  Torn = Torn
INVARIANTS
  SettingsTypeOK
  MemoryMatchesFile
  OnlyEditsCorrupt
PROPERTIES
  RequestsEnd
CHECK_DEADLOCK FALSE
