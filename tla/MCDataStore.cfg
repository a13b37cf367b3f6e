SPECIFICATION Spec
CONSTANTS
  Keys = {k1, k2}
  Values = {v1, v2}
  Bad = Bad
  None = None
INVARIANTS
  DataTypeOK
  FileIsWhole
  OnlyCommitted
