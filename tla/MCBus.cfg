SPECIFICATION Spec
CONSTANTS
  Publishers = {p1, p2}
  Subscribers = {s1, s2}
  Cap = 1
  MaxSent = 2
SYMMETRY Symmetry
PROPERTIES
  FanoutSpec
CHECK_DEADLOCK FALSE
