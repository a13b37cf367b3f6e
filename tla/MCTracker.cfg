SPECIFICATION Spec
CONSTANTS
  Callers = {c1, c2}
  Keys = {k}
  Cost = 2
  Capacity = 4
  Budget = 2
  Threshold = 2
  Cooldown = 3
  TTL = 2
  Horizon = 5
  None = None
SYMMETRY Symmetry
INVARIANTS RateHolds
PROPERTY CircuitHolds
CHECK_DEADLOCK FALSE
