SPECIFICATION Spec
CONSTANTS
  Publishers = {p1, p2}
  Subscribers = {s1}
  Cap = 1
  MaxSent = 2
INVARIANT NoSendOnClosed
CHECK_DEADLOCK FALSE
