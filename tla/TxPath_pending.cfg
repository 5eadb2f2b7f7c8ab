CONSTANTS
  Users = {u1, u2}
  Packets = {p1, p2}
  None = None
  QueueSize = 2
  OqSize = 2
  MaxFrame = 2
SPECIFICATION Spec
PROPERTIES SentBeforeOff
