CONSTANTS
  Handles = {a, b, c}
  FBUF_SLOTS = 4
  SLOTSIZE = 3
  LengthSize = 4
  HeaderPast = 1
  MaxLength = 2
  MaxReaders = 0
SPECIFICATION Spec
INVARIANTS RefExact FreeExact
CHECK_DEADLOCK FALSE
SYMMETRY Symmetry
