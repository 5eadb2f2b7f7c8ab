CONSTANTS
  Handles = {a, b, c}
  FBUF_SLOTS = 3
  SLOTSIZE = 2
  LengthSize = 4
  HeaderPast = 0
  MaxLength = 3
  MaxReaders = 1
SPECIFICATION Spec
INVARIANTS ContentKept ReaderExact
CHECK_DEADLOCK FALSE
SYMMETRY Symmetry
