CONSTANTS
  Size = 2
  ReadSize = 2
SPECIFICATION Spec
INVARIANTS NothingLeft
PROPERTIES  DecoderGoesOn
CHECK_DEADLOCK FALSE
