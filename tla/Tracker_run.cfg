CONSTANTS
  MaxPauses = {1, 2}
  MinPause = 1
  StatusTime = 2
  GpsTimeout = 2
  FixDelay = 1
  MAX_OBJECTS = 2
  MAX_BUFFERPOS = 1
  Half = 2
  MaxPos = 2
  MaxActs = 3
SPECIFICATION Spec
INVARIANTS TypeOK ObjectsExact
PROPERTIES ReportsDue OffReturns
CHECK_DEADLOCK FALSE
