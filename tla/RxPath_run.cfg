CONSTANTS
  Subs = {0, 1}
  Controlled = {0, 1}
  Size = 1
  MaxFrames = 2
  MaxStops = 2
SPECIFICATION FairSpec
INVARIANTS RefsExact EachFrameOnce
PROPERTIES ReceptionGoesOn StopReturns
CHECK_DEADLOCK FALSE
