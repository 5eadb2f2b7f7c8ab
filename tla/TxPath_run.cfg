CONSTANTS
  Users = {u1, u2}
  Packets = {p1, p2}
  None = None
  QueueSize = 2
  OqSize = 2
  MaxFrame = 2
SPECIFICATION FairSpec
INVARIANTS UserHasRadio KeyedMeansOn InterruptNeverWaits WholeFrames InOrder
PROPERTIES ReleaseReturns
