SPECIFICATION FairSpec
CONSTANTS
  Filters = {f1, f2}
  None = None
  Capacity = 2
  MaxFrames = 3
  MaxShares = 2
  MaxLeaves = 2
  Reattach = FALSE
PROPERTIES FrameMovesOn
CHECK_DEADLOCK FALSE
