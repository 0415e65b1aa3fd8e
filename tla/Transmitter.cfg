SPECIFICATION FairSpec
CONSTANTS
  v = v a = a
  Readers = {v, a}
  Ids = {1, 2}
  Codec <- MCCodec
  Request <- MCRequest
  None = None
  LeaveBusy = FALSE
  MaxFrames = 2
  MaxChanges = 6
INVARIANTS FramesCounted OnceInOrder
PROPERTIES LoopEnds
