SPECIFICATION MCSpec
CONSTANTS
  None = None
  Filters = {1, 2, 3}
  Capacity = 2
  MaxFrames = 3
  MaxShares = 3
  MaxLeaves = 2
  Reattach = FALSE
  MaxConnects = 3
  RunsEarly = FALSE
  LeaveBusy = FALSE
  Readers = {r1, r2}
  QueueSize = 3
  FullAt = 3
  SyncMargin = 1
  FrameTime = 2
  Mixed = FALSE
  Gaps = {1, 3}
  MaxTime = 6
INVARIANTS HeldStays LinkSound InStep
PROPERTIES AllServed FrameMovesOnWithAll Reclaimed Progress InScope
CHECK_DEADLOCK FALSE
