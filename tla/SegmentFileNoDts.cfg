SPECIFICATION Spec
CONSTANTS
  Codecs = {"AVC"}
  TimeBase = 2
  Den = 3
  SegDur = 3
  Gaps = {1, 3}
  SampleDur = 1
  Encoded = FALSE
  MaxChannels = 1
  MaxUnits = 5
INVARIANTS CutInTime
CHECK_DEADLOCK FALSE
