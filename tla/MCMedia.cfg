SPECIFICATION MediaSpec
CONSTANTS
  MaxSamples = 5
  Scale = 1
  Threshold = 1
  InSamples = 2
  OutSamples = 3
  Gaps = {1, 2, 4, 9}
  Atomic = TRUE
  MaxInputs = 6
  CodedPictures <- MCPictures
  ResamplerParams <- MCResamplerParams
  MaxWaiting = 2
  CodedSamples <- MCSamples
  DecoderParams <- MCDecoderParams
  EncoderParams <- MCEncoderParams
  Supports <- MCSupports
  FrameSize <- MCFrameSize
  RawGaps = {1, 3}
  GopTimes = {0, 3}
  References = {7}
  Delay = 1
  Lookahead = 2
  NalCounts = {2, 3}
  MAX_SLICES = 2
  MaxRaw = 5
  MaxClientEvents = 1
INVARIANTS SamplesKept 
PROPERTIES MixedOnce CodedInTime ReadsFrames WallShown
CHECK_DEADLOCK FALSE
