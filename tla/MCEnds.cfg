SPECIFICATION Spec
CONSTANTS
  Granted = {1, 2}
  Formats = {"YUYV", "MJPEG"}
  Rates = {1, 2}
  WhileRunning = FALSE
  MaxFrames = 3
  MaxEvents = 3
  MaxFailures = 2
  Payloads = {"UltraGridV", "UltraGridA", "MPEG4"}
  MaxSize = 5
  Sets <- MCSets
  SliceSizes = {1}
  AudioSizes <- MCAudioSizes
  MaxSlices = 2
  MaxPictures = 3
INVARIANTS OnDisk  PlayedBack CutInTime  Reassembled 
 
CHECK_DEADLOCK FALSE
