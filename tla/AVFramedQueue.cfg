SPECIFICATION FairSpec
CONSTANTS
  Max = 4
  Slack = 1
  MaxFrames = 7
INVARIANTS NoTornFrame LossAccounted
PROPERTIES DemandServed RefinesFIFO
CHECK_DEADLOCK FALSE
