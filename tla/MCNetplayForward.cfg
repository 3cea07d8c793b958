SPECIFICATION Spec
CONSTANTS
  Client = {1, 2}
  Input <- Pads
  MaxStall = 2
  LatencyMin <- NoLatency
  LatencyMax <- NoLatency
  CheckFrames = 2
  StallAhead = 0
  MaxReqStallTime = 1
  MaxReqStallFrequency = 0
  MaxFrame = 2
INVARIANTS InputsInOrder
