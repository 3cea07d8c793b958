SPECIFICATION FairSpec
CONSTANTS
  Client = {1}
  Input <- Pads
  MaxStall = 2
  LatencyMin <- NoLatency
  LatencyMax <- ClientLatency
  CheckFrames = 2
  StallAhead = 1
  MaxReqStallTime = 1
  MaxReqStallFrequency = 0
  MaxFrame = 3
INVARIANTS CrcsAgree
PROPERTIES ImplementsLockstep PeersConverge
