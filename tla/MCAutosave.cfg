SPECIFICATION FairSpec
CONSTANTS
  Values = {0, 1}
  Handles = {h1, h2}
  MaxSessions = 2
INVARIANTS FinalSaveStands NoSelfDeadlock SignalArrives
PROPERTIES NoCopyInFrame DeinitReturns
