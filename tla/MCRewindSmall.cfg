SPECIFICATION Spec
CONSTANTS
  Words = 4
  U16 = 2
  Saved <- MCSaved
  Capacities = {25}
INVARIANT FramesLinked
