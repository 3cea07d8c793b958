SPECIFICATION Spec
CONSTANTS
  Words = 4
  U16 = 2
  Saved <- MCSaved
  Capacities = {5, 26, 31}
INVARIANTS PatchesUndo NextPatchFits
PROPERTY IsStack
