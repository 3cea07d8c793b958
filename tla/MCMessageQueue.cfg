SPECIFICATION Spec
CONSTANTS
  Msg = {m1, m2, m3, m4, m5}
  Addr = {1, 2, 3, 4}
  Size = 4
  Prio = {0, 1, 2}
  Durations = {0, 2}
  UIntMax = 2
INVARIANT ElementsInUse
INVARIANT ShownForDuration
PROPERTY PushTakesTurn
SYMMETRY Symmetry
