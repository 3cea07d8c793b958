SPECIFICATION FairSpec
CONSTANTS
  SmallSize = 3
  BigSize = 5
  Lengths = {1, 2, 4}
  NetCap = 2
  MaxBytes = 5
INVARIANT NoByteLost
INVARIANT ReadInOrder
PROPERTY HangsUpOnlyWhenFull
PROPERTY BlockingSendReturns
