CONSTANTS
  MaxItems = 3
  MaxSrc = 3
  MaxDst = 9
  DstOffset = 1
  Precision = 9
  U64 = 256
  ItemSet <- ItemsAndZero
  DstSizes <- SmallDisks
  Builds <- AnyBuild
SPECIFICATION FairSpec
INVARIANTS TypeOK LayoutCorrect PlacedInOrder RefusesOnlyInfeasible
PROPERTIES Terminates
