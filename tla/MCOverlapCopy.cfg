CONSTANTS
  OVERLAP = 3
  SegClusters = 2
  ClusterNum = 9
  BadReads <- SecondSeg
  BadWrites <- FirstSeg
  RefusedReads <- LastSeg
  RefusedWrites <- ThirdSeg
  MapMayFail = TRUE
  Old = Old
  Junk = Junk
SPECIFICATION FairSpec
INVARIANTS TypeOK ExclusiveExtents CountersAgree SpinnersAreLast NoWrongData CompleteAtReturn
PROPERTIES BufferStableDuringWrite CopyReturns ImplementsVolumeCopy
