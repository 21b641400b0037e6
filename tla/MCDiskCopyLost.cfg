CONSTANTS
  MaxItems = 4
  ItemSet = {}
  DstOffset = 1
  DstSizes = {6, 10}
  Precision = 50
  U64 = 256
  Builds <- ExactBuild
  EfiBootSize = 1
  MB = 16
  Numbers = {1, 2, 3}
  Sources <- AnySource
  OldTables <- AnyOld
SPECIFICATION Spec
INVARIANTS EveryPartitionCopied
