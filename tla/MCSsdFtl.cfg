CONSTANTS
  PageNum = 2
  BlockNum = 6
  TotalUnit = 20
  Used = 3
  Configs <- SmallConfigs
  MaxStarts = 2
  Blank = Blank
  Dead = Dead
SPECIFICATION FairSpec
CONSTRAINT StartedOnce
INVARIANTS TypeOK MapsAgree CountsAgree ListsPartition OpenBlocksWritable
PROPERTIES NoHalfFold CommandsEnd
