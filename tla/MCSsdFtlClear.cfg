CONSTANTS
  PageNum = 2
  BlockNum = 5
  TotalUnit = 2
  Used = 2
  Configs <- Foreground
  MaxStarts = 2
  Blank = Blank
  Dead = Dead
SPECIFICATION Spec
INVARIANTS StartsClean
