CONSTANTS
  MaxNumber = 3
  MaxObjects = 7
SPECIFICATION Spec
INVARIANTS RemovesItself
CHECK_DEADLOCK FALSE
