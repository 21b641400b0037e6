CONSTANTS
  Answers <- AnyAnswer
  IntFull = 64
  Percent = 21
SPECIFICATION FairSpec
INVARIANTS TypeOK
PROPERTIES ImplementsContract PollerStops
