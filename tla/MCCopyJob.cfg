CONSTANTS
  Jobs <- JobNames
  Size = 3
  Excess = 4
  LongFull = 8
  Percent = 3
SPECIFICATION FairSpec
INVARIANTS TypeOK ObjectOutlivesJob
PROPERTIES ResultIsFinal ImplementsContract PollerStops
