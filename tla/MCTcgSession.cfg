CONSTANTS
  Passwords = {0, 300, 2048}
  Msid = 12
  Sessions = {9, 4097}
  MaxFaults = 1
SPECIFICATION Spec
INVARIANTS SuccessIsDone NoOrphan
PROPERTIES CallsReturn
