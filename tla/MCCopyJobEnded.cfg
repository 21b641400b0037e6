CONSTANTS
  Jobs <- BitmapJobs
  Size = 3
  Excess = 0
  LongFull = 8
  Percent = 3
SPECIFICATION Spec
INVARIANTS ResultMeansEnded
