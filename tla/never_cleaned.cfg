CONSTANTS
  NSlides = 1
  MaxRuns = 1
  MaxReads = 0
  MaxFixes = 0
  MaxDeletes = 0
  Faults = {}
SPECIFICATION FairSpec
PROPERTIES ExpiredIsRemoved
CHECK_DEADLOCK FALSE
