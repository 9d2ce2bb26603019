CONSTANTS
  NSlides = 2
  MaxRuns = 2
  MaxReads = 2
  MaxFixes = 2
  MaxDeletes = 1
  Faults = {"save_fails", "worker_stop", "delete_fails"}
SPECIFICATION Spec
INVARIANTS RowsHaveTheirFiles LeftoversAreExplained ReportIsWhole
CHECK_DEADLOCK FALSE
