CONSTANTS
  MaxCalls = 3
  MaxPending = 2
  Faults = {"call_fails", "reply_lost", "fetch_fails"}
SPECIFICATION FairSpec
INVARIANTS CardTellsTheTruth EveryClickCounts
PROPERTIES ReportCatchesUp
CHECK_DEADLOCK FALSE
