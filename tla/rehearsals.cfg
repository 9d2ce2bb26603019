CONSTANTS
  Attempts = {h1, h2}
  MaxTries = 2
  Faults = {"upload_fails", "worker_stop", "timeout", "store_error"}
SPECIFICATION FairSpec
INVARIANTS DeltaLooksBack AudioIsKept OrphansAreExplained
PROPERTIES EveryAttemptIsAnswered
CHECK_DEADLOCK FALSE
