SPECIFICATION FairSpec
CONSTANTS
  Faults = TRUE
  Interruptible = FALSE
  Killable = FALSE
  Options = {"detach", "limit", "query"}
  CommandCodes = {0, 3, 5}
PROPERTIES FailureReported
CHECK_DEADLOCK FALSE
