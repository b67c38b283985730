SPECIFICATION BothSpec
CONSTANTS
  Faults = TRUE
  Interruptible = TRUE
  Killable = TRUE
  Options = {"detach", "limit", "query", "ignored"}
  CommandCodes = {5}
INVARIANTS TypeOK StatusIsCommands DetachedHasLock OnlyOrphansOverlap
PROPERTIES ParentFollows OnlyMissedWaits
CHECK_DEADLOCK FALSE
