SPECIFICATION FairSpec
CONSTANTS
  Lock = {a, b}
  NoLock = NoLock
INVARIANTS TypeOK AloneSafe KeptHears
PROPERTIES CreationReturns DeletionReturns
CHECK_DEADLOCK FALSE
