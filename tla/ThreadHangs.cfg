SPECIFICATION FairSpec
CONSTANT MaxOps = 6
INVARIANT TypeOK
PROPERTIES OnlyMissedHangs OnlyMissedMutes
CHECK_DEADLOCK FALSE
