SPECIFICATION Spec
CONSTANTS
  Member = {1, 2, 3}
  SameCount = {1, 2}
INVARIANTS TypeOK OnlyScansRace AtMostOneLeft
CHECK_DEADLOCK FALSE
