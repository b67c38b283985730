SPECIFICATION Spec
CONSTANTS
  States <- MCStates
  Words <- MCWords
  Names <- MCNames
  ResBuff = 3
INVARIANTS InBounds Received
