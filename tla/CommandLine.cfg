SPECIFICATION Spec
CONSTANTS
  Delim = ":"
  Digit <- MCDigit
  Inputs <- MCInputs
  Unsigned = 256
  MaxWords = 4
  MaxLetters = 6
  MaxEntries = 3
INVARIANTS KeepsFields DefinedAsAsked SomethingIsDone AsksLast CommandIsGiven PassesOn
PROPERTIES Ends
CHECK_DEADLOCK FALSE
