SPECIFICATION MCSpec
CONSTANTS
  VRegisters = {1}
  Size = 3
INVARIANTS
  TypeOK
  NeverTooLarge
  SolvedAtEnd
  SweepInvariant
PROPERTIES
  Terminates
