SPECIFICATION BuilderSpec
CONSTANTS
  VRegisters = {0, 1, 2, 3}
  Length = 0
  Vocabulary = {}
  Programs <- NotLive
INVARIANT NeededIsLive
