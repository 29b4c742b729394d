SPECIFICATION MCSpec
CONSTANTS
  VRegisters = {0, 1, 2, 3}
  Length = 4
  Vocabulary <- MCWords
  Programs <- MCPrograms
  Deg = 8
  MaxRegisters = 30
  Cases <- MCCases
  Script <- MCScript
  Junk <- MCJunk
INVARIANTS
  BlocksAreBlocks
  LiveWhenBuilt
  InterfereExactly
  RoundInvariant
  ColouringIsProper
  SpillsWhenCrowded
PROPERTIES
  ImplementsSource
  AllocationEnds
