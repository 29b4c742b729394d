SPECIFICATION SecondSpec
CONSTANTS
  VRegisters = {0, 1, 2, 3}
  Length = 0
  Vocabulary = {}
  Programs = {}
  Deg = 8
  MaxRegisters = 30
  Cases <- MCDeparting
  Script <- MCDepartingScripts
  Junk <- MCJunk
PROPERTIES
  ImplementsSource
CHECK_DEADLOCK FALSE
