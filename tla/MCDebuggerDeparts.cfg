SPECIFICATION MCSpec
CONSTANTS
  Half = 16
  Shown = 2
  Written = {"outputs"}
  Operators = {"*", "/", "%"}
  Numbers <- MCTooLarge
  Programs <- MCPrograms
  Tapes <- MCTapes
  Junk <- MCJunk
  Breakable <- MCBehindWrite
PROPERTY ImplementsMachine
