SPECIFICATION MCSpec
CONSTANTS
  Half = 16
  Shown = 2
  Written = {"moves", "outputs", "asks", "open"}
  Operators = {"*", "/", "%"}
  Numbers <- MCFitting
  Programs <- MCPrograms
  Tapes <- MCTapes
  Junk <- MCJunk
  Breakable <- MCBreakable
INVARIANTS
  ScreenIsCurrent
PROPERTIES
  ImplementsMachine
  StopsForReason
  ContinueEnds
  BreakpointsLetPass
