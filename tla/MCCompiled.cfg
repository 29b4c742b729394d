SPECIFICATION Spec
CONSTANTS
  Operators = {"+", "-", "*", "/", "%"}
  LeftValues = {7}
  RightValues = {0, 3}
  Literals <- Served
  OperandValues = {3}
  Turns = 2
  Numbers = {0, 1, 3, 5}
  Cases <- MCCases
  Programs <- MCCode
  Tapes <- MCTapes
  Junk <- MCJunk
INVARIANTS
  TypeOK
  FinalMemory
  ArgumentsAreVariables
PROPERTIES
  ImplementsSource
  ReturnCellsPreserved
  ReturnsBehindCall
  StoresAreAssigned
