SPECIFICATION Spec
CONSTANTS
  Literals <- Unserved
  OperandValues = {1, 5, 7}
  Cases <- MCLiteralCases
  Programs <- MCCode
  Tapes <- MCTapes
  Junk <- MCJunk
INVARIANT
  FinalMemory
