SPECIFICATION Spec
CONSTANTS
  Texts <- MCWrong
  Inputs <- MCInputs
INVARIANT
  VerdictIsRight
