SPECIFICATION Spec
CONSTANTS
  Texts <- MCRight
  Inputs <- MCInputs
INVARIANTS
  TokensAreExact
  ParsesSentences
  IllegalIsRejected
  LegalIsCompiled
  MeaningKept
  StaysCoherent
