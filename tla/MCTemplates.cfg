SPECIFICATION TemplateSpec
CONSTANTS
  Numbers = {0, 2}
  Pieces <- MCPieces
  Programs <- MCListings
  Tapes <- MCTapes
  Memories <- MCMemories
  Junk <- MCJunk
INVARIANTS
  AssignsResult
  TellsValue
  CallsReturn
