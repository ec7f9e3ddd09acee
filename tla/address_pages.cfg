SPECIFICATION Spec
CONSTANTS
  Byte = 4
  Parts <- MCParts
  Fallback <- MCFallback
  Beyond = 2
  MaxTokens = 17
INVARIANTS
  ReachesTheAskedPage
  LengthsAndColumnsArrive
  ShortAddressesFit
CHECK_DEADLOCK FALSE
