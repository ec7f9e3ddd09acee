CONSTANTS
  Chips <- BothChips
  MaxFrames = 4
  Sessions = {s1, s2}
  Interfaces = {hal}
  Policies <- TwoPolicies
  DefaultPolicy = "other"
  Masks <- OneMask
SPECIFICATION HostSpec
INVARIANTS
  HostTypeOK
  Balanced
  HoldersHavePins
  LastOneRestores
  SessionInsideCallback
  NoSessionLeftBehind
  GeometryAsAsked
