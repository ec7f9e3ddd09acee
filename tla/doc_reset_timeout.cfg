SPECIFICATION HostFairSpec
CONSTANTS
  b1 = b1
  b2 = b2
  p1 = p1
  p2 = p2
  d1 = d1
  d2 = d2
  Blocks <- OneBlock
  Pages <- TwoPages
  Data <- OneDatum
  Apis = {"driver"}
  Toggle = FALSE
  LateBusy = {}
PROPERTY ResetEnds
