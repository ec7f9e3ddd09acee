CONSTANTS
  NumBlocks = 2
  NumPages = 2
  Arrays <- SomeArrays
  Commands <- AllCommands
  MaxCommands = 2
SPECIFICATION Spec
INVARIANTS
  ExitZeroMeansDone
  ComplaintsAreReal
  EraseChipStopsAtFailure
  ReadsInOrder
  VerifyFindsRealFaults
PROPERTIES
  OnlyAskedPagesChange
CHECK_DEADLOCK FALSE
