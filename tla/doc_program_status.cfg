CONSTANTS
  NumBlocks = 2
  NumPages = 2
  Arrays <- ErasedArray
  Commands <- UnverifiedPrograms
  MaxCommands = 1
SPECIFICATION Spec
INVARIANT SuccessMeansNoFailure
CHECK_DEADLOCK FALSE
