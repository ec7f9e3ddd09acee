SPECIFICATION Spec
CONSTANTS
  x00 = x00
  xAA = xAA
  Bytes <- TwoBytes
  Zero = x00
  MaxBytes = 3
INVARIANTS
  TypeOK
  NoContention
  StartUpIsQuiet
PROPERTIES
  ReadsWaitForReady
  KeepsBusPromise
