CONSTANTS
  a = a
  b = b
  Names = {a, b}
  NameLength <- MCNameLength
  Sizes = {0, 2}
  Deflated = {1, 3}
  Methods = {"none", "deflate"}
  CountMod = 16
  SizeMod = 1000
  MaxEntries = 3
  MaxVersion = 1
  Sources <- MCSources
  MethodNames = {"", "store", "deflate", "zip"}
SPECIFICATION AppSpec
INVARIANT SuccessMeansWritten
CHECK_DEADLOCK FALSE
