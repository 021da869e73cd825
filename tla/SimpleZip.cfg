CONSTANTS
  a = a
  b = b
  Names = {a, b}
  NameLength <- MCNameLength
  Sizes = {0, 2, 273}
  Deflated = {1, 3}
  Methods = {"none", "deflate"}
  CountMod = 4
  SizeMod = 274
  MaxEntries = 3
  MaxVersion = 1
  Sources <- MCSources
  MethodNames = {"", "store", "deflate", "zip"}
SPECIFICATION FairAppSpec
INVARIANT SuccessHoldsSources
PROPERTY Terminates
CHECK_DEADLOCK FALSE
