CONSTANTS
  a = a
  b = b
  Names = {a, b}
  NameLength <- MCNameLength
  Sizes = {2, 203}
  Deflated = {1, 3}
  Methods = {"none", "deflate"}
  CountMod = 3
  SizeMod = 204
  MaxEntries = 2
  MaxVersion = 1
SPECIFICATION Spec
INVARIANT TypeOK
INVARIANT BufferIsArchive
INVARIANT NoEntryGrows
INVARIANT TimeNotOlder
CHECK_DEADLOCK FALSE
