CONSTANTS
  Width = 3
  SrcLens = {5}
  ThreadOptions = {2}
  IntMod = 16
  DeflateBlockSize = 3
  SubBlockSize = 2
  CodedSizes = {10, 24}
  ReportOver = 1
SPECIFICATION Spec
INVARIANT StoredBlocksInDeflateFormat
CHECK_DEADLOCK FALSE
