CONSTANTS
  Width = 3
  SrcLens = {10}
  ThreadOptions = {1}
  IntMod = 16
  DeflateBlockSize = 3
  SubBlockSize = 2
  CodedSizes = {13, 24}
  ReportOver = 1
SPECIFICATION Spec
INVARIANT StoredBlocksInDeflateFormat
CHECK_DEADLOCK FALSE
