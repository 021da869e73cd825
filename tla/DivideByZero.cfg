CONSTANTS
  Width = 3
  SrcLens = {0, 1}
  ThreadOptions = {0, 1, 2}
  IntMod = 16
  DeflateBlockSize = 3
  SubBlockSize = 2
  CodedSizes = {10, 24}
  ReportOver = 1
SPECIFICATION Spec
INVARIANT NeverCrashes
CHECK_DEADLOCK FALSE
