CONSTANTS
  Width = 3
  SrcLens = {0, 1, 5, 10}
  ThreadOptions = {0, 1, 2, 3, 12}
  IntMod = 16
  DeflateBlockSize = 3
  SubBlockSize = 2
  CodedSizes = {10, 40}
  ReportOver = 1
SPECIFICATION FairSpec
INVARIANT TypeOK
INVARIANT ResultIsTheSource
INVARIANT OneFinalBlock
INVARIANT PiecesBounded
INVARIANT NeverMuchLonger
INVARIANT BarHonest
INVARIANT BarEndsFull
PROPERTY ImplementsCompressor
PROPERTY BarNeverBack
PROPERTY CompressReturns
CHECK_DEADLOCK FALSE
