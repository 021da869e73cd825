CONSTANTS
  InitSizes = {0, 9}
  Bits = {1}
  Words <- MCWords
  Lengths = {0, 3, 8, 13}
  MaxBits = 21
SPECIFICATION FairSpec
INVARIANT TypeOK
INVARIANT CursorInBuffer
INVARIANT CleanTail
PROPERTY ImplementsLog
PROPERTY CallsReturn
CHECK_DEADLOCK FALSE
