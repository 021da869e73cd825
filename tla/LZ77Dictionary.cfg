CONSTANTS
  Bytes = {0, 1}
  Repeated = 5
  Between = {0, 1, 2, 3}
  Workloads <- MCWorkloads
  Levels <- MCLevels
  LZ77DictionarySize = 7
  DeflateRepeatLenMax = 5
  ShortBlock = 2
  ReportOver = 3
SPECIFICATION FairSpec
INVARIANTS TypeOK RoundTrip ItemsLegal ProgressHonest
PROPERTIES LiteralsAreNew LongestMatch CallsReturn
CHECK_DEADLOCK FALSE
