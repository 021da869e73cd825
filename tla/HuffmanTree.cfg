CONSTANTS
  MaxCode = 5
  MaxLens = {3, 4}
  Counts = {0, 1, 2, 3, 5}
SPECIFICATION Spec
INVARIANT TypeOK
INVARIANT CodesTheSource
INVARIANT PrefixCode
INVARIANT Optimal
CHECK_DEADLOCK FALSE
