\* One object, one result set of three rows: reset after the rows are read.
CONSTANTS
  Objects = {r1}
  First = r1
  Results <- MCResultsOne
SPECIFICATION Spec
CHECK_DEADLOCK FALSE
INVARIANT ResetSafe
