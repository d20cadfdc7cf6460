\* Two objects, one result set of three rows: next, reset, moves, close
\* and reopen.  A reset on a null res_ crashes the process, after which
\* nothing runs: deadlock is the crash, not a hang.
CONSTANTS
  Objects = {r1, r2}
  First = r1
  Results <- MCResultsOne
SPECIFICATION Spec
CHECK_DEADLOCK FALSE
INVARIANT TypeOK
PROPERTY RowsInOrder
