CONSTANTS
  Objects = {r1}
  First = r1
  NRows = 2
  Shapes = {TRUE}
  Faults = TRUE

SPECIFICATION Spec

INVARIANT NoFetchOutOfSync
