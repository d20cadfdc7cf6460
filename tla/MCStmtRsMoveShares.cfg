CONSTANTS
  Objects = {r1, r2}
  First = r1
  NRows = 2
  Shapes = {TRUE}
  Faults = FALSE

SPECIFICATION Spec

PROPERTY RowsInOrder
