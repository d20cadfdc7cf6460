\* Two objects sharing one statement through moves; results with and
\* without metadata; execute, store and reset may fail.
CONSTANTS
  Objects = {r1, r2}
  First = r1
  NRows = 2
  Shapes = {TRUE, FALSE}
  Faults = TRUE

SPECIFICATION Spec

INVARIANT TypeOK
PROPERTY ResetDiscardsOldRows
