CONSTANTS
  Obj = {b1, b2}
  MaxIndex = 2
  Addr = {a1, a2, a3, a4}
  Vals = {v1, v2}
  Kinds <- MCKinds
  SqlTypes <- MCSqlTypes
  MaxList = 2
  Items <- MCItems
  Aliasing = FALSE
  NIL = NIL
  FREE = FREE
  NullValue = NullValue
  Rejected = Rejected

SPECIFICATION Spec

INVARIANT NoLeak
SYMMETRY Interchangeable
