\* One object over a multi-statement query with two result sets.
CONSTANTS
  Objects = {r1}
  First = r1
  Results <- MCResultsMulti
SPECIFICATION Spec
INVARIANT AllResultsRead
