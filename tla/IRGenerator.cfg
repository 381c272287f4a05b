\* Programs of a few statements; f and g have the same hash.
SPECIFICATION Spec
CONSTANTS
  Library = {"K", "U", "G"}
  Function = {"f", "g", "h"}
  ShortHash <- MCShortHash
  NB_PREALLOCATED_IMPORTED_LIBRARIES = 2
  NB_PREALLOCATED_IMPORTED_FUNCTIONS_PER_LIBRARY = 1
  MaxDepth = 60
  MaxStatements = 3
  MaxAny = 2
  Programs <- MCPrograms
INVARIANTS TypeOK LiteralsFillReadOnlyData ImportsRecorded EndlessExactly
\* A generation ends.
CHECK_DEADLOCK FALSE
