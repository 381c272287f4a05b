\* Two functions with the same hash, or an import met twice.
SPECIFICATION Spec
CONSTANTS
  Library = {"K", "U", "G"}
  Function = {"f", "g", "h"}
  ShortHash <- MCShortHash
  NB_PREALLOCATED_IMPORTED_LIBRARIES = 2
  NB_PREALLOCATED_IMPORTED_FUNCTIONS_PER_LIBRARY = 2
  MaxDepth = 60
  MaxStatements = 2
  MaxAny = 0
  Programs <- MCPrograms
INVARIANTS OnlyRedeclarationsRefused
CHECK_DEADLOCK FALSE
