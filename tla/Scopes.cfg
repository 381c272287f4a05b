\* Every program of up to MaxTokens tokens over two names.
SPECIFICATION Spec
CONSTANTS
  A = A
  B = B
  Name = {A, B}
  NONE = NONE
  MaxTokens = 11
INVARIANTS TypeOK ScopesNest TablesAreATree SymbolsExact OnlyBracesOutgrow
PROPERTIES DeclarationsStay
\* A parse ends.
CHECK_DEADLOCK FALSE
