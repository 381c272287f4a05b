\* Files of a few tokens: a brace is enough.
SPECIFICATION Spec
CONSTANTS
  A = A
  B = B
  Name = {A, B}
  NONE = NONE
  MaxTokens = 3
INVARIANT ReserveEnough
\* A parse ends.
CHECK_DEADLOCK FALSE
