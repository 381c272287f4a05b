\* Every stream of a few tokens, longer chains of operators, and groups.
SPECIFICATION Spec
CONSTANTS
  MaxOperators = 4
  MaxTokens = 4
  MaxCallTokens = 6
  MaxGroup = 2
  Streams <- MCStreams
  Delimiters <- MCDelimiters
INVARIANTS TypeOK AstIsATree YieldPreserved OneRotationIsEnough GroupAtTheEnd ArgumentsCounted
PROPERTIES OperationsAreParsed
\* An expression ends.
CHECK_DEADLOCK FALSE
