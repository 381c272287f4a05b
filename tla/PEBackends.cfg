\* One page of literals is 3072 + 512 bytes.
SPECIFICATION Spec
CONSTANTS
  LiteralSizes = {1, 511, 3072, 4096}
  NameSizes64 = {0, 12, 353, 366, 367}
  NameSizes86 = {12, 385, 398, 399}
  Inputs <- MCInputs
  DWORD_SIZE = 1048576
INVARIANTS TypeOK RawDataWhereHeadersSay SectionsMapped LoaderFindsImports
\* A compilation ends.
CHECK_DEADLOCK FALSE
