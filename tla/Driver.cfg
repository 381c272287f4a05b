SPECIFICATION Spec
CONSTANTS
  Programs <- SomePrograms
  CommandLines <- SomeCommandLines
  Files <- SomeFiles
  Initially <- Before
  Builds = {TRUE, FALSE}
  Draw <- DrawGraph
  NbWrites = 3
CHECK_DEADLOCK FALSE
INVARIANTS
  FailureKeepsFiles
  SuccessExactly
  GraphsExact
