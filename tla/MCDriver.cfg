CONSTANTS
  Bitcode = {b1, b2}
  Mutants = {m1, m2}
  Workers = 2
  PointLists <- MCPointLists
  Requested <- MCRequested
  Outcomes <- MCOutcomes
  Files <- MCFiles
  Columns = {0, 1, 2, 3}
  Garbage = {"", "g"}
  MaxLength = 5
SPECIFICATION MCSpec
INVARIANTS
  FilesRight
  VerdictsSound
  ReportsRight
  SourceShown
PROPERTIES
  ExitFinal
  Terminates
CHECK_DEADLOCK FALSE
