CONSTANTS
  N = 5
  T = 3
  Value = {"a", "b", "c"}
  Fatal = {3}
  Task <- MCTask
  Sequential <- MCSequential
SPECIFICATION Spec
INVARIANTS
  OrderPreserved
  ItemsExclusive
  ReferencesValid
  ProgressWithinTotal
  ReporterStopsLast
PROPERTIES
  ProgressMonotone
  Termination
  Refinement
