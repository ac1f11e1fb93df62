CONSTANTS
  TicksPerMs = 2
  PipeCapacity = 2
  MaxStall = 2
  Timeout = 13
  Mutants = {m1, m2}
  Programs <- MCAll
SPECIFICATION Spec
INVARIANTS
  EquivalentSurvives
  SurvivorsPass
PROPERTIES
  AllReported
