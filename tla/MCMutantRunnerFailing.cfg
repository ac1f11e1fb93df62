CONSTANTS
  TicksPerMs = 2
  PipeCapacity = 2
  MaxStall = 2
  Timeout = 13
  Mutants = {m1}
  Programs <- MCFailing
SPECIFICATION Spec
INVARIANTS
  KilledStartsFailing
