CONSTANTS
  TicksPerMs = 2
  PipeCapacity = 2
  MaxStall = 0
  Timeout = 13
  Mutants = {m1}
  Programs <- MCFast
SPECIFICATION Spec
INVARIANTS
  TimedoutIsSlower
