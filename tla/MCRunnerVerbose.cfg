CONSTANTS
  TicksPerMs = 2
  PipeCapacity = 2
  MaxStall = 1
  MaxTime = 8
  Timeouts = {2}
  Programs <- MCVerbose
SPECIFICATION Spec
INVARIANTS
  TimedoutMeansSlow
