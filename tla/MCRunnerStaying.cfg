CONSTANTS
  TicksPerMs = 2
  PipeCapacity = 2
  MaxStall = 1
  MaxTime = 8
  Timeouts = {0, 1, 2}
  Programs <- MCStaying
SPECIFICATION Spec
PROPERTIES
  Returns
