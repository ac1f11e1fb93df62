CONSTANTS
  Width = 3
  Floats <- MCFloats
  Cases <- MCCases
  ParsedUnits <- MCUnits
  Arguments <- MCArguments
SPECIFICATION MCSpec
INVARIANTS
  OperatorReplaced
  OperatorFound
  LogicalReplaced
  SingleSkipVerifies
  OriginalKept
  MutantsRight
PROPERTY
  MutantReturns
CHECK_DEADLOCK FALSE
