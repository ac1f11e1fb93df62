CONSTANTS
  b1 = b1
  b2 = b2
  Bitcodes = {b1, b2}
  Functions <- MCFunctions
  BitcodeOf <- MCBitcodeOf
  Identifiers = {id1, id2}
  MaxPoints = 4
  PointLists <- MCSamePlace
  Workers = 2
SPECIFICATION Spec
INVARIANTS
  FlagEnablesMutation
