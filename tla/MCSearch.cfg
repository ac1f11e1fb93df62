CONSTANTS
  Functions <- MCFunctions
  Sources <- MCSources
  MaxLine = 3
  PathLists <- MCPathLists
  Executed <- MCExecuted
  Workers = {w1, w2}
  Points <- MCPoints
  UnitOf <- MCUnitOf
  Exists = {"a.c", "b.c", "c.c"}
  Outcomes = {"tree", "null"}
  Verdict <- MCVerdict
  None = None
  Selections <- MCSelections
  MaxCalls = 2
  FileEnd = 9
  DeclSets <- MCDeclSets
  NodeSets <- MCNodeSets
  Locations <- MCLocations
  Programs <- MCPrograms
  ExtraFlags <- MCExtraFlags
  Compiler <- MCCompiler
SPECIFICATION MCSpec
INVARIANTS
  MutatorsServed
  NeverAskedNull
  NothingLostSilently
  OnlyWanted
  VerdictsRight
  JunkRight
  FlagsRight
PROPERTY
  PointsJudged
CHECK_DEADLOCK FALSE
