SPECIFICATION Spec
CONSTANTS
  c1 = c1
  c2 = c2
  r1 = r1
  s1 = s1
  s2 = s2
  None = None
  Callers <- MCCallers
  Routes <- MCRoutes
  Sequential <- MCRoutes
  States <- MCStates
  Lists <- MCLists
  Saves <- MCSaves
  Scenes <- MCScenes
  Size = 2
  MaxCalls = 3
  MaxResets = 1
  MaxEdits = 1
SYMMETRY Symmetry
INVARIANT CoverageTells
INVARIANT CoverageWhole
INVARIANT InTurn
PROPERTY ViewCovers
PROPERTY PinRefusedOnlyStale
CHECK_DEADLOCK FALSE
