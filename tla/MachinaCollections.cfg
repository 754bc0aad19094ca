SPECIFICATION FairSpec
CONSTANTS
  c1 = c1
  c2 = c2
  r1 = r1
  x = x
  d1 = d1
  d2 = d2
  d3 = d3
  None = None
  Callers <- MCCallers
  Routes <- MCRoutes
  Ids <- MCIds
  Data <- MCData
  Seed <- MCSeed
  MaxCalls = 2
  MaxResets = 1
  MaxEdits = 1
INVARIANT FoundStays
PROPERTY IdsUnique
PROPERTY ChangesLast
PROPERTY CallsEnd
CHECK_DEADLOCK FALSE
