SPECIFICATION FairSpec
CONSTANTS
  f1 = f1  f2 = f2  r1 = r1  r2 = r2  s1 = s1  s2 = s2
  w = w  m1 = m1  a1 = a1  a2 = a2
  Files = {f1}
  GrpcFiles = {f1}
  Routes = {r1, r2}
  States = {s1, s2}
  Saves <- Everything
  Goals <- SetAll
  Watcher = w
  Manual = {}
  Setters = {a1}
  None = None
INVARIANT PersistKept
PROPERTY SavedIsServed
