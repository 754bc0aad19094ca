SPECIFICATION Spec
CONSTANTS
  f1 = f1  f2 = f2  r1 = r1  r2 = r2  s1 = s1  s2 = s2
  w = w  m1 = m1  a1 = a1  a2 = a2
  Files = {f1, f2}
  GrpcFiles = {f2}
  Routes = {r1}
  States = {s1, s2}
  Saves <- TwoFiles
  Goals <- SetAll
  Watcher = w
  Manual = {m1}
  Setters = {}
  None = None
INVARIANT LoneReloadServesSaved
INVARIANT ViewsAgree
INVARIANT ScreenTellsProblems
PROPERTY AnnouncedIsServed
