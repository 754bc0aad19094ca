SPECIFICATION Spec
CONSTANTS
  Keys = {k1}
  EncKeys = {}
  MaxInt = 1
  MaxLen = 2
  None = None
  Never = Never
  Threads = {t1, t2}
  Inodes = {f1, f2}
  Requests <- WriteRequests
  Faults = {"append", "tear", "file"}
  MaxTime = 0
  MaxFaults = 1
SYMMETRY InodeSymmetry
INVARIANT BackedLogRebuildsIndex
PROPERTY ImplementsMap
