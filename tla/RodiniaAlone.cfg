SPECIFICATION Spec
CONSTANTS
  Keys = {k1, k2}
  EncKeys = {e1}
  MaxInt = 2
  MaxLen = 1
  None = None
  Never = Never
  Threads = {t1}
  Inodes = {f1, f2, f3}
  Requests <- AloneRequests
  Faults = {"append", "tear", "file"}
  MaxTime = 1
  MaxFaults = 1
SYMMETRY InodeSymmetry
INVARIANTS TypeOK BackedLogRebuildsIndex NoPhantomKey
PROPERTY ImplementsMap
