SPECIFICATION FairSpec
CONSTANTS
  Keys = {k1}
  EncKeys = {}
  MaxInt = 2
  MaxLen = 1
  None = None
  Never = Never
  Threads = {t1, t2}
  Inodes = {f1, f2, f3}
  Requests <- LockRequests
  Faults = {}
  MaxTime = 0
  MaxFaults = 0
INVARIANT WritersExclude
PROPERTY CallsReturn
