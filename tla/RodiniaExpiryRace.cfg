SPECIFICATION Spec
CONSTANTS
  Keys = {k1}
  EncKeys = {}
  MaxInt = 2
  MaxLen = 2
  None = None
  Never = Never
  Threads = {t1, t2}
  Inodes = {f1}
  Requests <- ExpiryRequests
  Faults = {}
  MaxTime = 1
  MaxFaults = 1
INVARIANT LogRebuildsIndex
