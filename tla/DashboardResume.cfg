SPECIFICATION Spec
CONSTANTS
  Cap <- MCWideCap
  Buffer = 2
  Earlier = 0
  MaxRequests = 3
  MaxReloads = 0
  MaxFaults = 0
INVARIANT NothingMissed
