SPECIFICATION FairSpec
CONSTANTS
  Cap <- MCCap
  Buffer = 2
  Earlier = 1
  MaxRequests = 2
  MaxReloads = 2
  MaxFaults = 1
INVARIANT TypeOK
INVARIANT RowsWhole
INVARIANT NewestFirst
INVARIANT PageFollows
INVARIANT ButtonTells
PROPERTY PageUpdates
