SPECIFICATION FairSpec
CONSTANTS
  l1 = l1  r1 = r1  r2 = r2
  Size = 2
  Buffer = 2
  Listeners = {l1}
  Reloaders = {r1, r2}
  None = None
  MaxEvents = 3
  MaxSwaps = 2
INVARIANT RecentIsNewest
INVARIANT NoPanic
INVARIANT InOrder
INVARIANT PageFollows
PROPERTY StreamsEnd
