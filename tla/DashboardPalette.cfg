SPECIFICATION FairSpec
CONSTANTS
  q1 = q1
  q2 = q2
  q3 = q3
  Queries <- MCQueries
  Empty = q1
  None = None
  MaxLinks = 2
  Deadline = 4
  Sweep = 2
  MaxTyped = 4
INVARIANT ResultsAnswer
INVARIANT LinkMarked
INVARIANT DialogsModal
INVARIANT GoInTime
PROPERTY ResultsCome
