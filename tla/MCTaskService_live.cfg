\* Two calls at a time under fairness.
SPECIFICATION FairSpec
CONSTANTS
  Requests = {r1, r2}
  Levels = {"A1", "B2"}
  Tasks = {"b"}
  Batches <- MCBatches
  Initial <- MCNoRow
  FirstTask = "b"
  Absent = Absent
  Miss = Miss
  Read <- MCFirstKey
  MaxPos = 4
  Hot = 2
  MaxWrites = 2
  MaxFaults = 1
INVARIANTS
  GapsHaveCauses
PROPERTIES
  EveryCallReturns
  EventuallyFresh
