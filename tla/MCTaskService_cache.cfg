\* Three calls at a time on one key.
SPECIFICATION Spec
CONSTANTS
  Requests = {r1, r2, r3}
  Levels = {"A1"}
  Tasks = {"a", "b"}
  Batches <- MCOneBatch
  Initial <- MCOneRow
  FirstTask = "a"
  Absent = Absent
  Miss = Miss
  Read <- Keys
  MaxPos = 1
  Hot = 2
  MaxWrites = 2
  MaxFaults = 1
SYMMETRY Symmetry
INVARIANTS
  TypeOK
  StaleOnlyByRace
  CounterBounded
