\* One connection, no failures.
SPECIFICATION Spec
CONSTANTS
  Conns = {c1}
  Store <- MCStore
  Texts = {"a1", "a2", "a3", "other"}
  MaxAnswers = 3
  MaxFaults = 0
INVARIANTS
  BestThemeIsDeserved
