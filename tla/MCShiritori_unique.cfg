\* One connection, no failures, a table of distinct words.
SPECIFICATION Spec
CONSTANTS
  Conns = {c1}
  Spelling <- MCSpelling
  Texts = {"tin", "net", "note", "nun"}
  Initial <- MCInitial
  Additions = {}
  MaxWords = 6
  MaxRows = 4
  MaxFaults = 0
INVARIANTS
  WordsAreUnique
