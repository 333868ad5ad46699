\* One connection; words are added and deleted while the game goes on.
SPECIFICATION Spec
CONSTANTS
  Conns = {c1}
  Spelling <- MCSpelling
  Texts = {"tin", "net", "note", "nun", "eq", "nat"}
  Initial <- MCInitial
  Additions = {"tin", "eq"}
  MaxWords = 6
  MaxRows = 5
  MaxFaults = 1
INVARIANTS
  TypeOK
  UserWordsAreNew
  WordsFormAChain
  BotRowsAreNew
  StatisticsAddUp
