\* Two UpdStreak calls in progress at a time, over five days, with the other
\* calls between.
SPECIFICATION Spec
CONSTANTS
  Requests = {r1, r2}
  Themes = {"verbs", "nouns"}
  Counters <- MCCounters
  Levels = {"A1", "B2"}
  DefaultLevel = "A1"
  Prompts = {"tutor"}
  FirstDay = 10
  MaxDay = 14
  MaxTaskID = 2
SYMMETRY Symmetry
INVARIANTS
  TypeOK
  StreakIsEarned
  ThemesAreExtremes
PROPERTIES
  LedgerSteps
