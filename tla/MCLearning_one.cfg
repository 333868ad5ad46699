\* One connection, with failing calls, crashes and expiry, under the fairness
\* of the handlers.
SPECIFICATION FairSpec
CONSTANTS
  Conns = {c1}
  Store <- MCStore
  Texts = {"a1", "a2", "a3", "other"}
  MaxAnswers = 5
  MaxFaults = 2
INVARIANTS
  TypeOK
  AskedTaskExists
  AskedTaskIsCurrent
  SkippedBoundedByFaults
  StatsUpToDate
  CreditsEarned
  CreditsKept
  CountersEarned
PROPERTIES
  EveryMessageHandled
  EveryRightAnswerCredited
