\* Two pages, opened one after the other or at once; the clock passes the last
\* slot of a day and the first of the next.
SPECIFICATION Spec
CONSTANTS
  MaxConns = 2
  DayHours = 3
  Slots <- MCSlots
  Cap = 2
  FirstTime = 4
  MaxTime = 7
  MaxSent = 2
  MaxFaults = 1
INVARIANTS
  TypeOK
  HistoryIsRecent
  PageIsHydrated
  OneCheckPerSlot
  EverySlotChecked
  AnsweredWhereAsked
