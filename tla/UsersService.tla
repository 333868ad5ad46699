---------------------------- MODULE UsersService ----------------------------
(***************************************************************************)
(* users-service: the RPC handlers over the one row of the users table.    *)
(* gRPC runs every call in a goroutine of its own, so several calls are in *)
(* progress at a time.  UpdStreak is the only one with two steps: it reads *)
(* the day from the clock in Go, and executes the UPDATE with that day     *)
(* later (after it got a connection of the pool and the row's lock).  The  *)
(* other calls are a single statement each.                                *)
(***************************************************************************)
EXTENDS UsersRow, FiniteSets

CONSTANTS Requests,     \* identities of the UpdStreak calls in progress
          Themes,       \* themes of the tasks
          Counters,     \* session counters the gateway may report
          Levels,       \* language levels the gateway lets through
          DefaultLevel, \* the column default of level
          Prompts,      \* system prompts
          FirstDay,     \* the day (since 1970) on which the database is made
          MaxDay,       \* bound: the last day
          MaxTaskID     \* bound: the last value of task_id

\* The clock is far from day 0, the default of last_done_day.
ASSUME UsersAssumption ==
  /\ Counters \subseteq Int
  /\ DefaultLevel \in Levels
  /\ FirstDay \in Nat /\ FirstDay > 1
  /\ MaxDay \in Nat
  /\ MaxTaskID \in Nat

VARIABLES row,    \* the users row
          today,  \* the clock: time.Now().UTC().Unix() / 86400
          req,    \* the UpdStreak calls: Idle or the arguments of the UPDATE
          days,   \* history: the days passed to executed UPDATEs
          seen,   \* history: the <<theme, counter>> pairs passed to them
          late    \* history: whether an UPDATE was overtaken by one of a later day

vars == <<row, today, req, days, seen, late>>

Idle == [busy |-> FALSE]

Call(theme, counter, day) ==
  [busy |-> TRUE, theme |-> theme, counter |-> counter, day |-> day]

Init ==
  /\ row = RegUser(DefaultLevel)
  /\ today = FirstDay
  /\ req = [r \in Requests |-> Idle]
  /\ days = {}
  /\ seen = {}
  /\ late = FALSE

\* UpdStreak is called and reads the day.
UpdStreak(r, theme, counter) ==
  /\ ~ req[r].busy
  /\ req' = [req EXCEPT ![r] = Call(theme, counter, today)]
  /\ UNCHANGED <<row, today, days, seen, late>>

\* The UPDATE of UpdStreak is executed and the call returns.
ExecStreak(r) ==
  /\ req[r].busy
  /\ row' = UpdateStreak(row, req[r].day, req[r].theme, req[r].counter)
  /\ days' = days \union {req[r].day}
  /\ seen' = seen \union {<<req[r].theme, req[r].counter>>}
  /\ late' = (late \/ req[r].day < row.last_done_day)
  /\ req' = [req EXCEPT ![r] = Idle]
  /\ UNCHANGED today

\* The call ends without its UPDATE: the gateway's deadline cancelled its
\* context, the database refused it, or the service was stopped.
AbortStreak(r) ==
  /\ req[r].busy
  /\ req' = [req EXCEPT ![r] = Idle]
  /\ UNCHANGED <<row, today, days, seen, late>>

UpdTaskID ==
  /\ row.task_id < MaxTaskID
  /\ row' = UpdateTaskID(row, 1)
  /\ UNCHANGED <<today, req, days, seen, late>>

UpdLangLevel(level) ==
  /\ row' = UpdateLangLevel(row, level)
  /\ UNCHANGED <<today, req, days, seen, late>>

UpdSystemPrompt(prompt) ==
  /\ row' = UpdateSystemPrompt(row, prompt)
  /\ UNCHANGED <<today, req, days, seen, late>>

\* Midnight, UTC.
NewDay ==
  /\ today < MaxDay
  /\ today' = today + 1
  /\ UNCHANGED <<row, req, days, seen, late>>

Next ==
  \/ \E r \in Requests :
       \/ \E th \in Themes, n \in Counters : UpdStreak(r, th, n)
       \/ ExecStreak(r)
       \/ AbortStreak(r)
  \/ UpdTaskID
  \/ \E l \in Levels : UpdLangLevel(l)
  \/ \E p \in Prompts : UpdSystemPrompt(p)
  \/ NewDay

Spec == Init /\ [][Next]_vars

-----------------------------------------------------------------------------
Days == FirstDay .. MaxDay

Rows ==
  [level : Levels, task_id : Nat, streak : Nat, last_done_day : Nat,
   best_theme : Themes \union {Empty}, best_theme_counter : Nat,
   worst_theme : Themes \union {Empty}, worst_theme_counter : {i \in Int : i <= 0},
   system_prompt : Prompts \union {Empty}]

Calls ==
  [busy : {TRUE}, theme : Themes, counter : Counters,
   day : {d \in Nat : d >= FirstDay}]

\* Every variable has its type; the best counter is never negative and the
\* worst never positive, for both start at 0 and only move outwards.
TypeOK ==
  /\ row \in Rows
  /\ today \in Nat /\ today >= FirstDay
  /\ req \in [Requests -> {Idle} \union Calls]
  /\ days \subseteq Nat
  /\ seen \subseteq Themes \X Counters
  /\ late \in BOOLEAN

\* The streak is earned: whatever the order in which concurrent calls reach
\* the row, and whichever of them are aborted, each of the streak's days,
\* counted back from last_done_day, is a day on which an answer was recorded.
StreakIsEarned ==
  /\ row.streak = 0 <=> days = {}
  /\ \A i \in 0 .. row.streak - 1 : row.last_done_day - i \in days

\* The best (worst) counter is the largest (smallest) one ever reported, or
\* 0, and the theme stored beside it was reported with this very counter: the
\* four CASEs of the UPDATE never tear the pair apart.
ThemesAreExtremes ==
  /\ \A x \in seen : row.worst_theme_counter <= x[2] /\ x[2] <= row.best_theme_counter
  /\ \/ row.best_theme_counter = 0 /\ row.best_theme = Empty
     \/ <<row.best_theme, row.best_theme_counter>> \in seen
  /\ \/ row.worst_theme_counter = 0 /\ row.worst_theme = Empty
     \/ <<row.worst_theme, row.worst_theme_counter>> \in seen

-----------------------------------------------------------------------------
\* What the streak promises, seen from outside.
Ledger == INSTANCE StreakLedger WITH
            streak <- row.streak, last <- row.last_done_day, active <- days

\* The service keeps the promise of StreakLedger, however many calls are in
\* progress, as long as none is overtaken by one of a later day around
\* midnight: each step of the row is a step of the ledger.
LedgerSteps ==
  [][~ late' => Ledger!Answer]_<<row.streak, row.last_done_day, days>>
=============================================================================
