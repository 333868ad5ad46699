------------------------- MODULE UsersService_proofs -------------------------
(***************************************************************************)
(* Proofs about UsersService, for every number of concurrent calls, every  *)
(* set of themes and counters, and every order in which the calls reach    *)
(* the row or are aborted.                                                 *)
(***************************************************************************)
EXTENDS UsersService, FiniteSetTheorems, TLAPS

\* Until an answer is recorded, last_done_day is the column default.
FreshRow == row.streak = 0 => row.last_done_day = 0

\* The inductive invariant of the streak.  FreshRow is needed for an UPDATE
\* that keeps the streak (its day is last_done_day): the streak it keeps is
\* then not the 0 of a fresh row, for no call carries day 0.
StreakInv == TypeOK /\ FreshRow /\ StreakIsEarned

-----------------------------------------------------------------------------
\* The types of the columns of a row.
LEMMA RowFields ==
  ASSUME NEW r \in Rows
  PROVE  /\ r.task_id \in Nat /\ r.streak \in Nat /\ r.last_done_day \in Nat
         /\ r.best_theme \in Themes \union {Empty}
         /\ r.best_theme_counter \in Nat
         /\ r.worst_theme \in Themes \union {Empty}
         /\ r.worst_theme_counter \in Int /\ r.worst_theme_counter <= 0
BY DEF Rows

\* What the UPDATE of UpdateStreak makes of each column.
LEMMA UpdateStreakColumns ==
  ASSUME NEW r \in Rows, NEW d \in Nat, NEW th \in Themes, NEW n \in Int
  PROVE  LET u == UpdateStreak(r, d, th, n)
         IN /\ u \in Rows
            /\ u.last_done_day = d
            /\ r.last_done_day = d => u.streak = r.streak
            /\ r.last_done_day = d - 1 => u.streak = r.streak + 1
            /\ r.last_done_day # d /\ r.last_done_day # d - 1 => u.streak = 1
            /\ u.best_theme_counter =
                 IF n > r.best_theme_counter THEN n ELSE r.best_theme_counter
            /\ u.best_theme =
                 IF n > r.best_theme_counter THEN th ELSE r.best_theme
            /\ u.worst_theme_counter =
                 IF n < r.worst_theme_counter THEN n ELSE r.worst_theme_counter
            /\ u.worst_theme =
                 IF n < r.worst_theme_counter THEN th ELSE r.worst_theme
<1> DEFINE bt == BestThemeCase(r, th, n)    bn == BestThemeCntCase(r, n)
           wt == WorstThemeCase(r, th, n)   wn == WorstThemeCntCase(r, n)
           st == StreakCase(r, d)
<1>0. /\ r.streak \in Nat /\ r.last_done_day \in Nat
      /\ r.best_theme \in Themes \union {Empty} /\ r.best_theme_counter \in Nat
      /\ r.worst_theme \in Themes \union {Empty}
      /\ r.worst_theme_counter \in Int /\ r.worst_theme_counter <= 0
  BY RowFields
<1>1. /\ bn \in Nat /\ wn \in {i \in Int : i <= 0}
      /\ bn = IF n > r.best_theme_counter THEN n ELSE r.best_theme_counter
      /\ wn = IF n < r.worst_theme_counter THEN n ELSE r.worst_theme_counter
  <2>1. bn = IF n > r.best_theme_counter THEN n ELSE r.best_theme_counter
    BY DEF BestThemeCntCase
  <2>2. wn = IF n < r.worst_theme_counter THEN n ELSE r.worst_theme_counter
    BY DEF WorstThemeCntCase
  <2> HIDE DEF bn, wn
  <2>3. bn \in Nat
    BY <1>0, <2>1
  <2>4. wn \in {i \in Int : i <= 0}
    BY <1>0, <2>2
  <2> QED BY <2>1, <2>2, <2>3, <2>4
<1>2. /\ bt \in Themes \union {Empty} /\ wt \in Themes \union {Empty}
      /\ bt = IF n > r.best_theme_counter THEN th ELSE r.best_theme
      /\ wt = IF n < r.worst_theme_counter THEN th ELSE r.worst_theme
  BY <1>0 DEF BestThemeCase, WorstThemeCase
<1>3. /\ st \in Nat
      /\ r.last_done_day = d => st = r.streak
      /\ r.last_done_day = d - 1 => st = r.streak + 1
      /\ r.last_done_day # d /\ r.last_done_day # d - 1 => st = 1
  <2>1. r.streak + 1 \in Nat /\ d - 1 # d
    BY <1>0
  <2>2. CASE r.last_done_day = d
    BY <1>0, <2>1, <2>2 DEF StreakCase
  <2>3. CASE r.last_done_day = d - 1
    BY <1>0, <2>1, <2>3 DEF StreakCase
  <2>4. CASE r.last_done_day # d /\ r.last_done_day # d - 1
    BY <2>4 DEF StreakCase
  <2> QED BY <2>2, <2>3, <2>4
<1>4. UpdateStreak(r, d, th, n) =
        [[r EXCEPT !.best_theme = bt, !.best_theme_counter = bn,
                   !.worst_theme = wt, !.worst_theme_counter = wn]
           EXCEPT !.streak = st, !.last_done_day = d]
  BY DEF UpdateStreak, ThemeColumns
<1> HIDE DEF bt, bn, wt, wn, st
<1>5. UpdateStreak(r, d, th, n) \in Rows
  BY <1>1, <1>2, <1>3, <1>4 DEF Rows
<1>6. /\ UpdateStreak(r, d, th, n).last_done_day = d
      /\ UpdateStreak(r, d, th, n).streak = st
      /\ UpdateStreak(r, d, th, n).best_theme_counter = bn
      /\ UpdateStreak(r, d, th, n).best_theme = bt
      /\ UpdateStreak(r, d, th, n).worst_theme_counter = wn
      /\ UpdateStreak(r, d, th, n).worst_theme = wt
  BY <1>4 DEF Rows
<1> QED BY <1>1, <1>2, <1>3, <1>5, <1>6

\* The other calls leave the statistics alone.
LEMMA OtherColumns ==
  ASSUME NEW r \in Rows, NEW u,
         \/ u = UpdateTaskID(r, 1)
         \/ \E l \in Levels : u = UpdateLangLevel(r, l)
         \/ \E p \in Prompts : u = UpdateSystemPrompt(r, p)
  PROVE  /\ u \in Rows
         /\ u.streak = r.streak /\ u.last_done_day = r.last_done_day
         /\ u.best_theme = r.best_theme
         /\ u.best_theme_counter = r.best_theme_counter
         /\ u.worst_theme = r.worst_theme
         /\ u.worst_theme_counter = r.worst_theme_counter
<1>1. CASE u = UpdateTaskID(r, 1)
  <2>1. r.task_id \in Nat
    BY RowFields
  <2>2. r.task_id + 1 \in Nat
    BY <2>1
  <2> QED BY <1>1, <2>2 DEF Rows, UpdateTaskID
<1>2. CASE \E l \in Levels : u = UpdateLangLevel(r, l)
  BY <1>2 DEF Rows, UpdateLangLevel
<1>3. CASE \E p \in Prompts : u = UpdateSystemPrompt(r, p)
  BY <1>3 DEF Rows, UpdateSystemPrompt
<1> QED BY <1>1, <1>2, <1>3

-----------------------------------------------------------------------------
\* A row fresh from RegUser, with no call in progress.
LEMMA InitStreakInv == Init => StreakInv
<1> SUFFICES ASSUME Init PROVE StreakInv
  OBVIOUS
<1> USE UsersAssumption
<1>1. RegUser(DefaultLevel) \in Rows
  BY DEF RegUser, Rows
<1>2. /\ row.streak = 0 /\ row.last_done_day = 0
  BY DEF Init, RegUser
<1>3. TypeOK
  <2>1. late \in BOOLEAN
    BY DEF Init
  <2>2. req \in [Requests -> {Idle} \union Calls]
    BY DEF Init
  <2>. QED  BY <1>1, <2>1, <2>2 DEF Init, TypeOK
<1>4. FreshRow /\ StreakIsEarned
  BY <1>2 DEF Init, FreshRow, StreakIsEarned
<1> QED BY <1>3, <1>4 DEF StreakInv

\* The arguments of a call in progress.
LEMMA BusyCall ==
  ASSUME TypeOK, NEW r \in Requests, req[r].busy
  PROVE  /\ req[r].theme \in Themes /\ req[r].counter \in Counters
         /\ req[r].counter \in Int
         /\ req[r].day \in Nat /\ req[r].day >= FirstDay /\ req[r].day > 1
<1>1. req[r] \in {Idle} \union Calls
  BY DEF TypeOK
<1>2. req[r] \in Calls
  BY <1>1 DEF Idle
<1>3. /\ req[r].theme \in Themes /\ req[r].counter \in Counters
      /\ req[r].day \in Nat /\ req[r].day >= FirstDay
  BY <1>2 DEF Calls
<1>4. /\ \A x \in Counters : x \in Int
      /\ \A x \in Nat : x >= FirstDay => x > 1
  BY UsersAssumption
<1> QED BY <1>3, <1>4

\* A step that leaves the row's statistics and the history alone.
LEMMA KeepStatistics ==
  ASSUME StreakIsEarned, FreshRow, UNCHANGED days,
         row'.streak = row.streak, row'.last_done_day = row.last_done_day
  PROVE  (StreakIsEarned /\ FreshRow)'
BY DEF StreakIsEarned, FreshRow

\* What an executed UPDATE makes of the streak.
LEMMA ExecStreakColumns ==
  ASSUME TypeOK, NEW r \in Requests, ExecStreak(r)
  PROVE  /\ row' \in Rows /\ row'.last_done_day = req[r].day
         /\ row.last_done_day = req[r].day => row'.streak = row.streak
         /\ row.last_done_day = req[r].day - 1 => row'.streak = row.streak + 1
         /\ row.last_done_day # req[r].day /\ row.last_done_day # req[r].day - 1
              => row'.streak = 1
<1> DEFINE d  == req[r].day
           th == req[r].theme
           n  == req[r].counter
<1>1. row' = UpdateStreak(row, d, th, n)
  BY DEF ExecStreak
<1>2. row \in Rows /\ d \in Nat /\ th \in Themes /\ n \in Int
  BY BusyCall DEF ExecStreak, TypeOK
<1> HIDE DEF d, th, n
<1>3. /\ row' \in Rows /\ row'.last_done_day = d
      /\ row.last_done_day = d => row'.streak = row.streak
      /\ row.last_done_day = d - 1 => row'.streak = row.streak + 1
      /\ row.last_done_day # d /\ row.last_done_day # d - 1 => row'.streak = 1
  BY <1>1, <1>2, UpdateStreakColumns
<1> QED BY <1>3 DEF d

\* An executed UPDATE keeps the invariant: its day joins the history, and the
\* new streak consists of that day and, if last_done_day was the day before,
\* of the days of the old streak.
LEMMA ExecStreakStep ==
  ASSUME StreakInv, NEW r \in Requests, ExecStreak(r)
  PROVE  StreakInv'
<1> DEFINE d == req[r].day
           old == row.last_done_day
<1>1. TypeOK /\ row \in Rows /\ req[r].busy
  BY DEF StreakInv, TypeOK, ExecStreak
<1>2. /\ req[r].theme \in Themes /\ req[r].counter \in Counters
      /\ req[r].counter \in Int /\ d \in Nat /\ d >= FirstDay /\ d > 1
  BY <1>1, BusyCall
<1>3. /\ row' \in Rows /\ row'.last_done_day = d
      /\ old = d => row'.streak = row.streak
      /\ old = d - 1 => row'.streak = row.streak + 1
      /\ old # d /\ old # d - 1 => row'.streak = 1
  BY <1>1, ExecStreakColumns
<1>4. TypeOK'
  <2>1. req' \in [Requests -> {Idle} \union Calls]
    BY <1>1 DEF ExecStreak, TypeOK
  <2>2. days' \subseteq Nat
    BY <1>1, <1>2 DEF ExecStreak, TypeOK
  <2>3. seen' \subseteq Themes \X Counters
    BY <1>1, <1>2 DEF ExecStreak, TypeOK
  <2>4. today' \in Nat /\ today' >= FirstDay
    BY <1>1 DEF ExecStreak, TypeOK
  <2>5. late' \in BOOLEAN
    BY DEF ExecStreak
  <2> QED BY <1>3, <2>1, <2>2, <2>3, <2>4, <2>5 DEF TypeOK
<1>5. /\ row.streak \in Nat /\ old \in Nat
      /\ row'.streak \in Nat
  BY <1>1, <1>3, RowFields
<1>6. d \in days' /\ days \subseteq days'
  BY DEF ExecStreak
<1>7. row'.streak # 0
  <2>1. CASE old = d
    <3>1. row.streak # 0
      BY <1>2, <2>1 DEF StreakInv, FreshRow
    <3> QED BY <1>3, <2>1, <3>1
  <2>2. CASE old = d - 1
    BY <1>3, <1>5, <2>2
  <2>3. CASE old # d /\ old # d - 1
    BY <1>3, <2>3
  <2> QED BY <2>1, <2>2, <2>3
<1>8. ASSUME NEW i \in 0 .. row'.streak - 1 PROVE row'.last_done_day - i \in days'
  <2>1. CASE i = 0
    BY <1>2, <1>3, <1>6, <2>1
  <2>2. CASE i # 0
    <3>1. CASE old = d
      <4>1. i \in 0 .. row.streak - 1
        BY <1>3, <3>1
      <4>2. old - i \in days
        BY <4>1 DEF StreakInv, StreakIsEarned
      <4> QED BY <1>3, <1>6, <3>1, <4>2
    <3>2. CASE old = d - 1
      <4>1. i - 1 \in 0 .. row.streak - 1
        BY <1>3, <1>5, <2>2, <3>2
      <4>2. old - (i - 1) \in days
        BY <4>1 DEF StreakInv, StreakIsEarned
      <4>3. old - (i - 1) = d - i
        BY <1>2, <3>2
      <4> QED BY <1>3, <1>6, <4>2, <4>3
    <3>3. CASE old # d /\ old # d - 1
      BY <1>3, <2>2, <3>3
    <3> QED BY <3>1, <3>2, <3>3
  <2> QED BY <2>1, <2>2
<1>9. StreakIsEarned'
  BY <1>6, <1>7, <1>8 DEF StreakIsEarned
<1>10. FreshRow'
  BY <1>7 DEF FreshRow
<1> QED BY <1>4, <1>9, <1>10 DEF StreakInv

LEMMA NextStreakInv == StreakInv /\ [Next]_vars => StreakInv'
<1> SUFFICES ASSUME StreakInv, [Next]_vars PROVE StreakInv'
  OBVIOUS
<1>0. TypeOK /\ FreshRow /\ StreakIsEarned /\ row \in Rows
  BY DEF StreakInv, TypeOK
<1>1. ASSUME NEW r \in Requests, NEW th \in Themes, NEW n \in Counters,
             UpdStreak(r, th, n)
      PROVE  StreakInv'
  <2>1. Call(th, n, today) \in Calls
    BY <1>0 DEF Call, Calls, TypeOK
  <2>2. TypeOK'
    BY <1>0, <1>1, <2>1 DEF UpdStreak, TypeOK
  <2> QED BY <1>0, <1>1, <2>2, KeepStatistics DEF StreakInv, UpdStreak
<1>2. ASSUME NEW r \in Requests, ExecStreak(r) PROVE StreakInv'
  BY <1>2, ExecStreakStep
<1>3. ASSUME NEW r \in Requests, AbortStreak(r) PROVE StreakInv'
  <2>1. TypeOK'
    BY <1>0, <1>3 DEF AbortStreak, TypeOK
  <2> QED BY <1>0, <1>3, <2>1, KeepStatistics DEF StreakInv, AbortStreak
<1>4. ASSUME \/ UpdTaskID
             \/ \E l \in Levels : UpdLangLevel(l)
             \/ \E p \in Prompts : UpdSystemPrompt(p)
      PROVE  StreakInv'
  <2>1. /\ \/ row' = UpdateTaskID(row, 1)
           \/ \E l \in Levels : row' = UpdateLangLevel(row, l)
           \/ \E p \in Prompts : row' = UpdateSystemPrompt(row, p)
        /\ UNCHANGED <<today, req, days, seen, late>>
    BY <1>4 DEF UpdTaskID, UpdLangLevel, UpdSystemPrompt
  <2>2. /\ row' \in Rows
        /\ row'.streak = row.streak /\ row'.last_done_day = row.last_done_day
    BY <1>0, <2>1, OtherColumns
  <2>3. TypeOK'
    BY <1>0, <2>1, <2>2 DEF TypeOK
  <2> QED BY <1>0, <2>1, <2>2, <2>3, KeepStatistics DEF StreakInv
<1>5. ASSUME NewDay PROVE StreakInv'
  <2>0. today' \in Nat /\ today' >= FirstDay
    BY <1>0, <1>5, UsersAssumption DEF NewDay, TypeOK
  <2>1. TypeOK'
    BY <1>0, <1>5, <2>0 DEF NewDay, TypeOK
  <2> QED BY <1>0, <1>5, <2>1, KeepStatistics DEF StreakInv, NewDay
<1>6. ASSUME UNCHANGED vars PROVE StreakInv'
  BY <1>0, <1>6 DEF vars, StreakInv, TypeOK, FreshRow, StreakIsEarned
<1> QED BY <1>1, <1>2, <1>3, <1>4, <1>5, <1>6 DEF Next

\* Every variable always has its type.
THEOREM TypeCorrect == Spec => []TypeOK
<1>1. StreakInv => TypeOK
  BY DEF StreakInv
<1> QED BY <1>1, InitStreakInv, NextStreakInv, PTL DEF Spec

\* Each day of the streak is a day on which an answer was recorded, for any
\* number of concurrent calls in any order.
THEOREM StreakEarned == Spec => []StreakIsEarned
<1>1. StreakInv => StreakIsEarned
  BY DEF StreakInv
<1> QED BY <1>1, InitStreakInv, NextStreakInv, PTL DEF Spec

-----------------------------------------------------------------------------
\* The best and worst theme are the themes of the extreme counters, for any
\* number of concurrent calls in any order.
THEOREM ThemesExtreme == Spec => []ThemesAreExtremes
<1>1. Init => ThemesAreExtremes
  BY DEF Init, RegUser, ThemesAreExtremes
<1>2. TypeOK /\ ThemesAreExtremes /\ [Next]_vars => ThemesAreExtremes'
  <2> SUFFICES ASSUME TypeOK, ThemesAreExtremes, [Next]_vars
               PROVE  ThemesAreExtremes'
    OBVIOUS
  <2>0. row \in Rows
    BY DEF TypeOK
  <2> DEFINE Kept == /\ UNCHANGED seen
                     /\ row'.best_theme = row.best_theme
                     /\ row'.best_theme_counter = row.best_theme_counter
                     /\ row'.worst_theme = row.worst_theme
                     /\ row'.worst_theme_counter = row.worst_theme_counter
  <2>1. Kept => ThemesAreExtremes'
    BY DEF ThemesAreExtremes
  <2>2. ASSUME NEW r \in Requests, ExecStreak(r) PROVE ThemesAreExtremes'
    <3> DEFINE th == req[r].theme
               n  == req[r].counter
               B  == row.best_theme_counter
               W  == row.worst_theme_counter
    <3>1. /\ th \in Themes /\ n \in Int /\ req[r].day \in Nat
      BY <2>2, BusyCall DEF ExecStreak
    <3>2. /\ row'.best_theme_counter = IF n > B THEN n ELSE B
          /\ row'.best_theme = IF n > B THEN th ELSE row.best_theme
          /\ row'.worst_theme_counter = IF n < W THEN n ELSE W
          /\ row'.worst_theme = IF n < W THEN th ELSE row.worst_theme
      BY <2>0, <2>2, <3>1, UpdateStreakColumns DEF ExecStreak
    <3>3. seen' = seen \union {<<th, n>>}
      BY <2>2 DEF ExecStreak
    <3>4. B \in Int /\ W \in Int
      BY <2>0, RowFields
    <3>5. ASSUME NEW x \in seen'
          PROVE  row'.worst_theme_counter <= x[2] /\ x[2] <= row'.best_theme_counter
      <4>1. CASE x \in seen
        <5>1. x[2] \in Int
          BY <4>1, UsersAssumption DEF TypeOK
        <5>2. W <= x[2] /\ x[2] <= B
          BY <4>1 DEF ThemesAreExtremes
        <5> QED BY <3>1, <3>2, <3>4, <5>1, <5>2
      <4>2. CASE x = <<th, n>>
        BY <3>1, <3>2, <3>4, <4>2
      <4> QED BY <3>3, <4>1, <4>2
    <3>6. \/ row'.best_theme_counter = 0 /\ row'.best_theme = Empty
          \/ <<row'.best_theme, row'.best_theme_counter>> \in seen'
      <4>1. CASE n > B
        BY <3>2, <3>3, <4>1
      <4>2. CASE ~ (n > B)
        BY <3>2, <3>3, <4>2 DEF ThemesAreExtremes
      <4> QED BY <4>1, <4>2
    <3>7. \/ row'.worst_theme_counter = 0 /\ row'.worst_theme = Empty
          \/ <<row'.worst_theme, row'.worst_theme_counter>> \in seen'
      <4>1. CASE n < W
        BY <3>2, <3>3, <4>1
      <4>2. CASE ~ (n < W)
        BY <3>2, <3>3, <4>2 DEF ThemesAreExtremes
      <4> QED BY <4>1, <4>2
    <3> QED BY <3>5, <3>6, <3>7 DEF ThemesAreExtremes
  <2>3. ASSUME \/ UpdTaskID
               \/ \E l \in Levels : UpdLangLevel(l)
               \/ \E p \in Prompts : UpdSystemPrompt(p)
        PROVE  Kept
    <3>1. /\ \/ row' = UpdateTaskID(row, 1)
             \/ \E l \in Levels : row' = UpdateLangLevel(row, l)
             \/ \E p \in Prompts : row' = UpdateSystemPrompt(row, p)
          /\ UNCHANGED seen
      BY <2>3 DEF UpdTaskID, UpdLangLevel, UpdSystemPrompt
    <3> QED BY <2>0, <3>1, OtherColumns
  <2>4. ASSUME \/ \E r \in Requests : \/ \E th \in Themes, n \in Counters : UpdStreak(r, th, n)
                                      \/ AbortStreak(r)
               \/ NewDay
               \/ UNCHANGED vars
        PROVE  Kept
    BY <2>4 DEF UpdStreak, AbortStreak, NewDay, vars
  <2> QED BY <2>1, <2>2, <2>3, <2>4 DEF Next
<1> QED BY <1>1, <1>2, TypeCorrect, PTL DEF Spec

-----------------------------------------------------------------------------
(* The streak against StreakLedger.                                        *)

Run(D, d) == Ledger!RunEndingAt(D, d)

\* As long as no UPDATE was overtaken, the row holds the run that ends with
\* the latest day.
RowIsRun ==
  IF days = {} THEN row.streak = 0 /\ row.last_done_day = 0
  ELSE /\ row.last_done_day \in days
       /\ \A e \in days : e <= row.last_done_day
       /\ row.streak = Cardinality(Run(days, row.last_done_day))

LedgerInv == IsFiniteSet(days) /\ (~ late => RowIsRun)

\* A later day goes on with the run of the day before, or starts a new one.
LEMMA RunGrows ==
  ASSUME NEW D \in SUBSET Nat, NEW d \in Nat, \A e \in D : e < d
  PROVE  Run(D \union {d}, d) =
           IF d - 1 \in D THEN Run(D, d - 1) \union {d} ELSE {d}
<1> DEFINE E == D \union {d}
<1>1. d \in Run(E, d) /\ Run(E, d) \subseteq E
  <2>1. \A f \in d .. d : f = d
    OBVIOUS
  <2>. QED  BY <2>1 DEF Run, Ledger!RunEndingAt
<1>2. ASSUME NEW e \in D, e \in Run(E, d)  PROVE  d - 1 \in D /\ e \in Run(D, d - 1)
  <2>1. e \in Nat /\ e < d
    OBVIOUS
  <2>2. \A f \in e .. d : f \in E
    BY <1>2 DEF Run, Ledger!RunEndingAt
  <2>3. ASSUME NEW f \in e .. d - 1  PROVE  f \in D
    <3>1. f \in e .. d /\ f # d
      BY <2>1
    <3>. QED  BY <3>1, <2>2
  <2>4. d - 1 \in e .. d - 1
    BY <2>1
  <2>. QED  BY <2>3, <2>4 DEF Run, Ledger!RunEndingAt
<1>3. ASSUME d - 1 \in D, NEW e \in Run(D, d - 1)  PROVE  e \in Run(E, d)
  <2>1. e \in D /\ e \in Nat /\ \A f \in e .. d - 1 : f \in D
    BY <1>3 DEF Run, Ledger!RunEndingAt
  <2>2. ASSUME NEW f \in e .. d  PROVE  f \in E
    <3>1. f = d \/ f \in e .. d - 1
      BY <2>1
    <3>. QED  BY <3>1, <2>1
  <2>. QED  BY <2>1, <2>2 DEF Run, Ledger!RunEndingAt
<1>. QED
  <2>1. CASE d - 1 \in D
    <3>1. ASSUME NEW e \in Run(E, d)  PROVE  e \in Run(D, d - 1) \union {d}
      BY <1>1, <1>2
    <3>. QED  BY <3>1, <1>1, <1>3, <2>1
  <2>2. CASE d - 1 \notin D
    <3>1. ASSUME NEW e \in Run(E, d)  PROVE  e = d
      BY <1>1, <1>2, <2>2
    <3>. QED  BY <3>1, <1>1, <2>2
  <2>. QED  BY <2>1, <2>2

\* The ledger counts as this module does.
LEMMA SameCardinality == \A S : Ledger!Cardinality(S) = Cardinality(S)
BY DEF Cardinality, Ledger!Cardinality

\* The CASE of the UPDATE computes the run from the last one.
LEMMA ExecStreakLedger ==
  ASSUME TypeOK, FreshRow, LedgerInv, NEW r \in Requests, ExecStreak(r), ~ late'
  PROVE  RowIsRun' /\ Ledger!Answer
<1> DEFINE d == req[r].day   old == row.last_done_day
<1>1. ~ late /\ ~ (d < old) /\ days' = days \union {d} /\ req[r].busy
  BY DEF ExecStreak, TypeOK
<1>2. row \in Rows /\ days \subseteq Nat /\ IsFiniteSet(days) /\ RowIsRun
  BY <1>1 DEF TypeOK, LedgerInv
<1>3. /\ req[r].theme \in Themes /\ req[r].counter \in Int
      /\ d \in Nat /\ d >= FirstDay /\ d > 1
  BY <1>1, BusyCall
<1>4. old \in Nat /\ row.streak \in Nat /\ old <= d
  BY <1>1, <1>2, <1>3, RowFields
<1>5. /\ row'.last_done_day = d
      /\ old = d => row'.streak = row.streak
      /\ old = d - 1 => row'.streak = row.streak + 1
      /\ old # d /\ old # d - 1 => row'.streak = 1
  BY ExecStreakColumns
<1>. HIDE DEF d
<1>6. d \in days' /\ \A e \in days' : e <= d
  <2>1. ASSUME NEW e \in days  PROVE  e <= d
    <3>1. e <= old /\ e \in Nat
      BY <1>2 DEF RowIsRun
    <3>. QED  BY <3>1, <1>3, <1>4
  <2>. QED  BY <2>1, <1>1, <1>3
<1>7. row'.streak = Cardinality(Run(days', d))
  <2>1. CASE old = d
    <3>1. days # {}
      BY <2>1, <1>2, <1>3 DEF RowIsRun
    <3>2. d \in days /\ row.streak = Cardinality(Run(days, d))
      BY <2>1, <3>1, <1>2 DEF RowIsRun
    <3>3. days' = days
      BY <3>2, <1>1
    <3>. QED  BY <3>2, <3>3, <2>1, <1>5
  <2>2. CASE old # d
    <3>1. \A e \in days : e < d
      <4>1. ASSUME NEW e \in days  PROVE  e < d
        <5>1. e <= old /\ e \in Nat
          BY <1>2 DEF RowIsRun
        <5>. QED  BY <5>1, <2>2, <1>3, <1>4
      <4>. QED  BY <4>1
    <3>2. days' = days \union {d}
      BY <1>1
    <3>3. Run(days', d) =
            IF d - 1 \in days THEN Run(days, d - 1) \union {d} ELSE {d}
      BY <3>1, <3>2, <1>2, <1>3, RunGrows
    <3>4. CASE old = d - 1
      <4>1. days # {}
        BY <3>4, <1>2, <1>3 DEF RowIsRun
      <4>2. d - 1 \in days /\ row.streak = Cardinality(Run(days, d - 1))
        BY <3>4, <4>1, <1>2 DEF RowIsRun
      <4>3. Run(days, d - 1) \subseteq days
        BY DEF Run, Ledger!RunEndingAt
      <4>4. IsFiniteSet(Run(days, d - 1)) /\ d \notin Run(days, d - 1)
        BY <4>3, <3>1, <1>2, <1>3, FS_Subset
      <4>5. Cardinality(Run(days, d - 1) \union {d}) = Cardinality(Run(days, d - 1)) + 1
        BY <4>4, FS_AddElement
      <4>. QED  BY <4>2, <4>5, <3>3, <3>4, <1>5
    <3>5. CASE old # d - 1
      <4>1. d - 1 \notin days
        <5>1. SUFFICES ASSUME d - 1 \in days  PROVE  FALSE
          OBVIOUS
        <5>2. d - 1 <= old
          BY <5>1, <1>2 DEF RowIsRun
        <5>. QED  BY <5>2, <2>2, <3>5, <1>3, <1>4
      <4>2. Cardinality({d}) = 1
        BY FS_Singleton
      <4>. QED  BY <4>1, <4>2, <3>3, <3>5, <2>2, <1>5
    <3>. QED  BY <3>4, <3>5
  <2>. QED  BY <2>1, <2>2
<1>8. RowIsRun'
  <2>1. days' # {}
    BY <1>6
  <2>. QED  BY <2>1, <1>5, <1>6, <1>7, Zenon DEF RowIsRun, Run, Ledger!RunEndingAt
<1>9. Ledger!Answer
  <2>1. row'.streak = Ledger!Cardinality(Ledger!RunEndingAt(days', row'.last_done_day))
    BY <1>5, <1>7, SameCardinality DEF Run
  <2>2. row'.last_done_day >= row.last_done_day /\ row'.last_done_day >= FirstDay
    BY <1>1, <1>3, <1>4, <1>5
  <2>. QED  BY <2>1, <2>2, <1>1, <1>5, <1>6 DEF Ledger!Answer
<1>. QED  BY <1>8, <1>9

\* Every other step leaves the streak, its day and the history alone.
LEMMA LedgerKept ==
  ASSUME TypeOK, [Next]_vars, ~ \E r \in Requests : ExecStreak(r)
  PROVE  /\ UNCHANGED <<days, late>>
         /\ row'.streak = row.streak /\ row'.last_done_day = row.last_done_day
<1>1. CASE \/ UpdTaskID
           \/ \E l \in Levels : UpdLangLevel(l)
           \/ \E p \in Prompts : UpdSystemPrompt(p)
  <2>1. /\ \/ row' = UpdateTaskID(row, 1)
           \/ \E l \in Levels : row' = UpdateLangLevel(row, l)
           \/ \E p \in Prompts : row' = UpdateSystemPrompt(row, p)
        /\ UNCHANGED <<days, late>>
    BY <1>1 DEF UpdTaskID, UpdLangLevel, UpdSystemPrompt
  <2>2. row \in Rows
    BY DEF TypeOK
  <2>. QED  BY <2>1, <2>2, OtherColumns
<1>2. CASE ~ (\/ UpdTaskID
              \/ \E l \in Levels : UpdLangLevel(l)
              \/ \E p \in Prompts : UpdSystemPrompt(p))
  BY <1>2 DEF Next, UpdStreak, AbortStreak, NewDay, vars
<1>. QED  BY <1>1, <1>2

LEMMA LedgerInductive ==
  ASSUME TypeOK, FreshRow, LedgerInv, [Next]_vars
  PROVE  LedgerInv'
<1>1. CASE \E r \in Requests : ExecStreak(r)
  <2>1. PICK r \in Requests : ExecStreak(r)
    BY <1>1
  <2>2. IsFiniteSet(days')
    BY <2>1, FS_AddElement DEF ExecStreak, LedgerInv
  <2>. QED  BY <2>1, <2>2, ExecStreakLedger DEF LedgerInv
<1>2. CASE ~ \E r \in Requests : ExecStreak(r)
  BY <1>2, LedgerKept DEF LedgerInv, RowIsRun, Run, Ledger!RunEndingAt
<1>. QED  BY <1>1, <1>2

\* UpdateStreak implements the ledger: however many calls are in progress, as
\* long as none is overtaken by one of a later day, each change of the row
\* makes the streak the run of active days that ends with the last one.
THEOREM StreakIsLedger == Spec => LedgerSteps
<1>1. Init => LedgerInv
  BY FS_EmptySet DEF Init, RegUser, LedgerInv, RowIsRun
<1>2. StreakInv /\ LedgerInv /\ [Next]_vars => LedgerInv'
  BY LedgerInductive DEF StreakInv
<1>3. StreakInv /\ LedgerInv /\ [Next]_vars
        => [~ late' => Ledger!Answer]_<<row.streak, row.last_done_day, days>>
  <2>. SUFFICES ASSUME StreakInv, LedgerInv, [Next]_vars, ~ late',
                       ~ UNCHANGED <<row.streak, row.last_done_day, days>>
                PROVE  Ledger!Answer
    OBVIOUS
  <2>1. PICK r \in Requests : ExecStreak(r)
    BY LedgerKept DEF StreakInv
  <2>. QED  BY <2>1, ExecStreakLedger DEF StreakInv
<1>. QED  BY <1>1, <1>2, <1>3, InitStreakInv, NextStreakInv, PTL DEF Spec, LedgerSteps
=============================================================================
