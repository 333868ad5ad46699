------------------------------ MODULE UsersRow ------------------------------
(***************************************************************************)
(* The single row of the users table and the UPDATE statements of          *)
(* users-service, as functions from the old row to the new one.  Every     *)
(* CASE of an UPDATE reads the OLD row, as SQL prescribes.                 *)
(***************************************************************************)
EXTENDS Integers

\* The empty string.
Empty == "empty"

\* The row RegUser inserts: the column defaults of init.sql.
RegUser(level) ==
  [level |-> level, task_id |-> 1, streak |-> 0, last_done_day |-> 0,
   best_theme |-> Empty, best_theme_counter |-> 0,
   worst_theme |-> Empty, worst_theme_counter |-> 0,
   system_prompt |-> Empty]

\* Variants of StreakCase: one that does not see missed days, and one that
\* forgets that several answers may fall on the same day.
StreakCaseNoReset(row, day) ==
  IF row.last_done_day = day THEN row.streak ELSE row.streak + 1

StreakCaseNoSameDay(row, day) ==
  IF row.last_done_day = day - 1 THEN row.streak + 1 ELSE 1

\* The CASEs of UpdateStreak; day is the day read before the UPDATE.
StreakCase(row, day) ==
  IF row.last_done_day = day THEN row.streak
  ELSE IF row.last_done_day = day - 1 THEN row.streak + 1
  ELSE 1

BestThemeCntCase(row, counter) ==
  IF counter > row.best_theme_counter THEN counter ELSE row.best_theme_counter

\* A variant of BestThemeCase that reads the counter already assigned.
BestThemeCaseInSequence(row, theme, counter) ==
  IF counter > BestThemeCntCase(row, counter) THEN theme ELSE row.best_theme

BestThemeCase(row, theme, counter) ==
  IF counter > row.best_theme_counter THEN theme ELSE row.best_theme

\* A variant of WorstThemeCntCase with the comparison of the best counter.
WorstThemeCntCaseSwapped(row, counter) ==
  IF counter > row.worst_theme_counter
  THEN counter ELSE row.worst_theme_counter

WorstThemeCntCase(row, counter) ==
  IF counter < row.worst_theme_counter
  THEN counter ELSE row.worst_theme_counter

WorstThemeCase(row, theme, counter) ==
  IF counter < row.worst_theme_counter THEN theme ELSE row.worst_theme

\* The theme columns of the UPDATE.
ThemeColumns(row, theme, counter) ==
  [row EXCEPT !.best_theme          = BestThemeCase(row, theme, counter),
              !.best_theme_counter  = BestThemeCntCase(row, counter),
              !.worst_theme         = WorstThemeCase(row, theme, counter),
              !.worst_theme_counter = WorstThemeCntCase(row, counter)]

\* The whole UPDATE.
UpdateStreak(row, day, theme, counter) ==
  [ThemeColumns(row, theme, counter) EXCEPT
      !.streak = StreakCase(row, day),
      !.last_done_day = day]

\* A variant of UpdateTaskID that stores the summand.
UpdateTaskIDSet(row, add) == [row EXCEPT !.task_id = add]

\* SET task_id = task_id + add, evaluated by the database.
UpdateTaskID(row, add) == [row EXCEPT !.task_id = @ + add]

UpdateLangLevel(row, level) == [row EXCEPT !.level = level]

UpdateSystemPrompt(row, prompt) == [row EXCEPT !.system_prompt = prompt]
=============================================================================
