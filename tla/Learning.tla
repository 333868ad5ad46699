------------------------------ MODULE Learning ------------------------------
(***************************************************************************)
(* The learning loop of the gateway: "learning" asks the task at the       *)
(* user's position, the next text is taken as its answer, is scored and,   *)
(* if right, moves the position on.  A handler makes one remote call per   *)
(* step (Redis for the user context, users-service for the row,            *)
(* learn-service for the tasks) and works on the user context it read      *)
(* first.  There is one user, and one handler goroutine per WebSocket:     *)
(* two browser tabs are two connections over the same context and row.     *)
(*                                                                         *)
(* Texts other than an answer, "learning", "/start" and "/stop" belong to  *)
(* module Dialogue, and the day of the streak to module UsersService.      *)
(***************************************************************************)
EXTENDS UserContext, FiniteSets

Row == INSTANCE UsersRow

CONSTANTS Conns,      \* WebSocket connections
          Store,      \* the tasks of the user's level, by position
          Texts,      \* what the user may write as an answer
          MaxAnswers, \* bound: no answer is begun once this many were judged
          MaxFaults   \* bound: failing calls and crashes

Positions == DOMAIN Store

Commands == {"learning", "/start", "/stop"}

ASSUME LearningAssumption ==
  /\ IsFiniteSet(Conns)
  /\ Positions \subseteq Nat \ {0}
  /\ \A p \in Positions : Store[p].answer \in Texts
  /\ Texts \intersect (Commands \union {Empty}) = {}
  /\ MaxAnswers \in Nat /\ MaxFaults \in Nat

VARIABLES ctx,     \* the user context in Redis
          row,     \* the columns of the users row the loop writes
          pc,      \* where each connection's handler is
          msg,     \* the text it handles
          uctx,    \* the user context it read
          pos,     \* the TaskID it read
          faults,  \* history: calls that failed and crashes
          right,   \* history: answers judged right
          wrong,   \* history: answers judged wrong
          rightIn, \* history: answers judged right, by theme
          solved   \* history: the answers among them

handlers == <<pc, msg, uctx, pos>>
history == <<right, wrong, rightIn, solved>>
vars == <<ctx, row, handlers, faults, history>>

Themes == {Store[p].theme : p \in Positions}

\* A context as the loop sees it: either of the two states, with the data of
\* a task or none.
Init ==
  /\ ctx = NoCtx
  /\ row = [task_id |-> 1, best_theme |-> Empty, best_theme_counter |-> 0,
            worst_theme |-> Empty, worst_theme_counter |-> 0]
  /\ pc = [c \in Conns |-> "idle"]
  /\ msg = [c \in Conns |-> Empty]
  /\ uctx = [c \in Conns |-> NoCtx]
  /\ pos = [c \in Conns |-> 0]
  /\ faults = 0
  /\ right = 0 /\ wrong = 0 /\ solved = {}
  /\ rightIn = [th \in Themes \union {Empty} |-> 0]

-----------------------------------------------------------------------------
\* A remote call is carried out and answered (ok), fails before it had an
\* effect (lost), or has its effect while the caller sees an error, for
\* instance because its deadline passed (unseen).
Outcomes == {"ok", "lost", "unseen"}
ReadOutcomes == {"ok", "lost"}

Counted(o) ==
  /\ o # "ok" => faults < MaxFaults
  /\ faults' = IF o = "ok" THEN faults ELSE faults + 1

Effect(o, new, old) == IF o = "lost" THEN old ELSE new

Goto(c, label) == pc' = [pc EXCEPT ![c] = label]

\* The handler returns; its variables are gone.
Finish(c) ==
  /\ Goto(c, "idle")
  /\ msg' = [msg EXCEPT ![c] = Empty]
  /\ uctx' = [uctx EXCEPT ![c] = NoCtx]
  /\ pos' = [pos EXCEPT ![c] = 0]

\* On to the next step, or back with "Something went wrong".
Proceed(c, label) == Goto(c, label) /\ UNCHANGED <<msg, uctx, pos>>

ProceedIfOk(c, o, label) ==
  IF o = "ok" THEN Proceed(c, label) ELSE Finish(c)

\* The task session in the context the handler read, VerifyAnswer's verdict
\* on the text, and the counter after it.
Session(c) == AsTaskSession(uctx[c].data)
Correct(c) == msg[c] = Session(c).answer
\* A variant of Score with the two signs exchanged.
ScoreSwapped(c) == Session(c).counter + (IF Correct(c) THEN -1 ELSE 1)
Score(c) == Session(c).counter + (IF Correct(c) THEN 1 ELSE -1)

-----------------------------------------------------------------------------
Receive(c, m) ==
  /\ pc[c] = "idle"
  /\ m \in Texts => right + wrong < MaxAnswers
  /\ Goto(c, "read")
  /\ msg' = [msg EXCEPT ![c] = m]
  /\ UNCHANGED <<ctx, row, uctx, pos, faults, history>>

\* GetUserCtx, then the switches of handleMessage, handleAdmin and handleUser.
Branch(m, state) ==
  CASE m = "learning"                              -> "data"
    [] m = "/start"                                -> "start"
    [] m \in Texts /\ state = "TaskLearning"       -> "score"
    [] OTHER                                       -> "leave"

GetUserCtx(c) ==
  /\ pc[c] = "read"
  /\ \E o \in ReadOutcomes :
       /\ Counted(o)
       /\ IF o = "ok"
          THEN /\ uctx' = [uctx EXCEPT ![c] = ctx]
               /\ Goto(c, Branch(msg[c], ctx.state))
               /\ UNCHANGED <<msg, pos>>
          ELSE Finish(c)
  /\ UNCHANGED <<ctx, row, history>>

\* "/start": SetUserCtx(StateNone, nil).
Start(c) ==
  /\ pc[c] = "start"
  /\ \E o \in Outcomes :
       /\ Counted(o)
       /\ ctx' = Effect(o, SetUserCtx("None", NoData), ctx)
  /\ Finish(c)
  /\ UNCHANGED <<row, history>>

\* learning: GetData.
GetData(c) ==
  /\ pc[c] = "data"
  /\ \E o \in ReadOutcomes :
       /\ Counted(o)
       /\ IF o = "ok"
          THEN /\ pos' = [pos EXCEPT ![c] = row.task_id]
               /\ Goto(c, "tasks")
               /\ UNCHANGED <<msg, uctx>>
          ELSE Finish(c)
  /\ UNCHANGED <<ctx, row, history>>

\* A variant of GetTasks that has no answer when there is no task.
GetTasksWaits(c) ==
  /\ pc[c] = "tasks"
  /\ pos[c] \in Positions
  /\ \E o \in ReadOutcomes :
       /\ Counted(o)
       /\ ProceedIfOk(c, o, "save")
  /\ UNCHANGED <<ctx, row, history>>

\* learning: GetTasks, "No tasks found" when there is none.
GetTasks(c) ==
  /\ pc[c] = "tasks"
  /\ \E o \in ReadOutcomes :
       /\ Counted(o)
       /\ IF o = "ok" /\ pos[c] \in Positions
          THEN Proceed(c, "save") ELSE Finish(c)
  /\ UNCHANGED <<ctx, row, history>>

\* A variant of SaveTask that goes on when the task could not be saved.
SaveTaskRegardless(c) ==
  /\ pc[c] = "save"
  /\ LET task == Store[pos[c]]
         ses  == TaskSession(task.theme, Session(c).counter, task.answer)
     IN \E o \in Outcomes :
          /\ Counted(o)
          /\ ctx' = Effect(o, UpdateUserDataCtx(ctx, ses), ctx)
  /\ Proceed(c, "enter")
  /\ UNCHANGED <<row, history>>

\* learning: UpdateUserTaskCtx(uctx, theme, answer, 0).
SaveTask(c) ==
  /\ pc[c] = "save"
  /\ LET task == Store[pos[c]]
         ses  == TaskSession(task.theme, Session(c).counter, task.answer)
     IN \E o \in Outcomes :
          /\ Counted(o)
          /\ ctx' = Effect(o, UpdateUserDataCtx(ctx, ses), ctx)
          /\ ProceedIfOk(c, o, "enter")
  /\ UNCHANGED <<row, history>>

\* A variant of EnterLearning that sets the state of another command.
EnterOtherState(c) ==
  /\ pc[c] = "enter"
  /\ \E o \in Outcomes :
       /\ Counted(o)
       /\ ctx' = Effect(o, UpdUserStateCtx(ctx, "TasksAdding"), ctx)
  /\ Finish(c)
  /\ UNCHANGED <<row, history>>

\* learning: UpdUserStateCtx(StateTaskLearning), and the task is sent.
EnterLearning(c) ==
  /\ pc[c] = "enter"
  /\ \E o \in Outcomes :
       /\ Counted(o)
       /\ ctx' = Effect(o, UpdUserStateCtx(ctx, "TaskLearning"), ctx)
  /\ Finish(c)
  /\ UNCHANGED <<row, history>>

\* handleUser, StateTaskLearning: VerifyAnswer, then UpdateUserTaskCtx with the
\* new counter.  Its error is logged and nothing more.
Judge(c) ==
  /\ right' = IF Correct(c) THEN right + 1 ELSE right
  /\ wrong' = IF Correct(c) THEN wrong ELSE wrong + 1
  /\ solved' = IF Correct(c) THEN solved \union {msg[c]} ELSE solved
  /\ rightIn' = IF Correct(c)
                THEN [rightIn EXCEPT ![Session(c).theme] = @ + 1] ELSE rightIn

SaveScore(c) ==
  /\ pc[c] = "score"
  /\ Judge(c)
  /\ LET ses == TaskSession(Session(c).theme, Score(c), Session(c).answer)
     IN \E o \in Outcomes :
          /\ Counted(o)
          /\ ctx' = Effect(o, UpdateUserDataCtx(ctx, ses), ctx)
  /\ Proceed(c, "streak")
  /\ UNCHANGED row

\* Variants of RecordStreak: credit whatever the verdict, credit the wrong
\* answers, report the counter from before the answer.
RecordStreakCreditAny(c) ==
  /\ pc[c] = "streak"
  /\ \E o \in Outcomes :
       /\ Counted(o)
       /\ row' = Effect(o, Row!ThemeColumns(row, Session(c).theme, Score(c)), row)
  /\ Proceed(c, "credit")
  /\ UNCHANGED <<ctx, history>>

RecordStreakCreditWrong(c) ==
  /\ pc[c] = "streak"
  /\ \E o \in Outcomes :
       /\ Counted(o)
       /\ row' = Effect(o, Row!ThemeColumns(row, Session(c).theme, Score(c)), row)
  /\ Proceed(c, IF Correct(c) THEN "leave" ELSE "credit")
  /\ UNCHANGED <<ctx, history>>

RecordStreakOldCounter(c) ==
  /\ pc[c] = "streak"
  /\ \E o \in Outcomes :
       /\ Counted(o)
       /\ row' = Effect(o, Row!ThemeColumns(row, Session(c).theme,
                                            Session(c).counter), row)
  /\ Proceed(c, IF Correct(c) THEN "credit" ELSE "leave")
  /\ UNCHANGED <<ctx, history>>

\* UpdStreak with the new counter; its error is only logged.
RecordStreak(c) ==
  /\ pc[c] = "streak"
  /\ \E o \in Outcomes :
       /\ Counted(o)
       /\ row' = Effect(o, Row!ThemeColumns(row, Session(c).theme, Score(c)), row)
  /\ Proceed(c, IF Correct(c) THEN "credit" ELSE "leave")
  /\ UNCHANGED <<ctx, history>>

\* UpdTaskID(1) after a right answer; its error is only logged.
Credit(c) ==
  /\ pc[c] = "credit"
  /\ \E o \in Outcomes :
       /\ Counted(o)
       /\ row' = Effect(o, Row!UpdateTaskID(row, 1), row)
  /\ Proceed(c, "leave")
  /\ UNCHANGED <<ctx, history>>

\* A variant of Leave that forgets the reset.
LeaveNoReset(c) ==
  /\ pc[c] = "leave"
  /\ Finish(c)
  /\ UNCHANGED <<ctx, row, faults, history>>

\* UpdUserStateCtx(StateNone): the reset after an answer and after a text that
\* no state handles (its error only logged), and "/stop".
Leave(c) ==
  /\ pc[c] = "leave"
  /\ \E o \in Outcomes :
       /\ Counted(o)
       /\ ctx' = Effect(o, UpdUserStateCtx(ctx, "None"), ctx)
  /\ Finish(c)
  /\ UNCHANGED <<row, history>>

\* The key expires 30 minutes after the last write.  A handler that has just
\* written and is about to write again takes far less.
Expire ==
  /\ \A c \in Conns : pc[c] \notin {"enter", "streak", "credit", "leave"}
  /\ ctx' = NoCtx
  /\ UNCHANGED <<row, handlers, faults, history>>

\* The gateway stops and is restarted; Redis and the database keep their state.
Crash ==
  /\ \E c \in Conns : pc[c] # "idle"
  /\ faults < MaxFaults
  /\ faults' = faults + 1
  /\ pc' = [c \in Conns |-> "idle"]
  /\ msg' = [c \in Conns |-> Empty]
  /\ uctx' = [c \in Conns |-> NoCtx]
  /\ pos' = [c \in Conns |-> 0]
  /\ UNCHANGED <<ctx, row, history>>

Step(c) ==
  \/ GetUserCtx(c) \/ Start(c)
  \/ GetData(c) \/ GetTasks(c) \/ SaveTask(c) \/ EnterLearning(c)
  \/ SaveScore(c) \/ RecordStreak(c) \/ Credit(c) \/ Leave(c)

Next ==
  \/ \E c \in Conns :
       \/ \E m \in Commands \union Texts : Receive(c, m)
       \/ Step(c)
  \/ Expire
  \/ Crash

Spec == Init /\ [][Next]_vars

\* A handler that runs makes its next call: every call has a deadline.
FairSpec == Spec /\ \A c \in Conns : WF_vars(Step(c))

-----------------------------------------------------------------------------
Labels == {"idle", "read", "start", "data", "tasks", "save", "enter",
           "score", "streak", "credit", "leave"}

TaskData ==
  [kind : {"task"}, theme : Themes \union {Empty},
   counter : Int, answer : Texts \union {Empty}]

Contexts ==
  [state : {"None", "TaskLearning"}, data : {NoData} \union TaskData]

Rows ==
  [task_id : Nat,
   best_theme : Themes \union {Empty}, best_theme_counter : Nat,
   worst_theme : Themes \union {Empty},
   worst_theme_counter : {i \in Int : i <= 0}]

\* Every variable has its type.
TypeOK ==
  /\ ctx \in Contexts
  /\ row \in Rows
  /\ pc \in [Conns -> Labels]
  /\ msg \in [Conns -> Commands \union Texts \union {Empty}]
  /\ uctx \in [Conns -> Contexts]
  /\ pos \in [Conns -> Nat]
  /\ faults \in Nat /\ right \in Nat /\ wrong \in Nat
  /\ rightIn \in [Themes \union {Empty} -> Nat]
  /\ solved \subseteq Texts

\* The position moves at most once per right answer: neither interleaved
\* connections nor failing calls and crashes advance it without one.
CreditsEarned == row.task_id - 1 <= right

\* No right answer is lost: between messages the position has moved for every
\* one, also when two tabs answered at once, but for those of the handlers a
\* failing call or a crash has hit.
AllIdle == \A c \in Conns : pc[c] = "idle"

CreditsKept ==
  AllIdle => right <= row.task_id - 1 + Cardinality(Conns) * faults

\* The session's counter, and with it the counters of the best and worst
\* theme, never claim more right (wrong) answers than were given, even when
\* handlers overwrite each other's session.
WithinAnswers(n) == -wrong <= n /\ n <= right

CountersEarned ==
  /\ WithinAnswers(AsTaskSession(ctx.data).counter)
  /\ WithinAnswers(row.best_theme_counter)
  /\ WithinAnswers(row.worst_theme_counter)

\* In learning mode the session holds a task of the store, so an answer is
\* never compared with the empty answer of a missing session.  (One connection.)
AskedTaskExists ==
  ctx.state = "TaskLearning" =>
    \E p \in Positions : /\ AsTaskSession(ctx.data).answer = Store[p].answer
                         /\ AsTaskSession(ctx.data).theme = Store[p].theme

\* Between messages the task in the session is the one at the position, as
\* long as no call failed.  (One connection.)
AskedTaskIsCurrent ==
  faults = 0 /\ AllIdle /\ ctx.state = "TaskLearning" =>
    /\ row.task_id \in Positions
    /\ AsTaskSession(ctx.data).answer = Store[row.task_id].answer

\* A failure does bounded harm: the position skips at most one task per
\* failing call or crash, and none without.  (One connection.)
Skipped ==
  {p \in 1 .. row.task_id - 1 :
     ~ (p \in Positions /\ Store[p].answer \in solved)}

SkippedBoundedByFaults == Cardinality(Skipped) <= faults

\* Between messages the row's extremes cover the session's counter, as long as
\* no call failed.  (One connection.)
StatsUpToDate ==
  faults = 0 /\ AllIdle =>
    LET n == AsTaskSession(ctx.data).counter
    IN row.worst_theme_counter <= n /\ n <= row.best_theme_counter

\* The counter stored with the best theme never exceeds the right answers
\* given to tasks of this theme.
BestThemeIsDeserved ==
  row.best_theme_counter <= rightIn[row.best_theme]

\* Every message is handled to its end.
EveryMessageHandled ==
  \A c \in Conns : pc[c] # "idle" ~> pc[c] = "idle"

\* Every right answer moves the position on, unless some call failed.
EveryRightAnswerCredited ==
  \A n \in 1 .. MaxAnswers : right >= n ~> (row.task_id > n \/ faults > 0)
=============================================================================
