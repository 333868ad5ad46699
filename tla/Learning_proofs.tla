-------------------------- MODULE Learning_proofs --------------------------
(***************************************************************************)
(* Proofs about Learning, for every set of connections, every store of     *)
(* tasks and every sequence of failing calls, crashes and expiries.        *)
(***************************************************************************)
EXTENDS Learning, FiniteSetTheorems, TLAPS

-----------------------------------------------------------------------------
(* The operations on the user context.                                     *)

LEMMA NoCtxType == NoCtx \in Contexts
BY DEF NoCtx, Contexts

LEMMA SetUserCtxType == SetUserCtx("None", NoData) \in Contexts
BY DEF SetUserCtx, Contexts

LEMMA UpdUserStateType ==
  ASSUME NEW x \in Contexts, NEW s \in {"None", "TaskLearning"}
  PROVE  UpdUserStateCtx(x, s) \in Contexts
BY DEF UpdUserStateCtx, Contexts

LEMMA UpdateUserDataType ==
  ASSUME NEW x \in Contexts, NEW d \in TaskData
  PROVE  UpdateUserDataCtx(x, d) \in Contexts
BY DEF UpdateUserDataCtx, Contexts

LEMMA TaskSessionType ==
  ASSUME NEW th \in Themes \union {Empty}, NEW n \in Int,
         NEW a \in Texts \union {Empty}
  PROVE  /\ TaskSession(th, n, a) \in TaskData
         /\ AsTaskSession(TaskSession(th, n, a)) = TaskSession(th, n, a)
         /\ TaskSession(th, n, a).counter = n
BY DEF TaskSession, TaskData, AsTaskSession

LEMMA AsTaskSessionType ==
  ASSUME NEW x \in Contexts
  PROVE  AsTaskSession(x.data) \in TaskData
<1>1. x.data \in {NoData} \union TaskData
  BY DEF Contexts
<1>2. CASE x.data \in TaskData
  BY <1>2 DEF AsTaskSession, TaskData
<1>3. CASE x.data = NoData
  <2>1. AsTaskSession(x.data) = TaskSession(Empty, 0, Empty)
    BY <1>3 DEF AsTaskSession, NoData
  <2>2. TaskSession(Empty, 0, Empty) \in TaskData
    BY DEF TaskSession, TaskData
  <2> QED BY <2>1, <2>2
<1> QED BY <1>1, <1>2, <1>3

LEMMA SessionType ==
  ASSUME TypeOK, NEW c \in Conns
  PROVE  /\ Session(c) \in TaskData
         /\ Session(c).theme \in Themes \union {Empty}
         /\ Session(c).counter \in Int
         /\ Session(c).answer \in Texts \union {Empty}
         /\ Score(c) \in Int
<1>1. uctx[c] \in Contexts
  BY DEF TypeOK
<1>2. Session(c) \in TaskData
  BY <1>1, AsTaskSessionType DEF Session
<1>3. /\ Session(c).theme \in Themes \union {Empty}
      /\ Session(c).counter \in Int
      /\ Session(c).answer \in Texts \union {Empty}
  BY <1>2 DEF TaskData
<1>4. Score(c) \in Int
  BY <1>3 DEF Score
<1> QED BY <1>2, <1>3, <1>4

-----------------------------------------------------------------------------
(* Type correctness, variable by variable.                                 *)

HandlersOK ==
  /\ pc \in [Conns -> Labels]
  /\ msg \in [Conns -> Commands \union Texts \union {Empty}]
  /\ uctx \in [Conns -> Contexts]
  /\ pos \in [Conns -> Nat]

HistoryOK ==
  /\ right \in Nat /\ wrong \in Nat
  /\ rightIn \in [Themes \union {Empty} -> Nat]
  /\ solved \subseteq Texts

LEMMA TypeParts ==
  TypeOK <=> ctx \in Contexts /\ row \in Rows /\ HandlersOK /\ faults \in Nat
             /\ HistoryOK
BY DEF TypeOK, HandlersOK, HistoryOK

LEMMA FinishType ==
  ASSUME HandlersOK, NEW c \in Conns, Finish(c)
  PROVE  HandlersOK'
<1>1. "idle" \in Labels
  BY DEF Labels
<1> QED BY <1>1, NoCtxType DEF HandlersOK, Finish, Goto

LEMMA ProceedType ==
  ASSUME HandlersOK, NEW c \in Conns, NEW l \in Labels, Proceed(c, l)
  PROVE  HandlersOK'
BY DEF HandlersOK, Proceed, Goto

LEMMA CountedType ==
  ASSUME faults \in Nat, NEW o, Counted(o)
  PROVE  faults' \in Nat
BY DEF Counted

LEMMA EffectType ==
  ASSUME NEW S, NEW o, NEW new \in S, NEW old \in S
  PROVE  Effect(o, new, old) \in S
BY DEF Effect

LEMMA HistoryStutter ==
  ASSUME HistoryOK, UNCHANGED history
  PROVE  HistoryOK'
BY DEF HistoryOK, history
-----------------------------------------------------------------------------
(* The statements on the users row.                                        *)

LEMMA RowFields ==
  ASSUME NEW r \in Rows
  PROVE  /\ r.task_id \in Nat
         /\ r.best_theme \in Themes \union {Empty}
         /\ r.best_theme_counter \in Nat
         /\ r.worst_theme \in Themes \union {Empty}
         /\ r.worst_theme_counter \in Int /\ r.worst_theme_counter <= 0
BY DEF Rows

LEMMA ThemeColumnsType ==
  ASSUME NEW r \in Rows, NEW th \in Themes \union {Empty}, NEW n \in Int
  PROVE  LET u == Row!ThemeColumns(r, th, n)
         IN /\ u \in Rows
            /\ u.task_id = r.task_id
            /\ u.best_theme_counter \in {n, r.best_theme_counter}
            /\ u.worst_theme_counter \in {n, r.worst_theme_counter}
<1> DEFINE bt == Row!BestThemeCase(r, th, n)    bn == Row!BestThemeCntCase(r, n)
           wt == Row!WorstThemeCase(r, th, n)   wn == Row!WorstThemeCntCase(r, n)
<1>0. /\ r.best_theme \in Themes \union {Empty} /\ r.best_theme_counter \in Nat
      /\ r.worst_theme \in Themes \union {Empty}
      /\ r.worst_theme_counter \in Int /\ r.worst_theme_counter <= 0
  BY RowFields
<1>1. /\ bn = IF n > r.best_theme_counter THEN n ELSE r.best_theme_counter
      /\ wn = IF n < r.worst_theme_counter THEN n ELSE r.worst_theme_counter
  BY DEF Row!BestThemeCntCase, Row!WorstThemeCntCase
<1>2. bt \in Themes \union {Empty} /\ wt \in Themes \union {Empty}
  BY <1>0 DEF Row!BestThemeCase, Row!WorstThemeCase
<1>3. Row!ThemeColumns(r, th, n) =
        [r EXCEPT !.best_theme = bt, !.best_theme_counter = bn,
                  !.worst_theme = wt, !.worst_theme_counter = wn]
  BY DEF Row!ThemeColumns
<1> HIDE DEF bt, bn, wt, wn
<1>4. bn \in Nat /\ wn \in {i \in Int : i <= 0}
  BY <1>0, <1>1
<1>5. bn \in {n, r.best_theme_counter} /\ wn \in {n, r.worst_theme_counter}
  BY <1>1
<1> QED BY <1>2, <1>3, <1>4, <1>5 DEF Rows

LEMMA UpdateTaskIDType ==
  ASSUME NEW r \in Rows
  PROVE  LET u == Row!UpdateTaskID(r, 1)
         IN /\ u \in Rows
            /\ u.task_id = r.task_id + 1
            /\ u.best_theme_counter = r.best_theme_counter
            /\ u.worst_theme_counter = r.worst_theme_counter
<1>1. r.task_id \in Nat
  BY RowFields
<1>2. r.task_id + 1 \in Nat
  BY <1>1
<1> QED BY <1>2 DEF Rows, Row!UpdateTaskID

-----------------------------------------------------------------------------
(* Every action keeps the types.                                           *)

LEMMA InitType == Init => TypeOK
<1> SUFFICES ASSUME Init PROVE TypeOK
  OBVIOUS
<1>1. row \in Rows
  BY DEF Init, Rows
<1>2. HandlersOK
  BY NoCtxType DEF Init, HandlersOK, Labels
<1>3. HistoryOK
  BY DEF Init, HistoryOK
<1> QED BY <1>1, <1>2, <1>3, NoCtxType, TypeParts DEF Init

LEMMA BranchType ==
  ASSUME NEW m, NEW s
  PROVE  Branch(m, s) \in Labels
BY DEF Branch, Labels

LEMMA JudgeType ==
  ASSUME TypeOK, NEW c \in Conns, msg[c] \in Texts, Judge(c)
  PROVE  HistoryOK'
<1>1. Session(c).theme \in Themes \union {Empty}
  BY SessionType
<1>2. CASE Correct(c)
  <2>1. right' = right + 1 /\ wrong' = wrong /\ solved' = solved \union {msg[c]}
    BY <1>2 DEF Judge
  <2>2. rightIn' = [rightIn EXCEPT ![Session(c).theme] = @ + 1]
    BY <1>2 DEF Judge
  <2>3. rightIn' \in [Themes \union {Empty} -> Nat]
    BY <1>1, <2>2 DEF TypeOK
  <2> QED BY <2>1, <2>3 DEF TypeOK, HistoryOK
<1>3. CASE ~ Correct(c)
  BY <1>3 DEF Judge, TypeOK, HistoryOK
<1> QED BY <1>2, <1>3
\* Where the types of the handler's variables are narrower.
PcOK ==
  \A c \in Conns : /\ pc[c] = "score" => msg[c] \in Texts
                   /\ pc[c] = "save" => pos[c] \in Positions

TypeInv == TypeOK /\ PcOK

LEMMA FinishPc ==
  ASSUME TypeInv, NEW c \in Conns, Finish(c)
  PROVE  PcOK'
BY DEF TypeInv, TypeOK, PcOK, Finish, Goto

LEMMA ProceedPc ==
  ASSUME TypeInv, NEW c \in Conns, NEW l, l \notin {"score", "save"}, Proceed(c, l)
  PROVE  PcOK'
BY DEF TypeInv, TypeOK, PcOK, Proceed, Goto

LEMMA TypeStep ==
  ASSUME TypeInv, NEW c \in Conns, Step(c)
  PROVE  TypeInv'
<1>0. /\ ctx \in Contexts /\ row \in Rows /\ HandlersOK /\ faults \in Nat
      /\ HistoryOK /\ TypeOK /\ PcOK
  BY TypeParts DEF TypeInv
<1> SUFFICES /\ ctx' \in Contexts /\ row' \in Rows /\ HandlersOK'
             /\ faults' \in Nat /\ HistoryOK' /\ PcOK'
  BY DEF TypeInv, TypeOK, HandlersOK, HistoryOK
<1>1. CASE GetUserCtx(c)
  <2>1. PICK o \in ReadOutcomes :
          /\ Counted(o)
          /\ \/ /\ uctx' = [uctx EXCEPT ![c] = ctx]
                /\ Goto(c, Branch(msg[c], ctx.state))
                /\ UNCHANGED <<msg, pos>>
             \/ Finish(c)
    BY <1>1 DEF GetUserCtx
  <2>2. UNCHANGED <<ctx, row, history>>
    BY <1>1 DEF GetUserCtx
  <2>3. HandlersOK' /\ PcOK'
    <3>1. CASE Finish(c)
      BY <1>0, <3>1, FinishType, FinishPc
    <3>2. CASE /\ uctx' = [uctx EXCEPT ![c] = ctx]
               /\ Goto(c, Branch(msg[c], ctx.state))
               /\ UNCHANGED <<msg, pos>>
      <4>1. Branch(msg[c], ctx.state) \in Labels
        BY BranchType
      <4>2. Branch(msg[c], ctx.state) = "score" => msg[c] \in Texts
        BY DEF Branch
      <4>3. Branch(msg[c], ctx.state) # "save"
        BY DEF Branch
      <4> HIDE DEF Branch
      <4>4. pc' = [pc EXCEPT ![c] = Branch(msg[c], ctx.state)]
        BY <3>2 DEF Goto
      <4>5. HandlersOK'
        BY <1>0, <3>2, <4>1, <4>4 DEF HandlersOK
      <4>6. PcOK'
        BY <1>0, <3>2, <4>2, <4>3, <4>4 DEF PcOK, HandlersOK
      <4> QED BY <4>5, <4>6
    <3> QED BY <2>1, <3>1, <3>2
  <2> QED BY <1>0, <2>1, <2>2, <2>3, CountedType, HistoryStutter
<1>2. CASE Start(c)
  <2>1. PICK o \in Outcomes :
          Counted(o) /\ ctx' = Effect(o, SetUserCtx("None", NoData), ctx)
    BY <1>2 DEF Start
  <2>2. ctx' \in Contexts
    BY <1>0, <2>1, SetUserCtxType, EffectType
  <2>3. HandlersOK' /\ PcOK'
    BY <1>0, <1>2, FinishType, FinishPc DEF Start
  <2> QED BY <1>0, <1>2, <2>1, <2>2, <2>3, CountedType, HistoryStutter DEF Start
<1>3. CASE GetData(c)
  <2>1. PICK o \in ReadOutcomes :
          /\ Counted(o)
          /\ \/ /\ pos' = [pos EXCEPT ![c] = row.task_id]
                /\ Goto(c, "tasks")
                /\ UNCHANGED <<msg, uctx>>
             \/ Finish(c)
    BY <1>3 DEF GetData
  <2>2. HandlersOK' /\ PcOK'
    <3>1. CASE Finish(c)
      BY <1>0, <3>1, FinishType, FinishPc
    <3>2. CASE /\ pos' = [pos EXCEPT ![c] = row.task_id]
               /\ Goto(c, "tasks")
               /\ UNCHANGED <<msg, uctx>>
      <4>1. row.task_id \in Nat /\ "tasks" \in Labels
        BY <1>0, RowFields DEF Labels
      <4>2. HandlersOK'
        BY <1>0, <3>2, <4>1 DEF HandlersOK, Goto
      <4>3. PcOK'
        BY <1>0, <3>2 DEF PcOK, HandlersOK, Goto
      <4> QED BY <4>2, <4>3
    <3> QED BY <2>1, <3>1, <3>2
  <2> QED BY <1>0, <1>3, <2>1, <2>2, CountedType, HistoryStutter DEF GetData
<1>4. CASE GetTasks(c)
  <2>1. PICK o \in ReadOutcomes :
          /\ Counted(o)
          /\ IF o = "ok" /\ pos[c] \in Positions
             THEN Proceed(c, "save") ELSE Finish(c)
    BY <1>4 DEF GetTasks
  <2>2. HandlersOK' /\ PcOK'
    <3>1. CASE Finish(c)
      BY <1>0, <3>1, FinishType, FinishPc
    <3>2. CASE pos[c] \in Positions /\ Proceed(c, "save")
      <4>1. HandlersOK'
        BY <1>0, <3>2, ProceedType DEF Labels
      <4>2. PcOK'
        BY <1>0, <3>2 DEF PcOK, HandlersOK, Proceed, Goto
      <4> QED BY <4>1, <4>2
    <3> QED BY <2>1, <3>1, <3>2
  <2> QED BY <1>0, <1>4, <2>1, <2>2, CountedType, HistoryStutter DEF GetTasks
<1>5. CASE SaveTask(c)
  <2> DEFINE task == Store[pos[c]]
             ses  == TaskSession(task.theme, Session(c).counter, task.answer)
  <2>1. PICK o \in Outcomes :
          /\ Counted(o)
          /\ ctx' = Effect(o, UpdateUserDataCtx(ctx, ses), ctx)
          /\ ProceedIfOk(c, o, "enter")
    BY <1>5 DEF SaveTask
  <2>2. pos[c] \in Positions
    BY <1>0, <1>5 DEF PcOK, SaveTask
  <2>3. task.theme \in Themes /\ task.answer \in Texts
    BY <2>2, LearningAssumption DEF Themes
  <2>4. ses \in TaskData
    BY <1>0, <2>3, SessionType, TaskSessionType
  <2>5. ctx' \in Contexts
    BY <1>0, <2>1, <2>4, UpdateUserDataType, EffectType
  <2>6. HandlersOK' /\ PcOK'
    <3>1. Finish(c) \/ Proceed(c, "enter")
      BY <2>1 DEF ProceedIfOk
    <3>2. "enter" \in Labels
      BY DEF Labels
    <3> QED BY <1>0, <3>1, <3>2, FinishType, FinishPc, ProceedType, ProceedPc
  <2> QED BY <1>0, <1>5, <2>1, <2>5, <2>6, CountedType, HistoryStutter DEF SaveTask
<1>6. CASE EnterLearning(c)
  <2>1. PICK o \in Outcomes :
          Counted(o) /\ ctx' = Effect(o, UpdUserStateCtx(ctx, "TaskLearning"), ctx)
    BY <1>6 DEF EnterLearning
  <2>2. ctx' \in Contexts
    BY <1>0, <2>1, UpdUserStateType, EffectType
  <2>3. HandlersOK' /\ PcOK'
    BY <1>0, <1>6, FinishType, FinishPc DEF EnterLearning
  <2> QED BY <1>0, <1>6, <2>1, <2>2, <2>3, CountedType, HistoryStutter
          DEF EnterLearning
<1>7. CASE SaveScore(c)
  <2> DEFINE ses == TaskSession(Session(c).theme, Score(c), Session(c).answer)
  <2>1. PICK o \in Outcomes :
          Counted(o) /\ ctx' = Effect(o, UpdateUserDataCtx(ctx, ses), ctx)
    BY <1>7 DEF SaveScore
  <2>2. ses \in TaskData
    BY <1>0, SessionType, TaskSessionType
  <2>3. ctx' \in Contexts
    BY <1>0, <2>1, <2>2, UpdateUserDataType, EffectType
  <2>4. HistoryOK'
    <3>0. pc[c] = "score"
      BY <1>7 DEF SaveScore
    <3>1. msg[c] \in Texts
      BY <1>0, <3>0 DEF PcOK
    <3>2. Judge(c)
      BY <1>7 DEF SaveScore
    <3> QED BY <1>0, <3>1, <3>2, JudgeType
  <2>5. HandlersOK' /\ PcOK'
    <3>1. Proceed(c, "streak") /\ "streak" \in Labels
      BY <1>7 DEF SaveScore, Labels
    <3> QED BY <1>0, <3>1, ProceedType, ProceedPc
  <2> QED BY <1>0, <1>7, <2>1, <2>3, <2>4, <2>5, CountedType DEF SaveScore
<1>8. CASE RecordStreak(c)
  <2> DEFINE u == Row!ThemeColumns(row, Session(c).theme, Score(c))
  <2>1. PICK o \in Outcomes : Counted(o) /\ row' = Effect(o, u, row)
    BY <1>8 DEF RecordStreak
  <2>2. u \in Rows
    BY <1>0, SessionType, ThemeColumnsType
  <2>3. row' \in Rows
    BY <1>0, <2>1, <2>2, EffectType
  <2>4. HandlersOK' /\ PcOK'
    <3>1. Proceed(c, "credit") \/ Proceed(c, "leave")
      BY <1>8 DEF RecordStreak
    <3>2. "credit" \in Labels /\ "leave" \in Labels
      BY DEF Labels
    <3> QED BY <1>0, <3>1, <3>2, ProceedType, ProceedPc
  <2> QED BY <1>0, <1>8, <2>1, <2>3, <2>4, CountedType, HistoryStutter
          DEF RecordStreak
<1>9. CASE Credit(c)
  <2>1. PICK o \in Outcomes :
          Counted(o) /\ row' = Effect(o, Row!UpdateTaskID(row, 1), row)
    BY <1>9 DEF Credit
  <2>2. row' \in Rows
    BY <1>0, <2>1, UpdateTaskIDType, EffectType
  <2>3. HandlersOK' /\ PcOK'
    <3>1. Proceed(c, "leave") /\ "leave" \in Labels
      BY <1>9 DEF Credit, Labels
    <3> QED BY <1>0, <3>1, ProceedType, ProceedPc
  <2> QED BY <1>0, <1>9, <2>1, <2>2, <2>3, CountedType, HistoryStutter DEF Credit
<1>10. CASE Leave(c)
  <2>1. PICK o \in Outcomes :
          Counted(o) /\ ctx' = Effect(o, UpdUserStateCtx(ctx, "None"), ctx)
    BY <1>10 DEF Leave
  <2>2. ctx' \in Contexts
    BY <1>0, <2>1, UpdUserStateType, EffectType
  <2>3. HandlersOK' /\ PcOK'
    BY <1>0, <1>10, FinishType, FinishPc DEF Leave
  <2> QED BY <1>0, <1>10, <2>1, <2>2, <2>3, CountedType, HistoryStutter DEF Leave
<1> QED BY <1>1, <1>2, <1>3, <1>4, <1>5, <1>6, <1>7, <1>8, <1>9, <1>10 DEF Step

LEMMA TypeNext == TypeInv /\ [Next]_vars => TypeInv'
<1> SUFFICES ASSUME TypeInv, [Next]_vars PROVE TypeInv'
  OBVIOUS
<1>0. TypeOK /\ PcOK
  BY DEF TypeInv
<1>1. ASSUME NEW c \in Conns, NEW m \in Commands \union Texts, Receive(c, m)
      PROVE  TypeInv'
  BY <1>0, <1>1 DEF Receive, Goto, history, TypeInv, TypeOK, PcOK, Labels
<1>2. ASSUME NEW c \in Conns, Step(c) PROVE TypeInv'
  BY <1>2, TypeStep
<1>3. ASSUME Expire PROVE TypeInv'
  BY <1>0, <1>3, NoCtxType DEF Expire, handlers, history, TypeInv, TypeOK, PcOK
<1>4. ASSUME Crash PROVE TypeInv'
  BY <1>0, <1>4, NoCtxType DEF Crash, history, TypeInv, TypeOK, PcOK, Labels
<1>5. ASSUME UNCHANGED vars PROVE TypeInv'
  BY <1>0, <1>5 DEF vars, handlers, history, TypeInv, TypeOK, PcOK
<1> QED BY <1>1, <1>2, <1>3, <1>4, <1>5 DEF Next

LEMMA InitTypeInv == Init => TypeInv
BY InitType DEF Init, TypeInv, PcOK

\* Every variable always has its type, whatever fails.
THEOREM TypeCorrect == Spec => []TypeOK
<1>1. TypeInv => TypeOK
  BY DEF TypeInv
<1> QED BY <1>1, InitTypeInv, TypeNext, PTL DEF Spec
-----------------------------------------------------------------------------
(* The frame of a handler's step: the other handlers do not move.          *)

OthersKept(c) ==
  \A d \in Conns \ {c} : /\ pc'[d] = pc[d] /\ msg'[d] = msg[d]
                         /\ uctx'[d] = uctx[d] /\ pos'[d] = pos[d]

LEMMA FinishFrame ==
  ASSUME TypeOK, NEW c \in Conns, Finish(c)
  PROVE  OthersKept(c) /\ pc'[c] = "idle" /\ uctx'[c] = NoCtx
BY DEF TypeOK, Finish, Goto, OthersKept

LEMMA ProceedFrame ==
  ASSUME TypeOK, NEW c \in Conns, NEW l, Proceed(c, l)
  PROVE  OthersKept(c) /\ pc'[c] = l /\ msg'[c] = msg[c] /\ uctx'[c] = uctx[c]
BY DEF TypeOK, Proceed, Goto, OthersKept

LEMMA StepFrame ==
  ASSUME TypeOK, NEW c \in Conns, Step(c)
  PROVE  OthersKept(c)
<1>1. CASE GetUserCtx(c)
  <2>1. Finish(c) \/ /\ uctx' = [uctx EXCEPT ![c] = ctx]
                     /\ Goto(c, Branch(msg[c], ctx.state))
                     /\ UNCHANGED <<msg, pos>>
    BY <1>1 DEF GetUserCtx
  <2>2. CASE Finish(c)
    BY <2>2, FinishFrame
  <2>3. CASE ~ Finish(c)
    BY <2>1, <2>3 DEF TypeOK, Goto, OthersKept
  <2> QED BY <2>2, <2>3
<1>2. CASE GetData(c)
  <2>1. Finish(c) \/ /\ pos' = [pos EXCEPT ![c] = row.task_id]
                     /\ Goto(c, "tasks")
                     /\ UNCHANGED <<msg, uctx>>
    BY <1>2 DEF GetData
  <2>2. CASE Finish(c)
    BY <2>2, FinishFrame
  <2>3. CASE ~ Finish(c)
    BY <2>1, <2>3 DEF TypeOK, Goto, OthersKept
  <2> QED BY <2>2, <2>3
<1>3. CASE Start(c) \/ EnterLearning(c) \/ Leave(c)
  BY <1>3, FinishFrame DEF Start, EnterLearning, Leave
<1>4. CASE GetTasks(c)
  <2>1. Finish(c) \/ Proceed(c, "save")
    BY <1>4 DEF GetTasks
  <2> QED BY <2>1, FinishFrame, ProceedFrame
<1>5. CASE SaveTask(c)
  <2>1. Finish(c) \/ Proceed(c, "enter")
    BY <1>5 DEF SaveTask, ProceedIfOk
  <2> QED BY <2>1, FinishFrame, ProceedFrame
<1>6. CASE SaveScore(c)
  <2>1. Proceed(c, "streak")
    BY <1>6 DEF SaveScore
  <2> QED BY <2>1, ProceedFrame
<1>7. CASE RecordStreak(c)
  <2>1. Proceed(c, "credit") \/ Proceed(c, "leave")
    BY <1>7 DEF RecordStreak
  <2> QED BY <2>1, ProceedFrame
<1>8. CASE Credit(c)
  <2>1. Proceed(c, "leave")
    BY <1>8 DEF Credit
  <2> QED BY <2>1, ProceedFrame
<1> QED BY <1>1, <1>2, <1>3, <1>4, <1>5, <1>6, <1>7, <1>8 DEF Step

-----------------------------------------------------------------------------
(* The position.  A right answer judged and not yet credited is a claim on *)
(* the position: the handlers that hold one are Pending.  The position and *)
(* the claims together never exceed the right answers; this is inductive,  *)
(* while CreditsEarned alone is not, for it does not say that a handler    *)
(* about to credit holds an answer nobody else has used.                   *)

Pending ==
  {c \in Conns : pc[c] = "credit" \/ (pc[c] = "streak" /\ Correct(c))}

CreditsInv == row.task_id - 1 + Cardinality(Pending) <= right

LEMMA PendingFinite ==
  /\ IsFiniteSet(Pending) /\ Cardinality(Pending) \in Nat
  /\ IsFiniteSet(Pending') /\ Cardinality(Pending') \in Nat
<1>1. IsFiniteSet(Conns)
  BY LearningAssumption
<1>2. Pending \subseteq Conns /\ Pending' \subseteq Conns
  BY DEF Pending
<1>3. IsFiniteSet(Pending) /\ IsFiniteSet(Pending')
  BY <1>1, <1>2, FS_Subset
<1> QED BY <1>3, FS_CardinalityType

LEMMA PendingOthers ==
  ASSUME NEW c \in Conns, OthersKept(c)
  PROVE  Pending' \ {c} = Pending \ {c}
BY DEF OthersKept, Pending, Correct, Session

\* What a step does to the position, the claims and the answers: nothing, or
\* an answer becomes a claim, or a claim moves the position or fails to.
Moved(t, p, r) ==
  /\ row'.task_id = row.task_id + t
  /\ Cardinality(Pending') = Cardinality(Pending) + p
  /\ right' = right + r

Claims ==
  \/ Moved(0, 0, 0) \/ Moved(0, 1, 1) \/ Moved(1, -1, 0)
  \/ Moved(0, -1, 0) /\ faults' = faults + 1

LEMMA ClaimsStep ==
  ASSUME TypeInv, NEW c \in Conns, Step(c)
  PROVE  Claims
<1>0. /\ TypeOK /\ row \in Rows /\ row.task_id \in Nat /\ right \in Nat
      /\ OthersKept(c) /\ TypeOK' /\ row' \in Rows /\ row'.task_id \in Nat
  <2>1. TypeOK /\ TypeOK'
    BY TypeStep DEF TypeInv
  <2>2. row \in Rows /\ row' \in Rows /\ right \in Nat
    BY <2>1 DEF TypeOK
  <2> QED BY <2>1, <2>2, StepFrame, RowFields
<1>1. Pending' \ {c} = Pending \ {c}
  BY <1>0, PendingOthers
<1> DEFINE n == Cardinality(Pending)
           m == Cardinality(Pending')
<1>2. n \in Nat /\ m \in Nat
  BY PendingFinite
<1>3. CASE SaveScore(c)
  <2>1. row'.task_id = row.task_id /\ c \notin Pending
    BY <1>3 DEF SaveScore, Pending
  <2>2. Proceed(c, "streak") /\ Judge(c)
    BY <1>3 DEF SaveScore
  <2>3. pc'[c] = "streak" /\ (Correct(c)' <=> Correct(c))
    BY <1>0, <2>2, ProceedFrame DEF Correct, Session
  <2>4. CASE Correct(c)
    <3>1. Pending' = Pending \union {c}
      BY <1>1, <2>1, <2>3, <2>4 DEF Pending
    <3>2. m = n + 1
      BY <2>1, <3>1, PendingFinite, FS_AddElement
    <3>3. right' = right + 1
      BY <2>2, <2>4 DEF Judge
    <3> QED BY <1>0, <1>2, <2>1, <3>2, <3>3 DEF Claims, Moved
  <2>5. CASE ~ Correct(c)
    <3>1. Pending' = Pending
      BY <1>1, <2>1, <2>3, <2>5 DEF Pending
    <3>2. right' = right
      BY <2>2, <2>5 DEF Judge
    <3> QED BY <1>0, <1>2, <2>1, <3>1, <3>2 DEF Claims, Moved
  <2> QED BY <2>4, <2>5
<1>4. CASE RecordStreak(c)
  <2>1. row'.task_id = row.task_id
    <3>1. PICK o \in Outcomes :
            row' = Effect(o, Row!ThemeColumns(row, Session(c).theme, Score(c)), row)
      BY <1>4 DEF RecordStreak
    <3> QED BY <1>0, <3>1, SessionType, ThemeColumnsType DEF Effect
  <2>2. Proceed(c, IF Correct(c) THEN "credit" ELSE "leave")
    BY <1>4 DEF RecordStreak
  <2>3. pc[c] = "streak" /\ pc'[c] = IF Correct(c) THEN "credit" ELSE "leave"
    BY <1>0, <1>4, <2>2, ProceedFrame DEF RecordStreak
  <2>4. Pending' = Pending
    BY <1>1, <2>3 DEF Pending
  <2>5. right' = right
    BY <1>4 DEF RecordStreak, history
  <2> QED BY <1>0, <1>2, <2>1, <2>4, <2>5 DEF Claims, Moved
<1>5. CASE Credit(c)
  <2>1. \/ row'.task_id = row.task_id + 1
        \/ row'.task_id = row.task_id /\ faults' = faults + 1
    <3>1. PICK o \in Outcomes : /\ Counted(o)
                               /\ row' = Effect(o, Row!UpdateTaskID(row, 1), row)
      BY <1>5 DEF Credit
    <3>2. CASE o = "lost"
      BY <3>1, <3>2 DEF Counted, Effect
    <3>3. CASE o # "lost"
      BY <1>0, <3>1, <3>3, UpdateTaskIDType DEF Effect
    <3> QED BY <3>2, <3>3
  <2>2. pc[c] = "credit" /\ Proceed(c, "leave") /\ right' = right
    BY <1>5 DEF Credit, history
  <2>3. pc'[c] = "leave"
    BY <1>0, <2>2, ProceedFrame
  <2>4. c \in Pending /\ Pending' = Pending \ {c}
    BY <1>1, <2>2, <2>3 DEF Pending
  <2>5. m = n - 1
    BY <2>4, PendingFinite, FS_RemoveElement
  <2> QED BY <1>0, <1>2, <2>1, <2>2, <2>5 DEF Claims, Moved
<1>6. ASSUME c \notin Pending, c \notin Pending', UNCHANGED <<row, right>>
      PROVE  Claims
  <2>1. Pending' = Pending
    BY <1>1, <1>6
  <2> QED BY <1>0, <1>2, <1>6, <2>1 DEF Claims, Moved
<1>7. CASE GetUserCtx(c)
  <2>1. pc[c] = "read" /\ UNCHANGED <<row, right>>
    BY <1>7 DEF GetUserCtx, history
  <2>2. pc'[c] = "idle" \/ pc'[c] = Branch(msg[c], ctx.state)
    BY <1>0, <1>7, FinishFrame DEF GetUserCtx, Goto, TypeOK
  <2>3. Branch(msg[c], ctx.state) \notin {"streak", "credit"}
    BY DEF Branch
  <2> QED BY <1>6, <2>1, <2>2, <2>3 DEF Pending
<1>8. CASE GetData(c)
  <2>1. pc[c] = "data" /\ UNCHANGED <<row, right>>
    BY <1>8 DEF GetData, history
  <2>2. pc'[c] = "idle" \/ pc'[c] = "tasks"
    BY <1>0, <1>8, FinishFrame DEF GetData, Goto, TypeOK
  <2> QED BY <1>6, <2>1, <2>2 DEF Pending
<1>9. CASE GetTasks(c)
  <2>1. pc[c] = "tasks" /\ UNCHANGED <<row, right>>
    BY <1>9 DEF GetTasks, history
  <2>2. Finish(c) \/ Proceed(c, "save")
    BY <1>9 DEF GetTasks
  <2>3. pc'[c] = "idle" \/ pc'[c] = "save"
    BY <1>0, <2>2, FinishFrame, ProceedFrame
  <2> QED BY <1>6, <2>1, <2>3 DEF Pending
<1>10. CASE SaveTask(c)
  <2>1. pc[c] = "save" /\ UNCHANGED <<row, right>>
    BY <1>10 DEF SaveTask, history
  <2>2. Finish(c) \/ Proceed(c, "enter")
    BY <1>10 DEF SaveTask, ProceedIfOk
  <2>3. pc'[c] = "idle" \/ pc'[c] = "enter"
    BY <1>0, <2>2, FinishFrame, ProceedFrame
  <2> QED BY <1>6, <2>1, <2>3 DEF Pending
<1>11. CASE Start(c) \/ EnterLearning(c) \/ Leave(c)
  <2>1. pc[c] \in {"start", "enter", "leave"} /\ Finish(c) /\ UNCHANGED <<row, right>>
    BY <1>11 DEF Start, EnterLearning, Leave, history
  <2>2. pc'[c] = "idle"
    BY <1>0, <2>1, FinishFrame
  <2> QED BY <1>6, <2>1, <2>2 DEF Pending
<1> QED BY <1>3, <1>4, <1>5, <1>7, <1>8, <1>9, <1>10, <1>11 DEF Step

\* A crash gives up all claims.
Abandoned ==
  UNCHANGED <<row, right>> /\ Cardinality(Pending') = 0 /\ faults' = faults + 1

LEMMA ClaimsNext == TypeInv /\ [Next]_vars => Claims \/ Abandoned
<1> SUFFICES ASSUME TypeInv, [Next]_vars PROVE Claims \/ Abandoned
  OBVIOUS
<1>0. /\ TypeOK /\ row.task_id \in Nat /\ right \in Nat
      /\ Cardinality(Pending) \in Nat
  BY RowFields, PendingFinite DEF TypeInv, TypeOK
<1>1. ASSUME NEW c \in Conns, NEW m \in Commands \union Texts, Receive(c, m)
      PROVE  Claims
  <2>1. OthersKept(c) /\ pc[c] = "idle" /\ pc'[c] = "read" /\ UNCHANGED <<row, right>>
    BY <1>0, <1>1 DEF Receive, Goto, OthersKept, TypeOK, history
  <2>2. c \notin Pending /\ c \notin Pending'
    BY <2>1 DEF Pending
  <2>3. Pending' = Pending
    BY <2>1, <2>2, PendingOthers
  <2> QED BY <1>0, <2>1, <2>3 DEF Claims, Moved
<1>2. ASSUME NEW c \in Conns, Step(c) PROVE Claims
  BY <1>2, ClaimsStep
<1>3. ASSUME Expire \/ UNCHANGED vars PROVE Claims
  <2>1. UNCHANGED <<row, right, pc, msg, uctx>>
    BY <1>3 DEF Expire, vars, handlers, history
  <2>2. Pending' = Pending
    BY <2>1 DEF Pending, Correct, Session
  <2> QED BY <1>0, <2>1, <2>2 DEF Claims, Moved
<1>4. ASSUME Crash PROVE Abandoned
  <2>1. Pending' = {} /\ UNCHANGED <<row, right>>
    BY <1>4 DEF Crash, Pending, history
  <2>2. Cardinality(Pending') = 0
    BY <2>1, FS_EmptySet
  <2> QED BY <1>4, <2>1, <2>2 DEF Crash, Abandoned
<1> QED BY <1>1, <1>2, <1>3, <1>4 DEF Next

LEMMA CreditsNext == TypeInv /\ CreditsInv /\ [Next]_vars => CreditsInv'
<1> SUFFICES ASSUME TypeInv, CreditsInv, [Next]_vars PROVE CreditsInv'
  OBVIOUS
<1>0. /\ row.task_id \in Nat /\ right \in Nat
      /\ Cardinality(Pending) \in Nat
  BY RowFields, PendingFinite DEF TypeInv, TypeOK
<1>1. CASE Claims
  BY <1>0, <1>1 DEF Claims, Moved, CreditsInv
<1>2. CASE Abandoned
  BY <1>0, <1>2 DEF Abandoned, CreditsInv
<1> QED BY <1>1, <1>2, ClaimsNext

\* The position never moves without a right answer, for any number of
\* connections and whatever fails.
THEOREM CreditsAreEarned == Spec => []CreditsEarned
<1>1. Init => CreditsInv
  <2> SUFFICES ASSUME Init PROVE CreditsInv
    OBVIOUS
  <2>1. Pending = {}
    BY DEF Init, Pending
  <2>2. Cardinality(Pending) = 0
    BY <2>1, FS_EmptySet
  <2>3. row.task_id = 1 /\ right = 0
    BY DEF Init
  <2> QED BY <2>2, <2>3 DEF CreditsInv
<1>2. TypeInv /\ CreditsInv => CreditsEarned
  <2> SUFFICES ASSUME TypeInv, CreditsInv PROVE CreditsEarned
    OBVIOUS
  <2>1. row \in Rows /\ right \in Nat
    BY DEF TypeInv, TypeOK
  <2>2. row.task_id \in Nat
    BY <2>1, RowFields
  <2> QED BY <2>1, <2>2, PendingFinite DEF CreditsInv, CreditsEarned
<1> QED BY <1>1, <1>2, InitTypeInv, TypeNext, CreditsNext, PTL DEF Spec

\* The other way round: an answer is a claim until it has moved the position,
\* and the claims given up are paid for by failures.  The one of a crash pays
\* for those of all connections.
KeptInv ==
  right <= row.task_id - 1 + Cardinality(Pending) + Cardinality(Conns) * faults

LEMMA ConnsSize ==
  /\ Cardinality(Conns) \in Nat /\ Cardinality(Pending) <= Cardinality(Conns)
  /\ Conns # {} => Cardinality(Conns) >= 1
<1>1. IsFiniteSet(Conns) /\ Pending \in SUBSET Conns
  BY LearningAssumption DEF Pending
<1>2. /\ Cardinality(Conns) \in Nat /\ Cardinality(Pending) <= Cardinality(Conns)
      /\ Cardinality(Conns) = 0 <=> Conns = {}
  BY <1>1, FS_CardinalityType, FS_Subset, FS_EmptySet
<1> QED BY <1>2

LEMMA FaultsNext == [Next]_vars => faults' = faults \/ faults' = faults + 1
<1> SUFFICES ASSUME [Next]_vars PROVE faults' = faults \/ faults' = faults + 1
  OBVIOUS
<1>1. ASSUME NEW c \in Conns, Step(c) PROVE faults' = faults \/ faults' = faults + 1
  BY <1>1 DEF Step, GetUserCtx, Start, GetData, GetTasks, SaveTask, EnterLearning,
              SaveScore, RecordStreak, Credit, Leave, Counted
<1> QED BY <1>1 DEF Next, Receive, Expire, Crash, vars

LEMMA OneMore ==
  ASSUME NEW n \in Nat, NEW k \in Nat
  PROVE  n * k \in Nat /\ n * (k + 1) = n * k + n
  OBVIOUS

LEMMA KeptNext ==
  TypeInv /\ TypeInv' /\ KeptInv /\ [Next]_vars => KeptInv'
<1> SUFFICES ASSUME TypeInv, TypeInv', KeptInv, [Next]_vars PROVE KeptInv'
  OBVIOUS
<1> DEFINE n == Cardinality(Conns)
           p == Cardinality(Pending)
           q == Cardinality(Pending')
           paid == n * faults
           pays == n * faults'
<1>0. /\ row.task_id \in Nat /\ right \in Nat /\ faults \in Nat /\ faults' \in Nat
      /\ n \in Nat /\ p \in Nat /\ q \in Nat /\ p <= n
  BY RowFields, PendingFinite, ConnsSize DEF TypeInv, TypeOK
<1>1. right <= row.task_id - 1 + p + paid
  BY DEF KeptInv
<1>2. faults' = faults \/ faults' = faults + 1
  BY FaultsNext
<1>3. SUFFICES right' <= row'.task_id - 1 + q + pays
  BY DEF KeptInv
<1> HIDE DEF n, p, q
<1>4. /\ paid \in Nat /\ pays \in Nat
      /\ faults' = faults => pays = paid
      /\ faults' = faults + 1 => pays = paid + n
  BY <1>0, OneMore
<1> HIDE DEF paid, pays
<1>5. pays >= paid
  BY <1>0, <1>2, <1>4
<1>6. CASE Claims
  <2>1. CASE Moved(0, 0, 0) \/ Moved(0, 1, 1) \/ Moved(1, -1, 0)
    <3>1. row'.task_id - 1 + q - right' = row.task_id - 1 + p - right
      BY <1>0, <2>1 DEF Moved, p, q
    <3>2. right' \in Nat /\ row'.task_id \in Nat
      BY <1>0, <2>1 DEF Moved
    <3> QED BY <1>0, <1>1, <1>4, <1>5, <3>1, <3>2
  <2>2. CASE Moved(0, -1, 0) /\ faults' = faults + 1
    <3>1. row'.task_id = row.task_id /\ right' = right /\ q = p - 1
      BY <1>0, <2>2 DEF Moved, p, q
    <3> QED BY <1>0, <1>1, <1>4, <2>2, <3>1
  <2> QED BY <1>6, <2>1, <2>2 DEF Claims
<1>7. CASE Abandoned
  <2>1. row'.task_id = row.task_id /\ right' = right /\ q = 0
    BY <1>7 DEF Abandoned, q
  <2> QED BY <1>0, <1>1, <1>4, <1>7, <2>1 DEF Abandoned
<1> QED BY <1>6, <1>7, ClaimsNext

\* No right answer is lost but by a failure, for any number of connections.
THEOREM CreditsAreKept == Spec => []CreditsKept
<1>1. Init => KeptInv
  <2> SUFFICES ASSUME Init PROVE KeptInv
    OBVIOUS
  <2>1. Pending = {}
    BY DEF Init, Pending
  <2>2. /\ Cardinality(Pending) = 0 /\ row.task_id = 1 /\ right = 0
        /\ Cardinality(Conns) * faults = 0
    BY <2>1, FS_EmptySet, ConnsSize DEF Init
  <2> QED BY <2>2 DEF KeptInv
<1>2. TypeInv /\ KeptInv => CreditsKept
  <2> SUFFICES ASSUME TypeInv, KeptInv, AllIdle PROVE
               right <= row.task_id - 1 + Cardinality(Conns) * faults
    BY DEF CreditsKept
  <2>1. Pending = {}
    BY DEF AllIdle, Pending
  <2>2. Cardinality(Pending) = 0
    BY <2>1, FS_EmptySet
  <2>3. row.task_id \in Nat /\ faults \in Nat /\ Cardinality(Conns) \in Nat
    BY RowFields, ConnsSize DEF TypeInv, TypeOK
  <2>4. Cardinality(Conns) * faults \in Nat
    BY <2>3
  <2> QED BY <2>2, <2>3, <2>4 DEF KeptInv
<1> QED BY <1>1, <1>2, InitTypeInv, TypeNext, KeptNext, PTL DEF Spec
-----------------------------------------------------------------------------
(* The counters.  Every handler computes the new counter from the session  *)
(* it read, however stale, so the bound has to hold of these copies too,   *)
(* and of the counter a handler is about to report.                        *)

CtxCounter == AsTaskSession(ctx.data).counter

Own(c) == /\ WithinAnswers(Session(c).counter)
          /\ pc[c] = "streak" => WithinAnswers(Score(c))

CountersInv == CountersEarned /\ \A c \in Conns : Own(c)

\* More answers only widen the bound.
LEMMA Widen ==
  ASSUME HistoryOK, HistoryOK', right <= right', wrong <= wrong',
         NEW n \in Int, WithinAnswers(n)
  PROVE  -wrong' <= n /\ n <= right'
<1>1. -wrong <= n /\ n <= right
  BY DEF WithinAnswers
<1>2. right \in Nat /\ wrong \in Nat /\ right' \in Nat /\ wrong' \in Nat
  BY DEF HistoryOK
<1>3. ASSUME NEW w \in Nat, NEW v \in Nat, w <= v, -w <= n
      PROVE  -v <= n
  BY <1>3
<1>4. ASSUME NEW w \in Nat, NEW v \in Nat, w <= v, n <= w
      PROVE  n <= v
  BY <1>4
<1>5. -wrong' <= n
  BY <1>1, <1>2, <1>3
<1>6. n <= right'
  BY <1>1, <1>2, <1>4
<1> QED BY <1>5, <1>6

LEMMA CounterTypes ==
  ASSUME TypeOK
  PROVE  /\ CtxCounter \in Int
         /\ row.best_theme_counter \in Int /\ row.worst_theme_counter \in Int
         /\ right \in Nat /\ wrong \in Nat
<1>1. ctx \in Contexts /\ row \in Rows /\ right \in Nat /\ wrong \in Nat
  BY DEF TypeOK
<1>2. AsTaskSession(ctx.data) \in TaskData
  BY <1>1, AsTaskSessionType
<1>3. CtxCounter \in Int
  BY <1>2 DEF CtxCounter, TaskData
<1> QED BY <1>1, <1>3, RowFields

\* The other handlers keep their bound.
LEMMA OwnOthers ==
  ASSUME TypeOK, TypeOK', right <= right', wrong <= wrong',
         NEW c \in Conns, OthersKept(c),
         NEW d \in Conns \ {c}, Own(d)
  PROVE  Own(d)'
<1>1. /\ pc'[d] = pc[d] /\ Session(d)' = Session(d) /\ Score(d)' = Score(d)
  BY DEF OthersKept, Session, Score, Correct
<1>2. Session(d).counter \in Int /\ Score(d) \in Int /\ HistoryOK /\ HistoryOK'
  BY SessionType DEF TypeOK, HistoryOK
<1>3. WithinAnswers(Session(d).counter)'
  BY <1>1, <1>2, Widen DEF Own, WithinAnswers
<1>4. pc'[d] = "streak" => WithinAnswers(Score(d))'
  BY <1>1, <1>2, Widen DEF Own, WithinAnswers
<1> QED BY <1>3, <1>4 DEF Own

\* A handler that returned has the empty session.
LEMMA OwnFinished ==
  ASSUME TypeOK', NEW c \in Conns, pc'[c] = "idle", uctx'[c] = NoCtx
  PROVE  Own(c)'
<1>1. Session(c)'.counter = 0
  BY DEF Session, NoCtx, NoData, AsTaskSession, TaskSession
<1>2. right' \in Nat /\ wrong' \in Nat
  BY DEF TypeOK
<1>3. ASSUME NEW w \in Nat, NEW v \in Nat
      PROVE  -w <= 0 /\ 0 <= v
  OBVIOUS
<1>4. -wrong' <= 0 /\ 0 <= right'
  BY <1>2, <1>3, Zenon
<1> QED BY <1>1, <1>4 DEF Own, WithinAnswers

\* A handler that goes on with the session it has.
LEMMA OwnKept ==
  ASSUME NEW c \in Conns, Own(c), UNCHANGED <<right, wrong>>,
         uctx'[c] = uctx[c], pc'[c] # "streak"
  PROVE  Own(c)'
BY DEF Own, Session, WithinAnswers

\* What a write makes of the counter in the context.
LEMMA DataCounter ==
  ASSUME NEW x \in Contexts, NEW d \in TaskData, NEW o
  PROVE  AsTaskSession(Effect(o, UpdateUserDataCtx(x, d), x).data).counter
           \in {d.counter, AsTaskSession(x.data).counter}
<1>1. UpdateUserDataCtx(x, d).data = d
  BY DEF UpdateUserDataCtx, Contexts
<1>2. AsTaskSession(d) = d
  BY DEF AsTaskSession, TaskData
<1> QED BY <1>1, <1>2 DEF Effect

LEMMA StateCounter ==
  ASSUME NEW x \in Contexts, NEW s, NEW o
  PROVE  AsTaskSession(Effect(o, UpdUserStateCtx(x, s), x).data).counter
           = AsTaskSession(x.data).counter
<1>1. UpdUserStateCtx(x, s).data = x.data
  BY DEF UpdUserStateCtx, Contexts
<1> QED BY <1>1 DEF Effect

LEMMA NoDataCounter ==
  /\ AsTaskSession(NoCtx.data).counter = 0
  /\ AsTaskSession(SetUserCtx("None", NoData).data).counter = 0
BY DEF NoCtx, NoData, SetUserCtx, AsTaskSession, TaskSession

LEMMA CountersStep ==
  ASSUME TypeInv, CountersInv, NEW c \in Conns, Step(c)
  PROVE  CountersInv'
<1>0. /\ TypeOK /\ TypeOK' /\ OthersKept(c)
      /\ ctx \in Contexts /\ row \in Rows
      /\ CtxCounter \in Int /\ right \in Nat /\ wrong \in Nat
      /\ row.best_theme_counter \in Int /\ row.worst_theme_counter \in Int
  <2>1. TypeOK /\ TypeOK'
    BY TypeStep DEF TypeInv
  <2> QED BY <2>1, StepFrame, CounterTypes DEF TypeOK
<1>1. /\ WithinAnswers(CtxCounter)
      /\ WithinAnswers(row.best_theme_counter)
      /\ WithinAnswers(row.worst_theme_counter)
      /\ \A d \in Conns : Own(d)
      /\ Own(c)
  BY DEF CountersInv, CountersEarned, CtxCounter
<1>2. WithinAnswers(0)
  BY <1>0 DEF WithinAnswers
<1>3. CASE SaveScore(c)
  <2> DEFINE ses == TaskSession(Session(c).theme, Score(c), Session(c).answer)
  <2>1. PICK o \in Outcomes : ctx' = Effect(o, UpdateUserDataCtx(ctx, ses), ctx)
    BY <1>3 DEF SaveScore
  <2>2. Judge(c) /\ Proceed(c, "streak") /\ row' = row
    BY <1>3 DEF SaveScore
  <2>3. Session(c).counter \in Int /\ Score(c) \in Int
    BY <1>0, SessionType
  <2>4. right' \in Nat /\ wrong' \in Nat /\ right <= right' /\ wrong <= wrong'
    BY <1>0, <2>2 DEF Judge
  <2>5. -wrong' <= Score(c) /\ Score(c) <= right'
    <3>1. -wrong <= Session(c).counter /\ Session(c).counter <= right
      BY <1>1 DEF Own, WithinAnswers
    <3>2. CASE Correct(c)
      <4>1. right' = right + 1 /\ wrong' = wrong
        BY <2>2, <3>2 DEF Judge
      <4>2. Score(c) = Session(c).counter + 1
        BY <3>2 DEF Score
      <4> QED BY <1>0, <2>3, <3>1, <4>1, <4>2
    <3>3. CASE ~ Correct(c)
      <4>1. right' = right /\ wrong' = wrong + 1
        BY <2>2, <3>3 DEF Judge
      <4>2. Score(c) = Session(c).counter + (-1)
        BY <3>3 DEF Score
      <4> QED BY <1>0, <2>3, <3>1, <4>1, <4>2
    <3> QED BY <3>2, <3>3
  <2>6. HistoryOK /\ HistoryOK'
    BY <1>0 DEF TypeOK, HistoryOK
  <2>7. CountersEarned'
    <3>1. ses \in TaskData /\ ses.counter = Score(c)
      BY <1>0, SessionType, TaskSessionType
    <3> HIDE DEF ses
    <3>2. AsTaskSession(ctx'.data).counter \in {Score(c), CtxCounter}
      BY <1>0, <2>1, <3>1, DataCounter DEF CtxCounter
    <3>3. /\ -wrong' <= CtxCounter /\ CtxCounter <= right'
          /\ -wrong' <= row.best_theme_counter /\ row.best_theme_counter <= right'
          /\ -wrong' <= row.worst_theme_counter /\ row.worst_theme_counter <= right'
      BY <1>0, <1>1, <2>4, <2>6, Widen
    <3> QED BY <2>2, <2>5, <3>2, <3>3 DEF CountersEarned, WithinAnswers
  <2>8. Own(c)'
    <3>1. Session(c)' = Session(c) /\ Score(c)' = Score(c)
      BY <1>0, <2>2, ProceedFrame DEF Session, Score, Correct
    <3>2. -wrong' <= Session(c).counter /\ Session(c).counter <= right'
      BY <1>1, <2>3, <2>4, <2>6, Widen DEF Own
    <3> QED BY <2>5, <3>1, <3>2 DEF Own, WithinAnswers
  <2>9. ASSUME NEW d \in Conns PROVE Own(d)'
    BY <1>0, <1>1, <2>4, <2>8, OwnOthers
  <2> QED BY <2>7, <2>9 DEF CountersInv
  \* The other actions judge nothing: it remains to bound the context's
  \* counter, the row's counters and the handler's own ones.
<1>4. ASSUME UNCHANGED <<right, wrong>>,
             CtxCounter' \in {CtxCounter, Session(c).counter, 0},
             row'.best_theme_counter \in {row.best_theme_counter, Score(c)},
             row'.worst_theme_counter \in {row.worst_theme_counter, Score(c)},
             UNCHANGED <<row.best_theme_counter, row.worst_theme_counter>>
               \/ pc[c] = "streak",
             Own(c)'
      PROVE  CountersInv'
  <2>1. WithinAnswers(CtxCounter)'
    BY <1>1, <1>2, <1>4 DEF Own, WithinAnswers
  <2>2. /\ WithinAnswers(row.best_theme_counter)'
        /\ WithinAnswers(row.worst_theme_counter)'
    BY <1>1, <1>4 DEF Own, WithinAnswers
  <2>3. ASSUME NEW d \in Conns PROVE Own(d)'
    BY <1>0, <1>1, <1>4, OwnOthers
  <2> QED BY <2>1, <2>2, <2>3 DEF CountersInv, CountersEarned, CtxCounter
<1>5. CASE GetUserCtx(c)
  <2>1. UNCHANGED <<ctx, row, right, wrong>>
    BY <1>5 DEF GetUserCtx, history
  <2>2. Own(c)'
    <3>1. CASE Finish(c)
      BY <1>0, <3>1, FinishFrame, OwnFinished
    <3>2. CASE ~ Finish(c)
      <4>1. uctx'[c] = ctx /\ pc'[c] = Branch(msg[c], ctx.state)
        BY <1>0, <1>5, <3>2 DEF GetUserCtx, Goto, TypeOK
      <4>2. pc'[c] # "streak"
        BY <4>1 DEF Branch
      <4> QED BY <1>1, <2>1, <4>1, <4>2 DEF Own, Session, CtxCounter, WithinAnswers
    <3> QED BY <3>1, <3>2
  <2> QED BY <1>4, <2>1, <2>2 DEF CtxCounter
<1>6. CASE GetData(c)
  <2>1. UNCHANGED <<ctx, row, right, wrong>>
    BY <1>6 DEF GetData, history
  <2>2. Own(c)'
    <3>1. CASE Finish(c)
      BY <1>0, <3>1, FinishFrame, OwnFinished
    <3>2. CASE ~ Finish(c)
      <4>1. uctx'[c] = uctx[c] /\ pc'[c] = "tasks"
        BY <1>0, <1>6, <3>2 DEF GetData, Goto, TypeOK
      <4> QED BY <1>1, <2>1, <4>1, OwnKept
    <3> QED BY <3>1, <3>2
  <2> QED BY <1>4, <2>1, <2>2 DEF CtxCounter
<1>7. ASSUME NEW l, l # "streak", Finish(c) \/ Proceed(c, l), UNCHANGED <<right, wrong>>
      PROVE  Own(c)'
  <2>1. CASE Finish(c)
    BY <1>0, <2>1, FinishFrame, OwnFinished
  <2>2. CASE Proceed(c, l)
    BY <1>0, <1>1, <1>7, <2>2, ProceedFrame, OwnKept
  <2> QED BY <1>7, <2>1, <2>2
<1>8. CASE GetTasks(c)
  <2>1. (Finish(c) \/ Proceed(c, "save")) /\ UNCHANGED <<ctx, row, right, wrong>>
    BY <1>8 DEF GetTasks, history
  <2>2. Own(c)'
    BY <1>7, <2>1
  <2> QED BY <1>4, <2>1, <2>2 DEF CtxCounter
<1>9. CASE SaveTask(c)
  <2> DEFINE task == Store[pos[c]]
             ses  == TaskSession(task.theme, Session(c).counter, task.answer)
  <2>1. PICK o \in Outcomes : ctx' = Effect(o, UpdateUserDataCtx(ctx, ses), ctx)
    BY <1>9 DEF SaveTask
  <2>2. pc[c] = "save" /\ UNCHANGED <<row, right, wrong>>
    BY <1>9 DEF SaveTask, history
  <2>3. pos[c] \in Positions
    BY <2>2 DEF TypeInv, PcOK
  <2>4. task.theme \in Themes /\ task.answer \in Texts
    BY <2>3, LearningAssumption DEF Themes
  <2>5. ses \in TaskData /\ ses.counter = Session(c).counter
    BY <1>0, <2>4, SessionType, TaskSessionType
  <2> HIDE DEF ses
  <2>6. CtxCounter' \in {Session(c).counter, CtxCounter}
    BY <1>0, <2>1, <2>5, DataCounter DEF CtxCounter
  <2>7. Finish(c) \/ Proceed(c, "enter")
    BY <1>9 DEF SaveTask, ProceedIfOk
  <2>8. Own(c)'
    BY <1>7, <2>2, <2>7
  <2> QED BY <1>4, <2>2, <2>6, <2>8
<1>10. CASE Start(c)
  <2>1. PICK o \in Outcomes : ctx' = Effect(o, SetUserCtx("None", NoData), ctx)
    BY <1>10 DEF Start
  <2>2. Finish(c) /\ UNCHANGED <<row, right, wrong>>
    BY <1>10 DEF Start, history
  <2>3. CtxCounter' \in {0, CtxCounter}
    BY <2>1, NoDataCounter DEF CtxCounter, Effect
  <2>4. Own(c)'
    BY <1>7, <2>2
  <2> QED BY <1>4, <2>2, <2>3, <2>4
<1>11. CASE EnterLearning(c) \/ Leave(c)
  <2>1. PICK o \in Outcomes, s \in {"TaskLearning", "None"} :
          ctx' = Effect(o, UpdUserStateCtx(ctx, s), ctx)
    BY <1>11 DEF EnterLearning, Leave
  <2>2. Finish(c) /\ UNCHANGED <<row, right, wrong>>
    BY <1>11 DEF EnterLearning, Leave, history
  <2>3. CtxCounter' = CtxCounter
    BY <1>0, <2>1, StateCounter DEF CtxCounter
  <2>4. Own(c)'
    BY <1>7, <2>2
  <2> QED BY <1>4, <2>2, <2>3, <2>4
<1>12. CASE RecordStreak(c)
  <2>1. PICK o \in Outcomes :
          row' = Effect(o, Row!ThemeColumns(row, Session(c).theme, Score(c)), row)
    BY <1>12 DEF RecordStreak
  <2>2. /\ row'.best_theme_counter \in {row.best_theme_counter, Score(c)}
        /\ row'.worst_theme_counter \in {row.worst_theme_counter, Score(c)}
    BY <1>0, <2>1, SessionType, ThemeColumnsType DEF Effect
  <2>3. pc[c] = "streak" /\ UNCHANGED <<ctx, right, wrong>>
    BY <1>12 DEF RecordStreak, history
  <2>4. Proceed(c, "credit") \/ Proceed(c, "leave")
    BY <1>12 DEF RecordStreak
  <2>5. Own(c)'
    BY <1>7, <2>3, <2>4
  <2> QED BY <1>4, <2>2, <2>3, <2>5 DEF CtxCounter
<1>13. CASE Credit(c)
  <2>1. PICK o \in Outcomes : row' = Effect(o, Row!UpdateTaskID(row, 1), row)
    BY <1>13 DEF Credit
  <2>2. /\ row'.best_theme_counter = row.best_theme_counter
        /\ row'.worst_theme_counter = row.worst_theme_counter
    BY <1>0, <2>1, UpdateTaskIDType DEF Effect
  <2>3. Proceed(c, "leave") /\ UNCHANGED <<ctx, right, wrong>>
    BY <1>13 DEF Credit, history
  <2>4. Own(c)'
    BY <1>7, <2>3
  <2> QED BY <1>4, <2>2, <2>3, <2>4 DEF CtxCounter
<1> QED BY <1>3, <1>5, <1>6, <1>8, <1>9, <1>10, <1>11, <1>12, <1>13 DEF Step

LEMMA CountersNext == TypeInv /\ CountersInv /\ [Next]_vars => CountersInv'
<1> SUFFICES ASSUME TypeInv, CountersInv, [Next]_vars PROVE CountersInv'
  OBVIOUS
<1>0. TypeOK /\ TypeOK' /\ right \in Nat /\ wrong \in Nat
  BY TypeNext DEF TypeInv, TypeOK
<1>1. ASSUME NEW c \in Conns, NEW m \in Commands \union Texts, Receive(c, m)
      PROVE  CountersInv'
  <2>1. /\ OthersKept(c) /\ pc'[c] = "read" /\ uctx'[c] = uctx[c]
        /\ UNCHANGED <<ctx, row, right, wrong>>
    BY <1>0, <1>1 DEF Receive, Goto, OthersKept, TypeOK, history
  <2>2. Own(c)'
    BY <2>1, OwnKept DEF CountersInv
  <2>3. ASSUME NEW d \in Conns PROVE Own(d)'
    BY <1>0, <2>1, <2>2, OwnOthers DEF CountersInv
  <2>4. CountersEarned'
    BY <2>1 DEF CountersInv, CountersEarned, WithinAnswers
  <2> QED BY <2>3, <2>4 DEF CountersInv
<1>2. ASSUME NEW c \in Conns, Step(c) PROVE CountersInv'
  BY <1>2, CountersStep
<1>3. ASSUME Expire PROVE CountersInv'
  <2>1. ctx' = NoCtx /\ UNCHANGED <<row, right, wrong, pc, msg, uctx>>
    BY <1>3 DEF Expire, handlers, history
  <2>2. CountersEarned'
    BY <1>0, <2>1, NoDataCounter DEF CountersInv, CountersEarned, WithinAnswers
  <2>3. ASSUME NEW d \in Conns PROVE Own(d)'
    BY <2>1 DEF CountersInv, Own, Session, Score, Correct, WithinAnswers
  <2> QED BY <2>2, <2>3 DEF CountersInv
<1>4. ASSUME Crash PROVE CountersInv'
  <2>1. /\ UNCHANGED <<ctx, row, right, wrong>>
        /\ \A d \in Conns : pc'[d] = "idle" /\ uctx'[d] = NoCtx
    BY <1>4 DEF Crash, history
  <2>2. CountersEarned'
    BY <2>1 DEF CountersInv, CountersEarned, WithinAnswers
  <2>3. ASSUME NEW d \in Conns PROVE Own(d)'
    BY <1>0, <2>1, OwnFinished
  <2> QED BY <2>2, <2>3 DEF CountersInv
<1>5. ASSUME UNCHANGED vars PROVE CountersInv'
  <2>1. UNCHANGED <<ctx, row, right, wrong, pc, msg, uctx>>
    BY <1>5 DEF vars, handlers, history
  <2> QED BY <2>1 DEF CountersInv, CountersEarned, Own, Session, Score, Correct,
                      WithinAnswers
<1> QED BY <1>1, <1>2, <1>3, <1>4, <1>5 DEF Next

\* The session's counter and the statistics never claim more right or wrong
\* answers than were given, for any number of connections that overwrite each
\* other's session, and whatever fails.
THEOREM CountersAreEarned == Spec => []CountersEarned
<1>1. Init => CountersInv
  <2> SUFFICES ASSUME Init PROVE CountersInv
    OBVIOUS
  <2>1. /\ right = 0 /\ wrong = 0 /\ ctx = NoCtx
        /\ row.best_theme_counter = 0 /\ row.worst_theme_counter = 0
    BY DEF Init
  <2>2. CountersEarned
    BY <2>1, NoDataCounter DEF CountersEarned, WithinAnswers
  <2>3. ASSUME NEW c \in Conns PROVE Own(c)
    <3>1. pc[c] = "idle" /\ uctx[c] = NoCtx
      BY DEF Init
    <3> QED BY <2>1, <3>1, NoDataCounter DEF Own, Session, WithinAnswers
  <2> QED BY <2>2, <2>3 DEF CountersInv
<1>2. CountersInv => CountersEarned
  BY DEF CountersInv
<1> QED BY <1>1, <1>2, InitTypeInv, TypeNext, CountersNext, PTL DEF Spec
-----------------------------------------------------------------------------
(* The task in the session.  With one connection nothing comes between the *)
(* two writes that enter learning mode, so the state is set only over the  *)
(* data of a task; and an answer is written back with the task it was      *)
(* judged by, which the handler read in learning mode.  With two, a        *)
(* "/start" between the two writes breaks this.                            *)

Held(data) ==
  \E p \in Positions : /\ AsTaskSession(data).answer = Store[p].answer
                       /\ AsTaskSession(data).theme = Store[p].theme

AskedInv ==
  /\ ctx.state = "TaskLearning" => Held(ctx.data)
  /\ \A c \in Conns : /\ pc[c] = "enter" => Held(ctx.data)
                      /\ pc[c] = "score" => Held(uctx[c].data)

\* The data a task session is written with is the data of its task.
LEMMA HeldSession ==
  ASSUME NEW p \in Positions, NEW n, NEW th, NEW a,
         th = Store[p].theme, a = Store[p].answer
  PROVE  Held(TaskSession(th, n, a))
BY DEF Held, TaskSession, AsTaskSession

LEMMA WrittenData ==
  ASSUME NEW x \in Contexts, NEW d
  PROVE  /\ UpdateUserDataCtx(x, d).data = d
         /\ UpdateUserDataCtx(x, d).state = x.state
         /\ \A s : /\ UpdUserStateCtx(x, s).data = x.data
                   /\ UpdUserStateCtx(x, s).state = s
         /\ SetUserCtx("None", NoData).state = "None"
         /\ NoCtx.state = "None"
BY DEF Contexts, UpdateUserDataCtx, UpdUserStateCtx, SetUserCtx, NoCtx

LEMMA AskedStep ==
  ASSUME TypeInv, AskedInv, NEW c, Conns = {c}, Step(c)
  PROVE  AskedInv'
<1>0. /\ c \in Conns /\ \A d \in Conns : d = c
      /\ TypeOK /\ ctx \in Contexts /\ uctx[c] \in Contexts /\ pc \in [Conns -> Labels]
  BY DEF TypeInv, TypeOK
<1> USE DEF AskedInv
\* A handler that returns leaves nothing to show but the context.
<1>1. ASSUME Finish(c), ctx'.state = "TaskLearning" => Held(ctx'.data)
      PROVE  AskedInv'
  <2>1. \A d \in Conns : pc'[d] = "idle"
    BY <1>0, <1>1, FinishFrame
  <2>2. (ctx.state = "TaskLearning" => Held(ctx.data))'
    BY <1>1 DEF Held
  <2> QED BY <2>1, <2>2
<1>2. ASSUME NEW l, l \notin {"enter", "score"}, Proceed(c, l),
             ctx'.state = "TaskLearning" => Held(ctx'.data)
      PROVE  AskedInv'
  <2>1. \A d \in Conns : pc'[d] = l
    BY <1>0, <1>2, ProceedFrame
  <2>2. (ctx.state = "TaskLearning" => Held(ctx.data))'
    BY <1>2 DEF Held
  <2> QED BY <1>2, <2>1, <2>2
<1>3. CASE GetUserCtx(c)
  <2>1. UNCHANGED ctx
    BY <1>3 DEF GetUserCtx
  <2>2. CASE Finish(c)
    BY <1>1, <2>1, <2>2
  <2>3. CASE ~ Finish(c)
    <3>1. uctx'[c] = ctx /\ pc'[c] = Branch(msg[c], ctx.state)
      BY <1>0, <1>3, <2>3 DEF GetUserCtx, Goto, TypeOK
    <3>2. pc'[c] # "enter" /\ (pc'[c] = "score" => ctx.state = "TaskLearning")
      BY <3>1 DEF Branch
    <3>3. pc'[c] = "score" => Held(uctx'[c].data)
      BY <3>1, <3>2
    <3> QED BY <1>0, <2>1, <3>2, <3>3 DEF Held
  <2> QED BY <2>2, <2>3
<1>4. CASE GetData(c) \/ GetTasks(c)
  <2>1. UNCHANGED ctx
    BY <1>4 DEF GetData, GetTasks
  <2>2. CASE Finish(c)
    BY <1>1, <2>1, <2>2
  <2>3. CASE ~ Finish(c)
    <3>1. pc'[c] \in {"tasks", "save"}
      BY <1>0, <1>4, <2>3 DEF GetData, GetTasks, Proceed, Goto, TypeOK
    <3> QED BY <1>0, <2>1, <3>1 DEF Held
  <2> QED BY <2>2, <2>3
<1>5. CASE SaveTask(c)
  <2> DEFINE task == Store[pos[c]]
             ses  == TaskSession(task.theme, Session(c).counter, task.answer)
  <2>1. PICK o \in Outcomes : /\ ctx' = Effect(o, UpdateUserDataCtx(ctx, ses), ctx)
                              /\ ProceedIfOk(c, o, "enter")
    BY <1>5 DEF SaveTask
  <2>2. pos[c] \in Positions
    BY <1>0, <1>5 DEF SaveTask, TypeInv, PcOK
  <2>3. Held(ses)
    BY <2>2, HeldSession
  <2> HIDE DEF ses
  <2>4. ctx'.state = "TaskLearning" => Held(ctx'.data)
    BY <1>0, <2>1, <2>3, WrittenData DEF Effect
  <2>5. CASE o = "ok"
    <3>1. Held(ctx'.data)
      BY <1>0, <2>1, <2>3, <2>5, WrittenData DEF Effect
    <3>2. pc'[c] = "enter"
      BY <1>0, <2>1, <2>5, ProceedFrame DEF ProceedIfOk
    <3> QED BY <1>0, <2>4, <3>1, <3>2 DEF Held
  <2>6. CASE o # "ok"
    <3>1. Finish(c)
      BY <2>1, <2>6 DEF ProceedIfOk
    <3> QED BY <1>1, <2>4, <3>1
  <2> QED BY <2>5, <2>6
<1>6. CASE EnterLearning(c)
  <2>1. PICK o \in Outcomes : ctx' = Effect(o, UpdUserStateCtx(ctx, "TaskLearning"), ctx)
    BY <1>6 DEF EnterLearning
  <2>2. Held(ctx.data) /\ Finish(c)
    BY <1>0, <1>6 DEF EnterLearning
  <2>3. ctx'.data = ctx.data
    BY <1>0, <2>1, WrittenData DEF Effect
  <2> QED BY <1>1, <2>2, <2>3
<1>7. CASE Start(c) \/ Leave(c)
  <2>1. ctx'.state = "None" \/ ctx' = ctx
    BY <1>0, <1>7, WrittenData DEF Start, Leave, Effect
  <2>2. Finish(c)
    BY <1>7 DEF Start, Leave
  <2> QED BY <1>1, <2>1, <2>2
<1>8. CASE SaveScore(c)
  <2> DEFINE ses == TaskSession(Session(c).theme, Score(c), Session(c).answer)
  <2>1. PICK o \in Outcomes : ctx' = Effect(o, UpdateUserDataCtx(ctx, ses), ctx)
    BY <1>8 DEF SaveScore
  <2>2. Held(uctx[c].data) /\ Proceed(c, "streak")
    BY <1>0, <1>8 DEF SaveScore
  <2>3. Held(ses)
    BY <2>2, HeldSession DEF Held, Session
  <2> HIDE DEF ses
  <2>4. ctx'.state = "TaskLearning" => Held(ctx'.data)
    BY <1>0, <2>1, <2>3, WrittenData DEF Effect
  <2> QED BY <1>2, <2>2, <2>4
<1>9. CASE RecordStreak(c) \/ Credit(c)
  <2>1. UNCHANGED ctx
    BY <1>9 DEF RecordStreak, Credit
  <2>2. Proceed(c, "credit") \/ Proceed(c, "leave")
    BY <1>9 DEF RecordStreak, Credit
  <2> QED BY <1>2, <2>1, <2>2
<1> QED BY <1>3, <1>4, <1>5, <1>6, <1>7, <1>8, <1>9 DEF Step

LEMMA AskedNext ==
  ASSUME NEW c, Conns = {c}
  PROVE  TypeInv /\ AskedInv /\ [Next]_vars => AskedInv'
<1> SUFFICES ASSUME TypeInv, AskedInv, [Next]_vars PROVE AskedInv'
  OBVIOUS
<1>0. pc \in [Conns -> Labels] /\ uctx \in [Conns -> Contexts]
  BY DEF TypeInv, TypeOK
<1>1. ASSUME NEW m, Receive(c, m) PROVE AskedInv'
  <2>1. UNCHANGED ctx /\ pc'[c] = "read"
    BY <1>0, <1>1 DEF Receive, Goto
  <2> QED BY <2>1 DEF AskedInv, Held
<1>2. ASSUME Step(c) PROVE AskedInv'
  BY <1>2, AskedStep
<1>3. ASSUME Expire PROVE AskedInv'
  <2>1. /\ ctx' = NoCtx /\ UNCHANGED <<pc, uctx>>
        /\ \A d \in Conns : pc[d] # "enter"
    BY <1>3 DEF Expire, handlers
  <2>2. ctx'.state = "None"
    BY <2>1 DEF NoCtx
  <2> QED BY <2>1, <2>2 DEF AskedInv, Held
<1>4. ASSUME Crash PROVE AskedInv'
  <2>1. UNCHANGED ctx /\ \A d \in Conns : pc'[d] = "idle"
    BY <1>4 DEF Crash
  <2> QED BY <2>1 DEF AskedInv, Held
<1>5. ASSUME UNCHANGED vars PROVE AskedInv'
  BY <1>5 DEF vars, handlers, AskedInv, Held
<1> QED BY <1>1, <1>2, <1>3, <1>4, <1>5 DEF Next

\* With one connection, whatever fails, crashes or expires: in learning mode
\* the session holds a task of the store.
THEOREM AskedTaskAlwaysExists ==
  ASSUME NEW c, Conns = {c}
  PROVE  Spec => []AskedTaskExists
<1>1. Init => AskedInv
  BY DEF Init, AskedInv, NoCtx
<1>2. AskedInv => AskedTaskExists
  BY DEF AskedInv, AskedTaskExists, Held
<1>3. TypeInv /\ AskedInv /\ [Next]_vars => AskedInv'
  BY AskedNext
<1> QED BY <1>1, <1>2, <1>3, InitTypeInv, TypeNext, PTL DEF Spec
-----------------------------------------------------------------------------
(* The position and the task in the session.  An answer moves the position *)
(* on over the task that was asked, if the one in the session is the one   *)
(* at the position.  It may be another one only after a failure, which     *)
(* costs one task if the session is answered, and nothing if it is         *)
(* replaced before: the tasks skipped and this risk together never exceed  *)
(* the failures.                                                           *)

\* The data asks for another task than the one at position p.
AsksOther(data, p) ==
  ~ (p \in Positions /\ AsTaskSession(data).answer = Store[p].answer)

\* A right answer to what the context or the handler holds would be credited
\* to another task.
AtRisk(c) ==
  \/ pc[c] # "leave" /\ ctx.state = "TaskLearning" /\ AsksOther(ctx.data, row.task_id)
  \/ pc[c] \in {"score", "streak", "credit"} /\ AsksOther(uctx[c].data, row.task_id)

\* What the handler knows of the position and of its verdict.
OnTask(c) ==
  /\ pc[c] \in {"tasks", "save"} => pos[c] = row.task_id
  /\ pc[c] = "enter" => ~ AsksOther(ctx.data, row.task_id)
  /\ pc[c] \in {"streak", "credit"} /\ Correct(c) => msg[c] \in solved
  /\ pc[c] = "credit" => Correct(c)

SkipInv(c) ==
  /\ OnTask(c)
  /\ Cardinality(Skipped) <= faults
  /\ AtRisk(c) => Cardinality(Skipped) < faults

LEMMA PrefixFinite ==
  ASSUME NEW n \in Nat, NEW S \in SUBSET (1 .. n - 1)
  PROVE  IsFiniteSet(S) /\ Cardinality(S) \in Nat
<1>1. n - 1 \in Int
  OBVIOUS
<1>2. IsFiniteSet(1 .. n - 1)
  BY <1>1, FS_Interval
<1>. QED  BY <1>2, FS_Subset, FS_CardinalityType

LEMMA SkippedFinite ==
  /\ TypeOK => IsFiniteSet(Skipped) /\ Cardinality(Skipped) \in Nat
  /\ TypeOK' => IsFiniteSet(Skipped') /\ Cardinality(Skipped') \in Nat
<1>1. ASSUME TypeOK  PROVE IsFiniteSet(Skipped) /\ Cardinality(Skipped) \in Nat
  <2>1. row.task_id \in Nat /\ Skipped \subseteq 1 .. row.task_id - 1
    BY <1>1, RowFields DEF TypeOK, Skipped
  <2>. QED  BY <2>1, PrefixFinite
<1>2. ASSUME TypeOK'  PROVE IsFiniteSet(Skipped') /\ Cardinality(Skipped') \in Nat
  <2>1. row'.task_id \in Nat /\ Skipped' \subseteq 1 .. row'.task_id - 1
    BY <1>2, RowFields DEF TypeOK, Skipped
  <2>. QED  BY <2>1, PrefixFinite
<1>. QED  BY <1>1, <1>2

\* As long as the position stays, no more tasks are skipped.
LEMMA SkippedShrinks ==
  ASSUME TypeOK, TypeOK', row'.task_id = row.task_id, solved \subseteq solved'
  PROVE  Cardinality(Skipped') <= Cardinality(Skipped)
<1>1. Skipped' \subseteq Skipped
  BY DEF Skipped
<1>. QED  BY <1>1, SkippedFinite, FS_Subset

\* A step that does not move the position may fail, or take no new risk.
LEMMA SkipKept ==
  ASSUME TypeOK, TypeOK', NEW c, SkipInv(c),
         row'.task_id = row.task_id, solved \subseteq solved', OnTask(c)',
         faults' = faults + 1 \/ (faults' = faults /\ (AtRisk(c)' => AtRisk(c)))
  PROVE  SkipInv(c)'
<1>1. /\ Cardinality(Skipped) \in Nat /\ Cardinality(Skipped') \in Nat /\ faults \in Nat
      /\ Cardinality(Skipped') <= Cardinality(Skipped)
  BY SkippedFinite, SkippedShrinks DEF TypeOK
<1>. DEFINE n == Cardinality(Skipped)
            m == Cardinality(Skipped')
<1>2. n <= faults /\ (AtRisk(c) => n < faults) /\ m <= n /\ n \in Nat /\ m \in Nat
  BY <1>1 DEF SkipInv
<1>. HIDE DEF n, m
<1>3. m <= faults' /\ (AtRisk(c)' => m < faults')
  <2>1. CASE faults' = faults + 1
    BY <1>1, <1>2, <2>1
  <2>2. CASE faults' = faults /\ (AtRisk(c)' => AtRisk(c))
    BY <1>1, <1>2, <2>2
  <2>. QED  BY <2>1, <2>2
<1>. QED  BY <1>3 DEF SkipInv, m

\* A handler that returns keeps the risk of the context, or of a failure.
LEMMA SkipFinished ==
  ASSUME TypeOK, TypeOK', NEW c \in Conns, SkipInv(c), Finish(c),
         UNCHANGED <<row, history>>,
         \/ faults' = faults + 1
         \/ /\ faults' = faults
            /\ \/ ctx' = ctx /\ pc[c] # "leave"
               \/ ctx'.state # "TaskLearning"
               \/ ~ AsksOther(ctx'.data, row.task_id)
  PROVE  SkipInv(c)'
<1>1. pc'[c] = "idle" /\ row' = row /\ solved' = solved
  BY FinishFrame DEF history
<1>2. OnTask(c)'
  BY <1>1 DEF OnTask
<1>3. faults' = faults + 1 \/ (faults' = faults /\ (AtRisk(c)' => AtRisk(c)))
  BY <1>1 DEF AtRisk, AsksOther
<1>. QED  BY <1>1, <1>2, <1>3, SkipKept

\* Credit moves the position over the task that was asked.
LEMMA SkipCredit ==
  ASSUME TypeOK, TypeOK', NEW c \in Conns, SkipInv(c), Credit(c)
  PROVE  SkipInv(c)'
<1>1. /\ pc[c] = "credit" /\ pc'[c] = "leave" /\ solved' = solved
      /\ faults' \in {faults, faults + 1} /\ faults \in Nat
      /\ row \in Rows /\ row.task_id \in Nat
  BY ProceedFrame, RowFields DEF Credit, Counted, history, TypeOK
<1>2. row'.task_id \in {row.task_id, row.task_id + 1}
  <2>1. PICK o \in Outcomes : row' = Effect(o, Row!UpdateTaskID(row, 1), row)
    BY DEF Credit
  <2>. QED  BY <1>1, <2>1, UpdateTaskIDType DEF Effect
<1>3. OnTask(c)' /\ ~ AtRisk(c)'
  BY <1>1 DEF OnTask, AtRisk
<1>4. CASE row'.task_id = row.task_id
  BY <1>1, <1>3, <1>4, SkipKept
<1>5. CASE row'.task_id = row.task_id + 1
  <2>1. Skipped' \subseteq Skipped \union {row.task_id}
    BY <1>1, <1>5 DEF Skipped
  <2>2. ~ AsksOther(uctx[c].data, row.task_id) => Skipped' \subseteq Skipped
    <3>1. ASSUME ~ AsksOther(uctx[c].data, row.task_id)  PROVE row.task_id \notin Skipped'
      <4>1. msg[c] \in solved /\ msg[c] = Session(c).answer
        BY <1>1 DEF SkipInv, OnTask, Correct
      <4>2. row.task_id \in Positions /\ Store[row.task_id].answer \in solved'
        BY <1>1, <3>1, <4>1 DEF AsksOther, Session
      <4>. QED  BY <4>2 DEF Skipped
    <3>. QED  BY <2>1, <3>1
  <2>. DEFINE n == Cardinality(Skipped)
              m == Cardinality(Skipped')
  <2>3. /\ IsFiniteSet(Skipped) /\ n \in Nat /\ m \in Nat
        /\ n <= faults /\ (AtRisk(c) => n < faults)
    BY SkippedFinite DEF SkipInv
  <2>4. m <= faults
    <3>1. CASE AsksOther(uctx[c].data, row.task_id)
      <4>1. AtRisk(c)
        BY <1>1, <3>1 DEF AtRisk
      <4>2. m <= Cardinality(Skipped \union {row.task_id})
            /\ Cardinality(Skipped \union {row.task_id}) \in {n, n + 1}
        BY <2>1, <2>3, FS_AddElement, FS_Subset
      <4>. HIDE DEF n, m
      <4>. QED  BY <1>1, <2>3, <4>1, <4>2
    <3>2. CASE ~ AsksOther(uctx[c].data, row.task_id)
      <4>1. m <= n
        BY <2>2, <2>3, <3>2, FS_Subset
      <4>. HIDE DEF n, m
      <4>. QED  BY <1>1, <2>3, <4>1
    <3>. QED  BY <3>1, <3>2
  <2>5. m <= faults'
    <3>. HIDE DEF m
    <3>. QED  BY <1>1, <2>3, <2>4
  <2>. QED  BY <1>3, <2>5 DEF SkipInv
<1>. QED  BY <1>2, <1>4, <1>5

LEMMA SkipStep ==
  ASSUME TypeInv, TypeOK', NEW c, Conns = {c}, SkipInv(c), Step(c)
  PROVE  SkipInv(c)'
<1>0. /\ c \in Conns /\ TypeOK /\ ctx \in Contexts /\ row \in Rows /\ uctx[c] \in Contexts
      /\ faults \in Nat /\ OnTask(c)
  BY DEF TypeInv, TypeOK, SkipInv
<1>1. ASSUME NEW o, Counted(o)  PROVE faults' = IF o = "ok" THEN faults ELSE faults + 1
  BY <1>1 DEF Counted
<1>2. CASE GetUserCtx(c)
  <2>1. pc[c] = "read" /\ UNCHANGED <<ctx, row, history>>
    BY <1>2 DEF GetUserCtx
  <2>2. CASE Finish(c) /\ faults' = faults + 1
    BY <1>0, <2>1, <2>2, SkipFinished
  <2>3. CASE ~ (Finish(c) /\ faults' = faults + 1)
    <3>1. uctx'[c] = ctx /\ pc'[c] = Branch(msg[c], ctx.state) /\ faults' = faults
      BY <1>0, <1>2, <2>3 DEF GetUserCtx, Counted, Goto, TypeOK
    <3>2. pc'[c] \notin {"tasks", "save", "enter", "streak", "credit"}
          /\ (pc'[c] = "score" => ctx.state = "TaskLearning")
      BY <3>1 DEF Branch
    <3>3. OnTask(c)'
      BY <3>2 DEF OnTask
    <3>4. AtRisk(c)' => AtRisk(c)
      BY <2>1, <3>1, <3>2 DEF AtRisk, AsksOther
    <3>. QED  BY <1>0, <2>1, <3>1, <3>3, <3>4, SkipKept DEF history
  <2>. QED  BY <2>2, <2>3
<1>3. CASE GetData(c)
  <2>1. pc[c] = "data" /\ UNCHANGED <<ctx, row, history>>
    BY <1>3 DEF GetData
  <2>2. CASE Finish(c) /\ faults' = faults + 1
    BY <1>0, <2>1, <2>2, SkipFinished
  <2>3. CASE ~ (Finish(c) /\ faults' = faults + 1)
    <3>1. pos'[c] = row.task_id /\ pc'[c] = "tasks" /\ faults' = faults
      BY <1>0, <1>3, <2>3 DEF GetData, Counted, Goto, TypeOK
    <3>2. OnTask(c)'
      BY <2>1, <3>1 DEF OnTask
    <3>3. AtRisk(c)' => AtRisk(c)
      BY <2>1, <3>1 DEF AtRisk, AsksOther
    <3>. QED  BY <1>0, <2>1, <3>1, <3>2, <3>3, SkipKept DEF history
  <2>. QED  BY <2>2, <2>3
<1>4. CASE GetTasks(c)
  <2>1. pc[c] = "tasks" /\ UNCHANGED <<ctx, row, history>>
        /\ faults' \in {faults, faults + 1}
    BY <1>4 DEF GetTasks, Counted
  <2>2. CASE Finish(c)
    BY <1>0, <2>1, <2>2, SkipFinished
  <2>3. CASE Proceed(c, "save")
    <3>1. pos'[c] = row.task_id /\ pc'[c] = "save"
      BY <1>0, <2>1, <2>3, ProceedFrame DEF OnTask, Proceed
    <3>2. OnTask(c)'
      BY <2>1, <3>1 DEF OnTask
    <3>3. AtRisk(c)' => AtRisk(c)
      BY <2>1, <3>1 DEF AtRisk, AsksOther
    <3>. QED  BY <1>0, <2>1, <3>1, <3>2, <3>3, SkipKept DEF history
  <2>. QED  BY <1>4, <2>2, <2>3 DEF GetTasks
<1>5. CASE SaveTask(c)
  <2>. DEFINE task == Store[pos[c]]
              ses  == TaskSession(task.theme, Session(c).counter, task.answer)
  <2>1. PICK o \in Outcomes : /\ Counted(o)
                              /\ ctx' = Effect(o, UpdateUserDataCtx(ctx, ses), ctx)
                              /\ ProceedIfOk(c, o, "enter")
    BY <1>5 DEF SaveTask
  <2>2. pc[c] = "save" /\ UNCHANGED <<row, history>> /\ pos[c] \in Positions
        /\ pos[c] = row.task_id
    BY <1>0, <1>5 DEF SaveTask, TypeInv, PcOK, OnTask
  <2>3. ~ AsksOther(ses, row.task_id)
    BY <2>2 DEF AsksOther, TaskSession, AsTaskSession
  <2>. HIDE DEF ses
  <2>4. CASE o = "ok"
    <3>1. ctx'.data = ses /\ faults' = faults /\ pc'[c] = "enter"
      BY <1>0, <2>1, <2>4, WrittenData, ProceedFrame DEF Effect, Counted, ProceedIfOk
    <3>2. ~ AsksOther(ctx.data, row.task_id)'
      BY <2>2, <2>3, <3>1 DEF AsksOther
    <3>3. OnTask(c)' /\ ~ AtRisk(c)'
      BY <3>1, <3>2 DEF OnTask, AtRisk
    <3>. QED  BY <1>0, <2>2, <3>1, <3>3, SkipKept DEF history
  <2>5. CASE o # "ok"
    BY <1>0, <1>1, <2>1, <2>2, <2>5, SkipFinished DEF ProceedIfOk
  <2>. QED  BY <2>4, <2>5
<1>6. CASE EnterLearning(c)
  <2>1. PICK o \in Outcomes : Counted(o) /\ ctx' = Effect(o, UpdUserStateCtx(ctx, "TaskLearning"), ctx)
    BY <1>6 DEF EnterLearning
  <2>2. pc[c] = "enter" /\ Finish(c) /\ UNCHANGED <<row, history>>
        /\ ~ AsksOther(ctx.data, row.task_id)
    BY <1>0, <1>6 DEF EnterLearning, OnTask
  <2>3. ctx'.data = ctx.data
    BY <1>0, <2>1, WrittenData DEF Effect
  <2>4. ~ AsksOther(ctx'.data, row.task_id) /\ faults' \in {faults, faults + 1}
    BY <2>1, <2>2, <2>3 DEF Counted
  <2>. QED  BY <1>0, <2>2, <2>4, SkipFinished
<1>7. CASE Start(c) \/ Leave(c)
  <2>1. Finish(c) /\ UNCHANGED <<row, history>>
    BY <1>7 DEF Start, Leave
  <2>2. faults' = faults + 1 \/ (faults' = faults /\ ctx'.state = "None")
    BY <1>0, <1>7, WrittenData DEF Start, Leave, Effect, Counted
  <2>. QED  BY <1>0, <2>1, <2>2, SkipFinished
<1>8. CASE SaveScore(c)
  <2>. DEFINE ses == TaskSession(Session(c).theme, Score(c), Session(c).answer)
  <2>1. PICK o \in Outcomes : Counted(o) /\ ctx' = Effect(o, UpdateUserDataCtx(ctx, ses), ctx)
    BY <1>8 DEF SaveScore
  <2>2. pc[c] = "score" /\ row' = row /\ Proceed(c, "streak")
        /\ solved' = IF Correct(c) THEN solved \union {msg[c]} ELSE solved
    BY <1>8 DEF SaveScore, Judge
  <2>3. pc'[c] = "streak" /\ msg'[c] = msg[c] /\ uctx'[c] = uctx[c]
    BY <1>0, <2>2, ProceedFrame
  <2>4. AsksOther(ses, row.task_id) <=> AsksOther(uctx[c].data, row.task_id)
    <3>1. AsTaskSession(ses).answer = AsTaskSession(uctx[c].data).answer
      BY DEF TaskSession, AsTaskSession, Session
    <3>. QED  BY <3>1 DEF AsksOther
  <2>. HIDE DEF ses
  <2>5. ctx' = ctx \/ ctx'.data = ses
    BY <1>0, <2>1, WrittenData DEF Effect
  <2>6. Correct(c)' <=> Correct(c)
    BY <2>3 DEF Correct, Session
  <2>7. OnTask(c)'
    BY <2>2, <2>3, <2>6 DEF OnTask
  <2>8. AtRisk(c)' => AtRisk(c)
    <3>1. AsksOther(uctx[c].data, row.task_id)' <=> AsksOther(uctx[c].data, row.task_id)
      BY <2>2, <2>3 DEF AsksOther
    <3>2. AsksOther(ctx.data, row.task_id)' =>
            \/ ctx' = ctx /\ AsksOther(ctx.data, row.task_id)
            \/ AsksOther(uctx[c].data, row.task_id)
      BY <2>2, <2>4, <2>5 DEF AsksOther
    <3>. QED  BY <2>2, <2>3, <3>1, <3>2 DEF AtRisk
  <2>9. faults' = faults \/ faults' = faults + 1
    BY <2>1 DEF Counted
  <2>. QED  BY <1>0, <2>2, <2>7, <2>8, <2>9, SkipKept
<1>9. CASE RecordStreak(c)
  <2>1. /\ pc[c] = "streak" /\ UNCHANGED <<ctx, history>>
        /\ Proceed(c, IF Correct(c) THEN "credit" ELSE "leave")
        /\ faults' \in {faults, faults + 1}
    BY <1>9 DEF RecordStreak, Counted
  <2>2. row'.task_id = row.task_id
    <3>1. PICK o \in Outcomes :
            row' = Effect(o, Row!ThemeColumns(row, Session(c).theme, Score(c)), row)
      BY <1>9 DEF RecordStreak
    <3>. QED  BY <1>0, <3>1, SessionType, ThemeColumnsType DEF Effect
  <2>3. /\ pc'[c] = IF Correct(c) THEN "credit" ELSE "leave"
        /\ msg'[c] = msg[c] /\ uctx'[c] = uctx[c]
    BY <1>0, <2>1, ProceedFrame
  <2>4. solved' = solved /\ (Correct(c)' <=> Correct(c))
    BY <2>1, <2>3 DEF history, Correct, Session
  <2>5. OnTask(c)'
    BY <1>0, <2>1, <2>3, <2>4 DEF OnTask
  <2>6. AtRisk(c)' => AtRisk(c)
    BY <2>1, <2>2, <2>3 DEF AtRisk, AsksOther
  <2>. QED  BY <1>0, <2>1, <2>2, <2>4, <2>5, <2>6, SkipKept
<1>10. CASE Credit(c)
  BY <1>0, <1>10, SkipCredit
<1>. QED  BY <1>2, <1>3, <1>4, <1>5, <1>6, <1>7, <1>8, <1>9, <1>10 DEF Step

LEMMA SkipNext ==
  ASSUME NEW c, Conns = {c}
  PROVE  TypeInv /\ SkipInv(c) /\ [Next]_vars => SkipInv(c)'
<1>. SUFFICES ASSUME TypeInv, SkipInv(c), [Next]_vars PROVE SkipInv(c)'
  OBVIOUS
<1>0. TypeOK /\ TypeOK' /\ c \in Conns /\ OnTask(c)
  BY TypeNext DEF TypeInv, SkipInv
<1>1. ASSUME NEW m, Receive(c, m) PROVE SkipInv(c)'
  <2>1. /\ UNCHANGED <<ctx, row, faults, uctx, history>>
        /\ pc[c] = "idle" /\ pc'[c] = "read"
    BY <1>0, <1>1 DEF Receive, Goto, TypeOK
  <2>2. OnTask(c)' /\ (AtRisk(c)' => AtRisk(c))
    BY <2>1 DEF OnTask, AtRisk, AsksOther
  <2>. QED  BY <1>0, <2>1, <2>2, SkipKept DEF history
<1>2. ASSUME Step(c) PROVE SkipInv(c)'
  BY <1>0, <1>2, SkipStep
<1>3. ASSUME Expire PROVE SkipInv(c)'
  <2>1. /\ ctx' = NoCtx /\ UNCHANGED <<row, pc, msg, uctx, pos, faults, history>>
        /\ pc[c] # "enter" /\ NoCtx.state = "None"
    BY <1>0, <1>3 DEF Expire, handlers, NoCtx
  <2>2. OnTask(c)' /\ (AtRisk(c)' => AtRisk(c))
    BY <1>0, <2>1 DEF OnTask, AtRisk, AsksOther, Correct, Session, history
  <2>. QED  BY <1>0, <2>1, <2>2, SkipKept DEF history
<1>4. ASSUME Crash PROVE SkipInv(c)'
  <2>1. /\ UNCHANGED <<ctx, row, history>> /\ pc'[c] = "idle" /\ faults' = faults + 1
    BY <1>0, <1>4 DEF Crash
  <2>2. OnTask(c)'
    BY <2>1 DEF OnTask
  <2>. QED  BY <1>0, <2>1, <2>2, SkipKept DEF history
<1>5. ASSUME UNCHANGED vars PROVE SkipInv(c)'
  <2>1. UNCHANGED <<ctx, row, pc, msg, uctx, pos, faults, solved>>
    BY <1>5 DEF vars, handlers, history
  <2>. QED  BY <2>1 DEF SkipInv, OnTask, AtRisk, AsksOther, Correct, Session, Skipped
<1>. QED  BY <1>0, <1>1, <1>2, <1>3, <1>4, <1>5 DEF Next

LEMMA SkipInit == ASSUME NEW c \in Conns PROVE Init => SkipInv(c)
<1>. SUFFICES ASSUME Init PROVE SkipInv(c)
  OBVIOUS
<1>1. row.task_id = 1 /\ faults = 0 /\ pc[c] = "idle" /\ ctx = NoCtx
  BY DEF Init
<1>2. Skipped = {}
  BY <1>1 DEF Skipped
<1>3. Cardinality(Skipped) = 0
  BY <1>2, FS_EmptySet
<1>. QED  BY <1>1, <1>3 DEF SkipInv, OnTask, AtRisk, NoCtx

\* With one connection, every task that the position skips without an answer
\* was paid for by a failing call or a crash, whatever expires in between.
THEOREM SkipsArePaid ==
  ASSUME NEW c, Conns = {c}
  PROVE  Spec => []SkippedBoundedByFaults
<1>1. Init => SkipInv(c)
  BY SkipInit
<1>2. SkipInv(c) => SkippedBoundedByFaults
  BY DEF SkipInv, SkippedBoundedByFaults
<1>3. TypeInv /\ SkipInv(c) /\ [Next]_vars => SkipInv(c)'
  BY SkipNext
<1>. QED  BY <1>1, <1>2, <1>3, InitTypeInv, TypeNext, PTL DEF Spec

\* With one connection, the task in the session is the one at the position
\* between two messages, as long as nothing failed.
THEOREM AskedTaskStaysCurrent ==
  ASSUME NEW c, Conns = {c}
  PROVE  Spec => []AskedTaskIsCurrent
<1>1. Init => SkipInv(c)
  BY SkipInit
<1>2. TypeInv /\ SkipInv(c) => AskedTaskIsCurrent
  <2>. SUFFICES ASSUME TypeInv, SkipInv(c), faults = 0, AllIdle, ctx.state = "TaskLearning"
                PROVE  /\ row.task_id \in Positions
                       /\ AsTaskSession(ctx.data).answer = Store[row.task_id].answer
    BY DEF AskedTaskIsCurrent
  <2>1. ~ AtRisk(c)
    BY SkippedFinite DEF SkipInv, TypeInv
  <2>2. pc[c] = "idle"
    BY DEF AllIdle
  <2>. QED  BY <2>1, <2>2 DEF AtRisk, AsksOther
<1>3. TypeInv /\ SkipInv(c) /\ [Next]_vars => SkipInv(c)'
  BY SkipNext
<1>. QED  BY <1>1, <1>2, <1>3, InitTypeInv, TypeNext, PTL DEF Spec
-----------------------------------------------------------------------------
(* The statistics.  As long as nothing failed, the extremes of the row     *)
(* cover the counter of every session but the one about to be reported.    *)

Covered(n) == row.worst_theme_counter <= n /\ n <= row.best_theme_counter

StatsInv(c) ==
  faults = 0 =>
    /\ Covered(Session(c).counter)
    /\ Covered(CtxCounter) \/ (pc[c] = "streak" /\ CtxCounter = Score(c))

\* UpdateStreak only widens the extremes, to the counter that it is given.
LEMMA ThemeColumnsCover ==
  ASSUME NEW r \in Rows, NEW th, NEW n \in Int
  PROVE  LET u == Row!ThemeColumns(r, th, n)
         IN /\ u.worst_theme_counter <= n /\ n <= u.best_theme_counter
            /\ u.worst_theme_counter <= r.worst_theme_counter
            /\ r.best_theme_counter <= u.best_theme_counter
            /\ u.worst_theme_counter \in Int /\ u.best_theme_counter \in Int
<1>. DEFINE bt == Row!BestThemeCase(r, th, n)    bn == Row!BestThemeCntCase(r, n)
            wt == Row!WorstThemeCase(r, th, n)   wn == Row!WorstThemeCntCase(r, n)
<1>1. r.best_theme_counter \in Int /\ r.worst_theme_counter \in Int
  BY RowFields
<1>2. /\ bn = IF n > r.best_theme_counter THEN n ELSE r.best_theme_counter
      /\ wn = IF n < r.worst_theme_counter THEN n ELSE r.worst_theme_counter
  BY DEF Row!BestThemeCntCase, Row!WorstThemeCntCase
<1>3. Row!ThemeColumns(r, th, n) =
        [r EXCEPT !.best_theme = bt, !.best_theme_counter = bn,
                  !.worst_theme = wt, !.worst_theme_counter = wn]
  BY DEF Row!ThemeColumns
<1>. HIDE DEF bt, bn, wt, wn
<1>4. /\ Row!ThemeColumns(r, th, n).worst_theme_counter = wn
      /\ Row!ThemeColumns(r, th, n).best_theme_counter = bn
  BY <1>3 DEF Rows
<1>. QED  BY <1>1, <1>2, <1>4

\* A row that covers at least as much.
LEMMA CoveredKept ==
  ASSUME NEW n \in Int, Covered(n), row \in Rows, row' \in Rows,
         row'.worst_theme_counter <= row.worst_theme_counter,
         row.best_theme_counter <= row'.best_theme_counter
  PROVE  row'.worst_theme_counter <= n /\ n <= row'.best_theme_counter
<1>1. /\ row.best_theme_counter \in Int /\ row.worst_theme_counter \in Int
      /\ row'.best_theme_counter \in Int /\ row'.worst_theme_counter \in Int
  BY RowFields
<1>. QED  BY <1>1 DEF Covered

LEMMA CoveredZero == ASSUME row \in Rows PROVE Covered(0)
BY RowFields DEF Covered

LEMMA StatsStep ==
  ASSUME TypeInv, TypeOK', NEW c, Conns = {c}, StatsInv(c), Step(c)
  PROVE  StatsInv(c)'
<1>. SUFFICES ASSUME faults' = 0
              PROVE  /\ Covered(Session(c).counter)'
                     /\ Covered(CtxCounter)' \/ (pc'[c] = "streak" /\ CtxCounter' = Score(c)')
  BY DEF StatsInv
<1>0. /\ c \in Conns /\ TypeOK /\ ctx \in Contexts /\ row \in Rows /\ uctx[c] \in Contexts
      /\ faults \in Nat /\ row' \in Rows
      /\ Session(c).counter \in Int /\ CtxCounter \in Int /\ Score(c) \in Int
  BY SessionType, CounterTypes DEF TypeInv, TypeOK
<1>1. \A o : Counted(o) => o = "ok"
  BY <1>0 DEF Counted
<1>2. faults = 0
  <2>1. \E o : Counted(o)
    BY DEF Step, GetUserCtx, Start, GetData, GetTasks, SaveTask, EnterLearning, SaveScore,
           RecordStreak, Credit, Leave
  <2>. QED  BY <1>0, <2>1 DEF Counted
<1>3. /\ Covered(Session(c).counter)
      /\ Covered(CtxCounter) \/ (pc[c] = "streak" /\ CtxCounter = Score(c))
  BY <1>2 DEF StatsInv
\* A handler that returns, or goes on with the session it has, over the row as
\* it is.
<1>4. ASSUME row' = row, pc[c] # "streak",
             Session(c)'.counter \in {Session(c).counter, CtxCounter, 0},
             CtxCounter' \in {Session(c).counter, CtxCounter, 0}
      PROVE  /\ Covered(Session(c).counter)'
             /\ Covered(CtxCounter)'
  BY <1>0, <1>3, <1>4, CoveredZero DEF Covered
<1>5. ASSUME Finish(c)  PROVE Session(c)'.counter = 0
  BY <1>0, <1>5, FinishFrame, NoDataCounter DEF Session
<1>6. ASSUME NEW l, Proceed(c, l)
      PROVE  Session(c)' = Session(c) /\ Score(c)' = Score(c) /\ pc'[c] = l
  BY <1>0, <1>6, ProceedFrame DEF Session, Score, Correct
<1>7. CASE GetUserCtx(c)
  <2>1. pc[c] = "read" /\ UNCHANGED <<ctx, row>>
    BY <1>7 DEF GetUserCtx
  <2>2. Finish(c) \/ uctx'[c] = ctx
    BY <1>0, <1>7 DEF GetUserCtx, TypeOK
  <2>3. Session(c)'.counter \in {CtxCounter, 0}
    BY <1>5, <2>2 DEF Session, CtxCounter
  <2>. QED  BY <1>4, <2>1, <2>3 DEF CtxCounter
<1>8. CASE GetData(c) \/ GetTasks(c)
  <2>1. pc[c] \in {"data", "tasks"} /\ UNCHANGED <<ctx, row>>
    BY <1>8 DEF GetData, GetTasks
  <2>2. Finish(c) \/ uctx'[c] = uctx[c]
    BY <1>0, <1>8 DEF GetData, GetTasks, Proceed
  <2>3. Session(c)'.counter \in {Session(c).counter, 0}
    BY <1>5, <2>2 DEF Session
  <2>. QED  BY <1>4, <2>1, <2>3 DEF CtxCounter
<1>9. CASE SaveTask(c)
  <2>. DEFINE task == Store[pos[c]]
              ses  == TaskSession(task.theme, Session(c).counter, task.answer)
  <2>1. PICK o \in Outcomes : /\ ctx' = Effect(o, UpdateUserDataCtx(ctx, ses), ctx)
                              /\ ProceedIfOk(c, o, "enter")
    BY <1>9 DEF SaveTask
  <2>2. pc[c] = "save" /\ row' = row
    BY <1>9 DEF SaveTask
  <2>3. pos[c] \in Positions
    BY <1>0, <2>2 DEF TypeInv, PcOK
  <2>4. ses \in TaskData /\ ses.counter = Session(c).counter
    <3>1. task.theme \in Themes /\ task.answer \in Texts
      BY <2>3, LearningAssumption DEF Themes
    <3>. QED  BY <1>0, <3>1, SessionType, TaskSessionType
  <2>. HIDE DEF ses
  <2>5. CtxCounter' \in {Session(c).counter, CtxCounter}
    BY <1>0, <2>1, <2>4, DataCounter DEF CtxCounter
  <2>6. Session(c)'.counter \in {Session(c).counter, 0}
    BY <1>5, <1>6, <2>1 DEF ProceedIfOk
  <2>. QED  BY <1>4, <2>2, <2>5, <2>6
<1>10. CASE Start(c) \/ EnterLearning(c) \/ Leave(c)
  <2>1. pc[c] # "streak" /\ Finish(c) /\ row' = row
    BY <1>10 DEF Start, EnterLearning, Leave
  <2>2. CtxCounter' \in {CtxCounter, 0}
    <3>1. CASE Start(c)
      BY <3>1, NoDataCounter DEF Start, CtxCounter, Effect
    <3>2. CASE EnterLearning(c) \/ Leave(c)
      <4>1. PICK o \in Outcomes, s \in {"TaskLearning", "None"} :
              ctx' = Effect(o, UpdUserStateCtx(ctx, s), ctx)
        BY <3>2 DEF EnterLearning, Leave
      <4>. QED  BY <1>0, <4>1, StateCounter DEF CtxCounter
    <3>. QED  BY <1>10, <3>1, <3>2
  <2>. QED  BY <1>4, <1>5, <2>1, <2>2
<1>11. CASE SaveScore(c)
  <2>. DEFINE ses == TaskSession(Session(c).theme, Score(c), Session(c).answer)
  <2>1. PICK o \in Outcomes : Counted(o) /\ ctx' = Effect(o, UpdateUserDataCtx(ctx, ses), ctx)
    BY <1>11 DEF SaveScore
  <2>2. Proceed(c, "streak") /\ row' = row
    BY <1>11 DEF SaveScore
  <2>3. ses \in TaskData /\ ses.counter = Score(c) /\ AsTaskSession(ses) = ses
    BY <1>0, SessionType, TaskSessionType
  <2>. HIDE DEF ses
  <2>4. ctx'.data = ses
    BY <1>0, <1>1, <2>1, WrittenData DEF Effect
  <2>5. CtxCounter' = Score(c)
    BY <2>3, <2>4 DEF CtxCounter
  <2>6. Covered(Session(c).counter)'
    BY <1>3, <1>6, <2>2 DEF Covered
  <2>. QED  BY <1>6, <2>2, <2>5, <2>6
<1>12. CASE RecordStreak(c)
  <2>. DEFINE u == Row!ThemeColumns(row, Session(c).theme, Score(c))
  <2>1. PICK o \in Outcomes : Counted(o) /\ row' = Effect(o, u, row)
    BY <1>12 DEF RecordStreak
  <2>2. pc[c] = "streak" /\ ctx' = ctx /\ (Proceed(c, "credit") \/ Proceed(c, "leave"))
    BY <1>12 DEF RecordStreak
  <2>3. row' = u
    BY <1>1, <2>1 DEF Effect
  <2>4. /\ u.worst_theme_counter <= Score(c) /\ Score(c) <= u.best_theme_counter
        /\ u.worst_theme_counter <= row.worst_theme_counter
        /\ row.best_theme_counter <= u.best_theme_counter
    BY <1>0, ThemeColumnsCover
  <2>. HIDE DEF u
  <2>5. Covered(Session(c).counter)'
    <3>1. Session(c)' = Session(c)
      BY <1>6, <2>2
    <3>. QED  BY <1>0, <1>3, <2>3, <2>4, <3>1, CoveredKept DEF Covered
  <2>6. Covered(CtxCounter)'
    <3>1. CtxCounter' = CtxCounter
      BY <2>2 DEF CtxCounter
    <3>2. CASE Covered(CtxCounter)
      BY <1>0, <2>3, <2>4, <3>1, <3>2, CoveredKept DEF Covered
    <3>3. CASE CtxCounter = Score(c)
      BY <2>3, <2>4, <3>1, <3>3 DEF Covered
    <3>. QED  BY <1>3, <3>2, <3>3
  <2>. QED  BY <2>5, <2>6
<1>13. CASE Credit(c)
  <2>1. PICK o \in Outcomes : row' = Effect(o, Row!UpdateTaskID(row, 1), row)
    BY <1>13 DEF Credit
  <2>2. /\ row'.best_theme_counter = row.best_theme_counter
        /\ row'.worst_theme_counter = row.worst_theme_counter
    BY <1>0, <2>1, UpdateTaskIDType DEF Effect
  <2>3. pc[c] = "credit" /\ Proceed(c, "leave") /\ ctx' = ctx
    BY <1>13 DEF Credit
  <2>4. Session(c)' = Session(c) /\ CtxCounter' = CtxCounter
    BY <1>6, <2>3 DEF CtxCounter
  <2>. QED  BY <1>3, <2>2, <2>3, <2>4 DEF Covered
<1>. QED  BY <1>7, <1>8, <1>9, <1>10, <1>11, <1>12, <1>13 DEF Step

LEMMA StatsNext ==
  ASSUME NEW c, Conns = {c}
  PROVE  TypeInv /\ StatsInv(c) /\ [Next]_vars => StatsInv(c)'
<1>. SUFFICES ASSUME TypeInv, StatsInv(c), [Next]_vars PROVE StatsInv(c)'
  OBVIOUS
<1>0. TypeOK /\ TypeOK' /\ c \in Conns /\ row \in Rows /\ faults \in Nat
  BY TypeNext DEF TypeInv, TypeOK
<1>1. ASSUME NEW m, Receive(c, m) PROVE StatsInv(c)'
  <2>1. /\ UNCHANGED <<ctx, row, faults, uctx>> /\ pc[c] = "idle"
    BY <1>0, <1>1 DEF Receive
  <2>. QED  BY <2>1 DEF StatsInv, Covered, CtxCounter, Session
<1>2. ASSUME Step(c) PROVE StatsInv(c)'
  BY <1>0, <1>2, StatsStep
<1>3. ASSUME Expire PROVE StatsInv(c)'
  <2>1. ctx' = NoCtx /\ UNCHANGED <<row, uctx, faults>>
    BY <1>3 DEF Expire, handlers
  <2>2. CtxCounter' = 0
    BY <2>1, NoDataCounter DEF CtxCounter
  <2>3. Covered(0)' /\ (faults' = 0 => Covered(Session(c).counter)')
    BY <1>0, <2>1, CoveredZero DEF StatsInv, Covered, Session
  <2>. QED  BY <2>2, <2>3 DEF StatsInv, Covered
<1>4. ASSUME Crash PROVE StatsInv(c)'
  <2>1. faults' = faults + 1
    BY <1>4 DEF Crash
  <2>. QED  BY <1>0, <2>1 DEF StatsInv
<1>5. ASSUME UNCHANGED vars PROVE StatsInv(c)'
  <2>1. UNCHANGED <<ctx, row, pc, msg, uctx, faults>>
    BY <1>5 DEF vars, handlers
  <2>. QED  BY <2>1 DEF StatsInv, Covered, CtxCounter, Session, Score, Correct
<1>. QED  BY <1>0, <1>1, <1>2, <1>3, <1>4, <1>5 DEF Next

\* With one connection and no failure, every answer is in the statistics by
\* the time the next message can arrive.
THEOREM StatsStayUpToDate ==
  ASSUME NEW c, Conns = {c}
  PROVE  Spec => []StatsUpToDate
<1>1. Init => StatsInv(c)
  <2>. SUFFICES ASSUME Init PROVE StatsInv(c)
    OBVIOUS
  <2>1. /\ ctx = NoCtx /\ uctx[c] = NoCtx
        /\ row.worst_theme_counter = 0 /\ row.best_theme_counter = 0
    BY DEF Init
  <2>. QED  BY <2>1, NoDataCounter DEF StatsInv, Covered, CtxCounter, Session
<1>2. StatsInv(c) => StatsUpToDate
  <2>. SUFFICES ASSUME StatsInv(c), faults = 0, AllIdle
                PROVE  Covered(CtxCounter)
    BY DEF StatsUpToDate, Covered, CtxCounter
  <2>1. pc[c] = "idle"
    BY DEF AllIdle
  <2>. QED  BY <2>1 DEF StatsInv
<1>3. TypeInv /\ StatsInv(c) /\ [Next]_vars => StatsInv(c)'
  BY StatsNext
<1>. QED  BY <1>1, <1>2, <1>3, InitTypeInv, TypeNext, PTL DEF Spec
=============================================================================
