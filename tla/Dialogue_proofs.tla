--------------------------- MODULE Dialogue_proofs ---------------------------
(***************************************************************************)
(* Proofs about the dialogue of the gateway: the types and the number of   *)
(* payloads a mode takes, for any number of connections, and that learning *)
(* mode holds a task's session, for one.                                   *)
(***************************************************************************)
EXTENDS Dialogue, FiniteSetTheorems, TLAPS

-----------------------------------------------------------------------------
(* The user context.                                                       *)

LEMMA NoCtxType == NoCtx \in Contexts
  BY DEF NoCtx, Contexts, Sessions, UserStates

LEMMA SetUserCtxType ==
  ASSUME NEW s \in UserStates, NEW d \in Sessions
  PROVE  SetUserCtx(s, d) \in Contexts
  BY DEF SetUserCtx, Contexts

LEMMA UpdUserStateType ==
  ASSUME ctx \in Contexts, NEW s \in UserStates
  PROVE  UpdUserStateCtx(ctx, s) \in Contexts
  BY DEF UpdUserStateCtx, Contexts

LEMMA UpdateUserDataType ==
  ASSUME ctx \in Contexts, NEW d \in Sessions
  PROVE  UpdateUserDataCtx(ctx, d) \in Contexts
  BY DEF UpdateUserDataCtx, Contexts

LEMMA ModeTypes ==
  /\ \A m \in DOMAIN ModeOf : ModeOf[m] \in UserStates \ {"TaskLearning"}
  /\ \A m \in DOMAIN AiModeOf : AiModeOf[m] \in UserStates \ {"TaskLearning"}
  /\ \A m \in DOMAIN Meaning : Meaning[m] \in OneShots
<1>1. \A m \in DOMAIN ModeOf : ModeOf[m] \in UserStates \ {"TaskLearning"}
  BY DEF ModeOf, UserStates
<1>2. \A m \in DOMAIN AiModeOf : AiModeOf[m] \in UserStates \ {"TaskLearning"}
  BY DEF AiModeOf, UserStates
<1>3. \A m \in DOMAIN Meaning : Meaning[m] \in OneShots
  BY DEF Meaning, OneShots, AdminModes, SettingModes
<1> QED BY <1>1, <1>2, <1>3

-----------------------------------------------------------------------------
(* The types.                                                              *)

HandlersOK ==
  /\ pc \in [Conns -> Labels]
  /\ msg \in [Conns -> Inputs \union {Empty}]
  /\ uctx \in [Conns -> Contexts]

\* Where the types of the handler's variables are narrower.
PcOK ==
  \A c \in Conns : /\ pc[c] = "mode" => msg[c] \in DOMAIN ModeOf
                   /\ pc[c] = "choose" => msg[c] \in DOMAIN AiModeOf
                   /\ pc[c] = "execute" => uctx[c].state \in OneShots

CountersOK ==
  faults \in Nat /\ asked \in [OneShots -> Nat] /\ executed \in [OneShots -> Nat]

TypeInv == ctx \in Contexts /\ HandlersOK /\ PcOK /\ CountersOK

LEMMA TypeParts == TypeInv => TypeOK
  BY DEF TypeInv, TypeOK, HandlersOK, CountersOK

\* The labels a handler goes on to in the middle of its work.
LEMMA FinishType ==
  ASSUME HandlersOK, PcOK, NEW c \in Conns, Finish(c)
  PROVE  HandlersOK' /\ PcOK'
<1>1. "idle" \in Labels
  BY DEF Labels
<1>2. HandlersOK'
  BY <1>1, NoCtxType DEF HandlersOK, Finish
<1>3. PcOK'
  BY DEF HandlersOK, PcOK, Finish
<1> QED BY <1>2, <1>3

LEMMA GotoType ==
  ASSUME HandlersOK, PcOK, NEW c \in Conns,
         NEW l \in {"save", "enter", "reset"}, Goto(c, l)
  PROVE  HandlersOK' /\ PcOK'
<1>1. l \in Labels
  BY DEF Labels
<1>2. HandlersOK'
  BY <1>1 DEF HandlersOK, Goto
<1>3. PcOK'
  BY DEF HandlersOK, PcOK, Goto
<1> QED BY <1>2, <1>3

LEMMA CountedType ==
  ASSUME faults \in Nat, NEW o, Counted(o)
  PROVE  faults' \in Nat
BY DEF Counted

LEMMA WriteType ==
  ASSUME ctx \in Contexts, faults \in Nat, NEW o, NEW new \in Contexts, Write(o, new)
  PROVE  ctx' \in Contexts /\ faults' \in Nat
BY DEF Write, Counted, Effect

LEMMA RouteType ==
  ASSUME NEW m, NEW s
  PROVE  /\ Route(m, s) \in Labels
         /\ Route(m, s) = "mode" => m \in DOMAIN ModeOf
         /\ Route(m, s) = "choose" => m \in DOMAIN AiModeOf
         /\ Route(m, s) = "execute" => s \in OneShots
<1> HIDE DEF ModeOf, AiModeOf
<1>1. Route(m, s) \in Labels
  BY DEF Route, Labels
<1>2. Route(m, s) = "mode" => m \in DOMAIN ModeOf
  BY DEF Route
<1>3. Route(m, s) = "choose" => m \in DOMAIN AiModeOf
  BY DEF Route
<1>4. Route(m, s) = "execute" => s \in AdminModes \union SettingModes
  BY DEF Route
<1> QED BY <1>1, <1>2, <1>3, <1>4 DEF OneShots

LEMMA SessionTypes ==
  TaskKind \in Sessions /\ ChatKind \in Sessions /\ ShiritoriKind \in Sessions
  /\ NoData \in Sessions
BY DEF Sessions

LEMMA StateTypes ==
  {"None", "TaskLearning", "Shiritori"} \subseteq UserStates
BY DEF UserStates

LEMMA ExecutedType ==
  ASSUME CountersOK, NEW op \in OneShots,
         executed' = [executed EXCEPT ![op] = @ + 1]
  PROVE  executed' \in [OneShots -> Nat]
BY DEF CountersOK

LEMMA TypeStep ==
  ASSUME TypeInv, NEW c \in Conns, Step(c)
  PROVE  TypeInv'
<1>0. /\ ctx \in Contexts /\ HandlersOK /\ PcOK /\ CountersOK
      /\ faults \in Nat /\ asked \in [OneShots -> Nat]
      /\ executed \in [OneShots -> Nat]
  BY DEF TypeInv, CountersOK
<1> SUFFICES /\ ctx' \in Contexts /\ HandlersOK' /\ PcOK' /\ faults' \in Nat
             /\ asked' \in [OneShots -> Nat] /\ executed' \in [OneShots -> Nat]
  BY DEF TypeInv, CountersOK
<1>1. CASE GetUserCtx(c)
  <2>1. UNCHANGED <<ctx, asked, executed>>
    BY <1>1 DEF GetUserCtx
  <2>2. CASE Counted("lost") /\ Finish(c)
    BY <1>0, <2>1, <2>2, CountedType, FinishType
  <2>3. CASE ~ (Counted("lost") /\ Finish(c))
    <3> DEFINE l == Route(msg[c], ctx.state)
    <3>1. /\ uctx' = [uctx EXCEPT ![c] = ctx]
          /\ pc' = [pc EXCEPT ![c] = l]
          /\ UNCHANGED <<msg, faults>>
      BY <1>1, <2>3 DEF GetUserCtx
    <3>2. /\ l \in Labels
          /\ l = "mode" => msg[c] \in DOMAIN ModeOf
          /\ l = "choose" => msg[c] \in DOMAIN AiModeOf
          /\ l = "execute" => ctx.state \in OneShots
      BY RouteType
    <3> HIDE DEF l
    <3>3. HandlersOK'
      BY <1>0, <3>1, <3>2 DEF HandlersOK
    <3>4. PcOK'
      BY <1>0, <3>1, <3>2 DEF HandlersOK, PcOK
    <3> QED BY <1>0, <2>1, <3>1, <3>3, <3>4
  <2> QED BY <2>2, <2>3
<1>2. CASE Inform(c)
  BY <1>0, <1>2, FinishType DEF Inform
<1>3. CASE Clear(c)
  <2>1. PICK o : Write(o, SetUserCtx("None", NoData))
    BY <1>3 DEF Clear
  <2>2. SetUserCtx("None", NoData) \in Contexts
    BY SetUserCtxType, SessionTypes, StateTypes
  <2> QED BY <1>0, <1>3, <2>1, <2>2, WriteType, FinishType DEF Clear
<1>4. CASE SetMode(c)
  <2>1. PICK o : Write(o, UpdUserStateCtx(ctx, ModeOf[msg[c]]))
    BY <1>4 DEF SetMode
  <2>2. UpdUserStateCtx(ctx, ModeOf[msg[c]]) \in Contexts
    BY <1>0, <1>4, ModeTypes, UpdUserStateType DEF SetMode, PcOK
  <2> QED BY <1>0, <1>4, <2>1, <2>2, WriteType, FinishType DEF SetMode
<1>5. CASE ChooseAi(c)
  <2>1. PICK o : Write(o, UpdUserStateCtx(ctx, AiModeOf[msg[c]]))
    BY <1>5 DEF ChooseAi
  <2>2. UpdUserStateCtx(ctx, AiModeOf[msg[c]]) \in Contexts
    BY <1>0, <1>5, ModeTypes, UpdUserStateType DEF ChooseAi, PcOK
  <2> QED BY <1>0, <1>5, <2>1, <2>2, WriteType, FinishType DEF ChooseAi
<1>6. CASE FindTask(c)
  <2>1. Goto(c, "save") \/ Finish(c)
    BY <1>6 DEF FindTask
  <2>2. HandlersOK' /\ PcOK'
    BY <1>0, <2>1, GotoType, FinishType
  <2>3. faults' \in Nat
    BY <1>0, <1>6, CountedType DEF FindTask
  <2> QED BY <1>0, <1>6, <2>2, <2>3 DEF FindTask
<1>7. CASE SaveTask(c)
  <2>1. PICK o : /\ Write(o, UpdateUserDataCtx(ctx, TaskKind))
                 /\ GotoIfOk(c, o, "enter")
    BY <1>7 DEF SaveTask
  <2>2. UpdateUserDataCtx(ctx, TaskKind) \in Contexts
    BY <1>0, UpdateUserDataType, SessionTypes
  <2>3. HandlersOK' /\ PcOK'
    BY <1>0, <2>1, GotoType, FinishType DEF GotoIfOk
  <2> QED BY <1>0, <1>7, <2>1, <2>2, <2>3, WriteType DEF SaveTask
<1>8. CASE EnterLearning(c)
  <2>1. PICK o : Write(o, UpdUserStateCtx(ctx, "TaskLearning"))
    BY <1>8 DEF EnterLearning
  <2>2. UpdUserStateCtx(ctx, "TaskLearning") \in Contexts
    BY <1>0, UpdUserStateType, StateTypes
  <2> QED BY <1>0, <1>8, <2>1, <2>2, WriteType, FinishType DEF EnterLearning
<1>9. CASE SaveScore(c)
  <2>1. PICK o : Write(o, UpdateUserDataCtx(ctx, TaskKind))
    BY <1>9 DEF SaveScore
  <2>2. UpdateUserDataCtx(ctx, TaskKind) \in Contexts
    BY <1>0, UpdateUserDataType, SessionTypes
  <2>3. "TaskLearning" \in OneShots
    BY DEF OneShots
  <2>4. executed' \in [OneShots -> Nat]
    BY <1>0, <1>9, <2>3, ExecutedType DEF SaveScore
  <2>5. HandlersOK' /\ PcOK'
    BY <1>0, <1>9, GotoType DEF SaveScore
  <2> QED BY <1>0, <1>9, <2>1, <2>2, <2>4, <2>5, WriteType DEF SaveScore
<1>10. CASE Execute(c)
  <2> DEFINE op == uctx[c].state
  <2>1. op \in OneShots
    BY <1>0, <1>10 DEF Execute, PcOK
  <2>2. GotoIfOk(c, "ok", "reset") \/ Finish(c)
    BY <1>10 DEF Execute, GotoIfOk
  <2>3. HandlersOK' /\ PcOK'
    BY <1>0, <2>2, GotoType, FinishType DEF GotoIfOk
  <2>4. executed' = [executed EXCEPT ![op] = @ + 1] \/ executed' = executed
    BY <1>10 DEF Execute, Effect
  <2>5. executed' \in [OneShots -> Nat]
    BY <1>0, <2>1, <2>4, ExecutedType
  <2>6. faults' \in Nat
    BY <1>0, <1>10, CountedType DEF Execute
  <2> QED BY <1>0, <1>10, <2>3, <2>5, <2>6 DEF Execute
<1>11. CASE Reset(c)
  <2>1. PICK o : Write(o, UpdUserStateCtx(ctx, "None"))
    BY <1>11 DEF Reset
  <2>2. UpdUserStateCtx(ctx, "None") \in Contexts
    BY <1>0, UpdUserStateType, StateTypes
  <2> QED BY <1>0, <1>11, <2>1, <2>2, WriteType, FinishType DEF Reset
<1>12. CASE PlayWord(c)
  <2>1. /\ SetUserCtx("Shiritori", ShiritoriKind) \in Contexts
        /\ UpdateUserDataCtx(ctx, ShiritoriKind) \in Contexts
    BY <1>0, SetUserCtxType, UpdateUserDataType, SessionTypes, StateTypes
  <2>2. ctx' \in Contexts /\ faults' \in Nat
    BY <1>0, <1>12, <2>1, WriteType DEF PlayWord
  <2> QED BY <1>0, <1>12, <2>2, FinishType DEF PlayWord
<1>13. CASE Generate(c)
  <2>1. UpdateUserDataCtx(ctx, ChatKind) \in Contexts
    BY <1>0, UpdateUserDataType, SessionTypes
  <2>2. ctx' \in Contexts /\ faults' \in Nat
    BY <1>0, <1>13, <2>1, WriteType DEF Generate
  <2> QED BY <1>0, <1>13, <2>2, FinishType DEF Generate
<1> QED BY <1>1, <1>2, <1>3, <1>4, <1>5, <1>6, <1>7, <1>8, <1>9, <1>10,
           <1>11, <1>12, <1>13 DEF Step

LEMMA TypeNext == TypeInv /\ [Next]_vars => TypeInv'
<1> SUFFICES ASSUME TypeInv, [Next]_vars PROVE TypeInv'
  OBVIOUS
<1>0. ctx \in Contexts /\ HandlersOK /\ PcOK /\ CountersOK
  BY DEF TypeInv
<1>1. ASSUME NEW c \in Conns, NEW m \in Inputs, Receive(c, m) PROVE TypeInv'
  <2>1. "read" \in Labels
    BY DEF Labels
  <2>2. HandlersOK'
    BY <1>0, <1>1, <2>1 DEF Receive, HandlersOK
  <2>3. PcOK'
    BY <1>0, <1>1 DEF Receive, HandlersOK, PcOK
  <2>4. CountersOK'
    <3>1. CASE m \in DOMAIN Meaning
      <4>1. Meaning[m] \in OneShots /\ asked' = [asked EXCEPT ![Meaning[m]] = @ + 1]
        BY <1>1, <3>1, ModeTypes DEF Receive
      <4> QED BY <1>0, <1>1, <4>1 DEF Receive, CountersOK
    <3>2. CASE m \notin DOMAIN Meaning
      BY <1>0, <1>1, <3>2 DEF Receive, CountersOK
    <3> QED BY <3>1, <3>2
  <2> QED BY <1>0, <1>1, <2>2, <2>3, <2>4 DEF Receive, TypeInv
<1>2. ASSUME NEW c \in Conns, Step(c) PROVE TypeInv'
  BY <1>2, TypeStep
<1>3. ASSUME Expire PROVE TypeInv'
  BY <1>0, <1>3, NoCtxType
     DEF Expire, handlers, TypeInv, HandlersOK, PcOK, CountersOK
<1>4. ASSUME Crash PROVE TypeInv'
  <2>1. "idle" \in Labels
    BY DEF Labels
  <2> QED BY <1>0, <1>4, <2>1, NoCtxType, CountedType
          DEF Crash, TypeInv, HandlersOK, PcOK, CountersOK
<1>5. ASSUME UNCHANGED vars PROVE TypeInv'
  BY <1>0, <1>5 DEF vars, handlers, TypeInv, HandlersOK, PcOK, CountersOK
<1> QED BY <1>1, <1>2, <1>3, <1>4, <1>5 DEF Next

LEMMA InitTypeInv == Init => TypeInv
<1>1. "idle" \in Labels
  BY DEF Labels
<1> QED BY <1>1, NoCtxType DEF Init, TypeInv, HandlersOK, PcOK, CountersOK

\* Every variable always has its type, with any number of connections and
\* whatever fails.
THEOREM TypeCorrect == Spec => []TypeOK
  BY TypeParts, InitTypeInv, TypeNext, PTL DEF Spec

-----------------------------------------------------------------------------
(* The session of learning mode.  With one connection the state is set     *)
(* only over the task session that was saved right before, and a handler   *)
(* that saves another mode's session found that mode in force when it      *)
(* began: only its own connection could have entered learning mode since.  *)

Held(x) == x.data.kind = "task"

LearningInv ==
  /\ ctx.state = "TaskLearning" => Held(ctx)
  /\ \A c \in Conns :
       /\ pc[c] = "enter" => Held(ctx)
       /\ pc[c] \in {"word", "generate"} => ctx.state # "TaskLearning"

LEMMA WrittenData ==
  ASSUME NEW x \in Contexts
  PROVE  /\ \A d : /\ UpdateUserDataCtx(x, d).data = d
                   /\ UpdateUserDataCtx(x, d).state = x.state
         /\ \A s : /\ UpdUserStateCtx(x, s).data = x.data
                   /\ UpdUserStateCtx(x, s).state = s
         /\ \A s, d : SetUserCtx(s, d).state = s
         /\ NoCtx.state = "None"
         /\ TaskKind.kind = "task"
BY DEF Contexts, UpdateUserDataCtx, UpdUserStateCtx, SetUserCtx, NoCtx,
       TaskKind, TaskSession

LEMMA LearningStep ==
  ASSUME TypeInv, LearningInv, NEW c, Conns = {c}, Step(c)
  PROVE  LearningInv'
<1>0. /\ c \in Conns /\ \A d \in Conns : d = c
      /\ ctx \in Contexts /\ PcOK /\ pc \in [Conns -> Labels]
  BY DEF TypeInv, HandlersOK
<1> USE DEF LearningInv
\* A handler that returns, or is about to reset the state, leaves nothing to
\* show but the context.
<1>1. ASSUME Finish(c) \/ Goto(c, "reset") \/ Goto(c, "save"),
             ctx'.state = "TaskLearning" => Held(ctx')
      PROVE  LearningInv'
  <2>1. pc'[c] \in {"idle", "reset", "save"}
    BY <1>0, <1>1 DEF Finish, Goto
  <2>2. (ctx.state = "TaskLearning" => Held(ctx))'
    BY <1>1 DEF Held
  <2> QED BY <1>0, <2>1, <2>2
\* Setting any state but TaskLearning, or saving a task.
<1>2. ASSUME NEW o, NEW new, Write(o, new),
             new.state # "TaskLearning" \/ Held(new)
      PROVE  ctx'.state = "TaskLearning" => Held(ctx')
  BY <1>2 DEF Write, Effect
<1>3. CASE GetUserCtx(c)
  <2>1. UNCHANGED ctx
    BY <1>3 DEF GetUserCtx
  <2>2. CASE Finish(c)
    BY <1>1, <2>1, <2>2
  <2>3. CASE ~ Finish(c)
    <3>1. pc'[c] = Route(msg[c], ctx.state)
      BY <1>0, <1>3, <2>3 DEF GetUserCtx
    <3>2. /\ pc'[c] # "enter"
          /\ pc'[c] \in {"word", "generate"} => ctx.state # "TaskLearning"
      BY <3>1 DEF Route
    <3> QED BY <1>0, <2>1, <3>2 DEF Held
  <2> QED BY <2>2, <2>3
<1>4. CASE Inform(c)
  BY <1>1, <1>4 DEF Inform, Held
<1>5. CASE Clear(c)
  <2>1. PICK o : Write(o, SetUserCtx("None", NoData))
    BY <1>5 DEF Clear
  <2> QED BY <1>0, <1>1, <1>2, <1>5, <2>1, WrittenData DEF Clear
<1>6. CASE SetMode(c)
  <2>1. PICK o : Write(o, UpdUserStateCtx(ctx, ModeOf[msg[c]]))
    BY <1>6 DEF SetMode
  <2>2. ModeOf[msg[c]] # "TaskLearning"
    BY <1>0, <1>6, ModeTypes DEF SetMode, PcOK
  <2>3. UpdUserStateCtx(ctx, ModeOf[msg[c]]).state # "TaskLearning"
    BY <1>0, <2>2, WrittenData
  <2> QED BY <1>1, <1>2, <1>6, <2>1, <2>3 DEF SetMode
<1>7. CASE ChooseAi(c)
  <2>1. PICK o : Write(o, UpdUserStateCtx(ctx, AiModeOf[msg[c]]))
    BY <1>7 DEF ChooseAi
  <2>2. AiModeOf[msg[c]] # "TaskLearning"
    BY <1>0, <1>7, ModeTypes DEF ChooseAi, PcOK
  <2>3. UpdUserStateCtx(ctx, AiModeOf[msg[c]]).state # "TaskLearning"
    BY <1>0, <2>2, WrittenData
  <2> QED BY <1>1, <1>2, <1>7, <2>1, <2>3 DEF ChooseAi
<1>8. CASE FindTask(c)
  BY <1>1, <1>8 DEF FindTask, Held
<1>9. CASE SaveTask(c)
  <2>1. PICK o : /\ Write(o, UpdateUserDataCtx(ctx, TaskKind))
                 /\ GotoIfOk(c, o, "enter")
    BY <1>9 DEF SaveTask
  <2>2. Held(UpdateUserDataCtx(ctx, TaskKind))
    BY <1>0, WrittenData DEF Held
  <2>3. ctx'.state = "TaskLearning" => Held(ctx')
    BY <1>2, <2>1, <2>2
  <2>4. CASE o = "ok"
    <3>1. Held(ctx')
      BY <2>1, <2>2, <2>4 DEF Write, Effect
    <3>2. pc'[c] = "enter"
      BY <1>0, <2>1, <2>4 DEF GotoIfOk, Goto
    <3> QED BY <1>0, <2>3, <3>1, <3>2 DEF Held
  <2>5. CASE o # "ok"
    BY <1>1, <2>1, <2>3, <2>5 DEF GotoIfOk
  <2> QED BY <2>4, <2>5
<1>10. CASE EnterLearning(c)
  <2>1. PICK o : Write(o, UpdUserStateCtx(ctx, "TaskLearning"))
    BY <1>10 DEF EnterLearning
  <2>2. Held(ctx) /\ Finish(c)
    BY <1>0, <1>10 DEF EnterLearning
  <2>3. Held(UpdUserStateCtx(ctx, "TaskLearning"))
    BY <1>0, <2>2, WrittenData DEF Held
  <2> QED BY <1>1, <1>2, <2>1, <2>2, <2>3
<1>11. CASE SaveScore(c)
  <2>1. PICK o : Write(o, UpdateUserDataCtx(ctx, TaskKind))
    BY <1>11 DEF SaveScore
  <2>2. Held(UpdateUserDataCtx(ctx, TaskKind))
    BY <1>0, WrittenData DEF Held
  <2> QED BY <1>1, <1>2, <1>11, <2>1, <2>2 DEF SaveScore
<1>12. CASE Execute(c)
  <2>1. Finish(c) \/ Goto(c, "reset")
    BY <1>12 DEF Execute, GotoIfOk
  <2> QED BY <1>1, <1>12, <2>1 DEF Execute, Held
<1>13. CASE Reset(c)
  <2>1. PICK o : Write(o, UpdUserStateCtx(ctx, "None"))
    BY <1>13 DEF Reset
  <2> QED BY <1>0, <1>1, <1>2, <1>13, <2>1, WrittenData DEF Reset
<1>14. CASE PlayWord(c)
  <2>1. /\ UpdateUserDataCtx(ctx, ShiritoriKind).state # "TaskLearning"
        /\ SetUserCtx("Shiritori", ShiritoriKind).state # "TaskLearning"
        /\ ctx.state # "TaskLearning"
    BY <1>0, <1>14, WrittenData DEF PlayWord
  <2>2. ctx'.state = "TaskLearning" => Held(ctx')
    BY <1>2, <1>14, <2>1 DEF PlayWord
  <2> QED BY <1>1, <1>14, <2>2 DEF PlayWord
<1>15. CASE Generate(c)
  <2>1. /\ UpdateUserDataCtx(ctx, ChatKind).state # "TaskLearning"
        /\ ctx.state # "TaskLearning"
    BY <1>0, <1>15, WrittenData DEF Generate
  <2>2. ctx'.state = "TaskLearning" => Held(ctx')
    BY <1>2, <1>15, <2>1 DEF Generate
  <2> QED BY <1>1, <1>15, <2>2 DEF Generate
<1> QED BY <1>3, <1>4, <1>5, <1>6, <1>7, <1>8, <1>9, <1>10, <1>11, <1>12,
           <1>13, <1>14, <1>15 DEF Step

LEMMA LearningNext ==
  ASSUME NEW c, Conns = {c}
  PROVE  TypeInv /\ LearningInv /\ [Next]_vars => LearningInv'
<1> SUFFICES ASSUME TypeInv, LearningInv, [Next]_vars PROVE LearningInv'
  OBVIOUS
<1>0. pc \in [Conns -> Labels]
  BY DEF TypeInv, HandlersOK
<1>1. ASSUME NEW m, Receive(c, m) PROVE LearningInv'
  <2>1. UNCHANGED ctx /\ pc'[c] = "read"
    BY <1>0, <1>1 DEF Receive
  <2> QED BY <2>1 DEF LearningInv, Held
<1>2. ASSUME Step(c) PROVE LearningInv'
  BY <1>2, LearningStep
<1>3. ASSUME Expire PROVE LearningInv'
  <2>1. ctx' = NoCtx /\ UNCHANGED pc /\ \A d \in Conns : pc[d] # "enter"
    BY <1>3 DEF Expire, handlers
  <2>2. ctx'.state = "None"
    BY <2>1 DEF NoCtx
  <2> QED BY <2>1, <2>2 DEF LearningInv, Held
<1>4. ASSUME Crash PROVE LearningInv'
  <2>1. UNCHANGED ctx /\ \A d \in Conns : pc'[d] = "idle"
    BY <1>4 DEF Crash
  <2> QED BY <2>1 DEF LearningInv, Held
<1>5. ASSUME UNCHANGED vars PROVE LearningInv'
  BY <1>5 DEF vars, handlers, LearningInv, Held
<1> QED BY <1>1, <1>2, <1>3, <1>4, <1>5 DEF Next

\* With one connection, whatever fails, crashes or expires and whatever modes
\* are visited: in learning mode the session is a task's.
THEOREM LearningAlwaysHasTask ==
  ASSUME NEW c, Conns = {c}
  PROVE  Spec => []LearningHasTask
<1>1. Init => LearningInv
  BY DEF Init, LearningInv, NoCtx
<1>2. LearningInv => LearningHasTask
  BY DEF LearningInv, LearningHasTask, Held
<1>3. TypeInv /\ LearningInv /\ [Next]_vars => LearningInv'
  BY LearningNext
<1> QED BY <1>1, <1>2, <1>3, InitTypeInv, TypeNext, PTL DEF Spec

-----------------------------------------------------------------------------
(* The payloads.  A command that sets a one-shot mode, and a failure that  *)
(* leaves one in force, grant each connection one payload.  A connection   *)
(* uses up its share as it executes one: it takes no other before its      *)
(* reset, which ends the mode or fails.  A command that has yet to set its *)
(* mode holds its grant back, or the connections that may still execute    *)
(* for an earlier command would get a second share with it.                *)

\* The mode a command sets, and how often mode op was to be set: WordsAdding
\* is what the commands for a deletion set as well.
ModeSet(m) == IF m = "learning" THEN "TaskLearning" ELSE ModeOf[m]
Asks(m, op) == m \in DOMAIN Meaning /\ ModeSet(m) = op

Calls(op) ==
  CASE op = "WordsAdding" ->
         asked["WordsAdding"] + asked["TaskDeleting"] + asked["WordDeleting"]
    [] op \in {"TaskDeleting", "WordDeleting"} -> 0
    [] OTHER -> asked[op]

\* The connections that execute a payload of mode op next, or may do so once
\* they read the state that is in force.
MayExecute(op) ==
  {c \in Conns : \/ pc[c] \in {"execute", "score"} /\ uctx[c].state = op
                 \/ ctx.state = op /\ pc[c] # "reset"}

\* The handlers of a command that may yet set mode op.
Entering == {"read", "mode", "find", "save", "enter"}
Pending(op) == {c \in Conns : pc[c] \in Entering /\ Asks(msg[c], op)}

Granted(op) == Calls(op) + faults - Cardinality(Pending(op))

PayloadInv(op) ==
  /\ Granted(op) \in Nat
  /\ executed[op] + Cardinality(MayExecute(op))
       <= Cardinality(Conns) * Granted(op)

\* What a handler knows in the middle of its work.
RouteInv ==
  \A c \in Conns : /\ pc[c] \in {"find", "save", "enter"} => msg[c] = "learning"
                   /\ pc[c] = "score" => uctx[c].state = "TaskLearning"

LEMMA CallsType ==
  ASSUME CountersOK, NEW op \in OneShots
  PROVE  Calls(op) \in Nat
  BY DEF CountersOK, Calls, OneShots, AdminModes

LEMMA ConnsFinite == IsFiniteSet(Conns) /\ Cardinality(Conns) \in Nat
  BY DialogueAssumption, FS_CardinalityType

LEMMA SubsetSize ==
  ASSUME NEW S \in SUBSET Conns
  PROVE  /\ IsFiniteSet(S) /\ Cardinality(S) \in Nat
         /\ Cardinality(S) <= Cardinality(Conns)
  BY ConnsFinite, FS_Subset, FS_CardinalityType

LEMMA SubsetOrder ==
  ASSUME NEW S \in SUBSET Conns, NEW T \in SUBSET S
  PROVE  /\ Cardinality(T) <= Cardinality(S)
         /\ T # S => Cardinality(T) < Cardinality(S)
<1>1. T \in SUBSET Conns
  OBVIOUS
<1>2. /\ IsFiniteSet(S) /\ Cardinality(S) \in Nat
      /\ Cardinality(T) \in Nat
  BY <1>1, SubsetSize
<1>3. /\ Cardinality(T) <= Cardinality(S)
      /\ Cardinality(S) = Cardinality(T) => S = T
  BY <1>2, FS_Subset
<1> QED BY <1>2, <1>3

\* A grant covers every connection, a payload takes a connection's share.
LEMMA Budget ==
  ASSUME NEW S \in SUBSET Conns, NEW T \in SUBSET Conns,
         NEW e \in Nat, NEW f \in Nat, NEW g \in Nat, NEW h \in Nat,
         e + Cardinality(S) <= Cardinality(Conns) * g,
         h >= g,
         T \subseteq S \/ h > g,
         f = e \/ (f = e + 1 /\ \E c \in S : c \notin T \/ h > g)
  PROVE  f + Cardinality(T) <= Cardinality(Conns) * h
<1>1. /\ Cardinality(S) \in Nat /\ Cardinality(T) \in Nat
      /\ Cardinality(T) <= Cardinality(Conns) /\ Cardinality(Conns) \in Nat
  BY SubsetSize, ConnsFinite
<1>2. CASE h > g
  <2>1. f <= e + Cardinality(S)
    <3>1. CASE f = e
      BY <1>1, <3>1
    <3>2. CASE f # e
      <4>1. S # {} /\ f = e + 1
        BY <3>2
      <4>2. Cardinality(S) # 0
        BY <4>1, SubsetSize, FS_EmptySet
      <4> QED BY <1>1, <4>1, <4>2
    <3> QED BY <3>1, <3>2
  <2> DEFINE n == Cardinality(Conns)
  <2>2. n * g + n <= n * h
    <3>1. PICK k \in Nat : h = g + 1 + k
      <4>1. h - g - 1 \in Nat /\ h = g + 1 + (h - g - 1)
        BY <1>2
      <4> QED BY <4>1
    <3>2. n \in Nat
      BY <1>1
    <3> HIDE DEF n
    <3>3. n * (g + 1 + k) = n * g + n + n * k /\ n * k \in Nat
      BY <3>2
    <3>4. n * g \in Nat
      BY <3>2
    <3> QED BY <3>1, <3>2, <3>3, <3>4
  <2>3. n * g \in Nat /\ n * h \in Nat /\ n \in Nat
    BY <1>1
  <2> HIDE DEF n
  <2>4. e + Cardinality(S) <= n * g /\ Cardinality(T) <= n
    BY <1>1 DEF n
  <2>5. f + Cardinality(T) <= n * h
    BY <1>1, <2>1, <2>2, <2>3, <2>4
  <2> QED BY <2>5 DEF n
<1>3. CASE ~ (h > g)
  <2>1. h = g /\ T \in SUBSET S
    BY <1>3
  <2>2. f + Cardinality(T) <= e + Cardinality(S)
    <3>1. CASE f = e
      BY <1>1, <2>1, <3>1, SubsetOrder
    <3>2. CASE f # e
      <4>1. f = e + 1 /\ T # S
        BY <1>3, <3>2
      <4>2. Cardinality(T) < Cardinality(S)
        BY <2>1, <4>1, SubsetOrder
      <4> QED BY <1>1, <4>1, <4>2
    <3> QED BY <3>1, <3>2
  <2> DEFINE b == Cardinality(Conns) * g
  <2>3. b \in Nat /\ e + Cardinality(S) <= b
    BY <1>1
  <2> HIDE DEF b
  <2>4. f + Cardinality(T) <= b
    BY <1>1, <2>2, <2>3
  <2> QED BY <2>1, <2>4 DEF b
<1> QED BY <1>2, <1>3

\* The connections of either set are connections, before and after a step.
LEMMA PayloadSets ==
  ASSUME NEW op
  PROVE  /\ MayExecute(op) \in SUBSET Conns /\ MayExecute(op)' \in SUBSET Conns
         /\ Pending(op) \in SUBSET Conns /\ Pending(op)' \in SUBSET Conns
  BY DEF MayExecute, Pending

\* The budget, stated of a step.
LEMMA Spent ==
  ASSUME CountersOK, CountersOK', NEW op \in OneShots, PayloadInv(op),
         Granted(op)' \in Int, Granted(op)' >= Granted(op),
         MayExecute(op)' \subseteq MayExecute(op) \/ Granted(op)' > Granted(op),
         \/ executed'[op] = executed[op]
         \/ /\ executed'[op] = executed[op] + 1
            /\ \E c \in MayExecute(op) : \/ c \notin MayExecute(op)'
                                         \/ Granted(op)' > Granted(op)
  PROVE  PayloadInv(op)'
<1> DEFINE S == MayExecute(op)
           T == MayExecute(op)'
           g == Granted(op)
           h == Granted(op)'
           e == executed[op]
           f == executed'[op]
<1>1. S \in SUBSET Conns /\ T \in SUBSET Conns
  BY PayloadSets
<1>2. e \in Nat /\ f \in Nat
  BY DEF CountersOK
<1>3. g \in Nat /\ e + Cardinality(S) <= Cardinality(Conns) * g
  BY DEF PayloadInv
<1>4. h \in Int /\ h >= g
  OBVIOUS
<1>5. T \subseteq S \/ h > g
  OBVIOUS
<1>6. f = e \/ (f = e + 1 /\ \E c \in S : c \notin T \/ h > g)
  OBVIOUS
<1>7. SUFFICES h \in Nat /\ f + Cardinality(T) <= Cardinality(Conns) * h
  BY DEF PayloadInv
<1> HIDE DEF S, T, g, h, e, f
<1>8. h \in Nat
  BY <1>3, <1>4
<1>9. f + Cardinality(T) <= Cardinality(Conns) * h
  BY <1>1, <1>2, <1>3, <1>4, <1>5, <1>6, <1>8, Budget
<1> QED BY <1>8, <1>9

\* A failure adds a grant, and so does a command that is done.
LEMMA Grants ==
  ASSUME CountersOK, CountersOK', NEW op \in OneShots,
         asked' = asked, Pending(op)' \subseteq Pending(op),
         faults' = faults \/ faults' = faults + 1
  PROVE  /\ Granted(op) \in Int /\ Granted(op)' \in Int
         /\ Granted(op)' >= Granted(op)
         /\ faults' # faults => Granted(op)' > Granted(op)
         /\ Pending(op)' # Pending(op) => Granted(op)' > Granted(op)
<1> DEFINE P == Pending(op)
           Q == Pending(op)'
<1>1. P \in SUBSET Conns /\ Q \in SUBSET Conns /\ Q \in SUBSET P
  BY PayloadSets
<1>2. /\ faults \in Nat /\ faults' \in Nat /\ Calls(op) \in Nat
      /\ Calls(op)' = Calls(op)
  BY CallsType DEF CountersOK, Calls
<1>3. /\ Granted(op) = Calls(op) + faults - Cardinality(P)
      /\ Granted(op)' = Calls(op)' + faults' - Cardinality(Q)
  BY DEF Granted
<1> HIDE DEF P, Q
<1>4. Cardinality(P) \in Nat /\ Cardinality(Q) \in Nat
  BY <1>1, SubsetSize
<1>5. /\ Cardinality(Q) <= Cardinality(P)
      /\ Q # P => Cardinality(Q) < Cardinality(P)
  BY <1>1, SubsetOrder
<1>6. /\ Granted(op) \in Int /\ Granted(op)' \in Int
      /\ Granted(op)' >= Granted(op)
      /\ faults' # faults => Granted(op)' > Granted(op)
      /\ Q # P => Granted(op)' > Granted(op)
  BY <1>2, <1>3, <1>4, <1>5
<1> QED BY <1>6 DEF P, Q

-----------------------------------------------------------------------------
(* The steps of a handler.                                                 *)

LEMMA ModeAsked ==
  ASSUME NEW op \in OneShots, NEW m \in DOMAIN ModeOf, ModeOf[m] = op
  PROVE  Asks(m, op)
<1>1. m \notin {"shiritori", "chatting", "learning"}
  BY DEF ModeOf, OneShots, AdminModes, SettingModes
<1>2. m \in DOMAIN Meaning
  BY <1>1 DEF ModeOf, Meaning
<1> QED BY <1>1, <1>2 DEF Asks, ModeSet

LEMMA NoOneShot ==
  ASSUME NEW op \in OneShots
  PROVE  /\ op \notin {"None", "Shiritori", "AiSetting"}
         /\ \A m \in DOMAIN AiModeOf : AiModeOf[m] # op
  BY DEF OneShots, AdminModes, SettingModes, AiModeOf

\* What a step does to its handler.
Moves(c) ==
  \/ Finish(c)
  \/ Goto(c, "reset") /\ pc[c] \in {"score", "execute"}
  \/ Goto(c, "save") /\ pc[c] = "find"
  \/ Goto(c, "enter") /\ pc[c] = "save"
  \/ /\ pc[c] = "read" /\ UNCHANGED msg
     /\ pc' = [pc EXCEPT ![c] = Route(msg[c], ctx.state)]
     /\ uctx' = [uctx EXCEPT ![c] = ctx]

LEMMA StepMoves ==
  ASSUME NEW c \in Conns, Step(c)
  PROVE  /\ Moves(c) /\ asked' = asked
         /\ faults' = faults \/ faults' = faults + 1
<1> USE DEF Moves, Write, Counted, GotoIfOk
<1>1. CASE GetUserCtx(c)
  BY <1>1 DEF GetUserCtx
<1>2. CASE Inform(c) \/ Clear(c) \/ SetMode(c) \/ ChooseAi(c)
  BY <1>2 DEF Inform, Clear, SetMode, ChooseAi
<1>3. CASE FindTask(c) \/ SaveTask(c) \/ EnterLearning(c)
  BY <1>3 DEF FindTask, SaveTask, EnterLearning
<1>4. CASE SaveScore(c)
  BY <1>4 DEF SaveScore
<1>5. CASE Execute(c)
  BY <1>5 DEF Execute
<1>6. CASE Reset(c) \/ PlayWord(c) \/ Generate(c)
  BY <1>6 DEF Reset, PlayWord, Generate
<1> QED BY <1>1, <1>2, <1>3, <1>4, <1>5, <1>6 DEF Step

\* The other handlers are left alone.
LEMMA OthersStay ==
  ASSUME HandlersOK, NEW c \in Conns, Moves(c), NEW d \in Conns, d # c
  PROVE  pc'[d] = pc[d] /\ msg'[d] = msg[d] /\ uctx'[d] = uctx[d]
  BY DEF HandlersOK, Moves, Finish, Goto

\* No step of a handler makes its command pending again.
LEMMA PendingShrinks ==
  ASSUME HandlersOK, NEW c \in Conns, Moves(c), NEW op
  PROVE  Pending(op)' \subseteq Pending(op)
<1>1. pc'[c] \in Entering => pc[c] \in Entering /\ msg'[c] = msg[c]
  BY DEF HandlersOK, Moves, Finish, Goto, Entering
<1> QED BY <1>1, OthersStay DEF Pending

\* Unless it sets mode op, a step lets nobody execute but who already could.
LEMMA MayShrinks ==
  ASSUME HandlersOK, NEW c \in Conns, Moves(c), NEW op,
         ctx'.state = op => ctx.state = op,
         pc[c] # "reset" \/ ctx'.state # op
  PROVE  MayExecute(op)' \subseteq MayExecute(op)
<1> SUFFICES ASSUME NEW d \in Conns, d \in MayExecute(op)' PROVE d \in MayExecute(op)
  BY DEF MayExecute
<1>1. CASE d # c
  BY <1>1, OthersStay DEF MayExecute
<1>2. CASE d = c /\ ctx'.state = op
  BY <1>2 DEF MayExecute
<1>3. CASE d = c /\ ctx'.state # op
  <2>1. pc'[c] \in {"execute", "score"} /\ uctx'[c].state = op
    BY <1>3 DEF MayExecute
  <2>2. pc[c] = "read" /\ uctx'[c] = ctx
    BY <2>1 DEF HandlersOK, Moves, Finish, Goto
  <2> QED BY <1>3, <2>1, <2>2 DEF MayExecute
<1> QED BY <1>1, <1>2, <1>3

LEMMA PayloadStep ==
  ASSUME TypeInv, TypeInv', RouteInv, NEW op \in OneShots,
         PayloadInv(op), NEW c \in Conns, Step(c)
  PROVE  PayloadInv(op)'
<1>0. /\ HandlersOK /\ PcOK /\ CountersOK /\ CountersOK' /\ ctx \in Contexts
      /\ pc \in [Conns -> Labels] /\ faults \in Nat
      /\ executed \in [OneShots -> Nat]
  BY DEF TypeInv, CountersOK, HandlersOK
<1>1. Moves(c) /\ asked' = asked /\ (faults' = faults \/ faults' = faults + 1)
  BY StepMoves
<1>2. Pending(op)' \subseteq Pending(op)
  BY <1>0, <1>1, PendingShrinks
<1>3. /\ Granted(op)' \in Int /\ Granted(op)' >= Granted(op)
      /\ faults' # faults => Granted(op)' > Granted(op)
      /\ Pending(op)' # Pending(op) => Granted(op)' > Granted(op)
  BY <1>0, <1>1, <1>2, Grants
\* Most steps execute nothing: it is enough that they do not set mode op, or
\* are paid for.
<1>4. ASSUME executed' = executed,
             \/ Granted(op)' > Granted(op)
             \/ /\ ctx'.state = op => ctx.state = op
                /\ pc[c] # "reset" \/ ctx'.state # op
      PROVE  PayloadInv(op)'
  <2>1. MayExecute(op)' \subseteq MayExecute(op) \/ Granted(op)' > Granted(op)
    BY <1>0, <1>1, <1>4, MayShrinks
  <2>2. executed'[op] = executed[op]
    BY <1>4
  <2> QED BY <1>0, <1>3, <2>1, <2>2, Spent
\* A write fails, which is paid for, or it sets what it is to set.
<1>5. ASSUME NEW o, NEW new, Write(o, new)
      PROVE  ctx' = new \/ faults' # faults
  BY <1>0, <1>5 DEF Write, Counted, Effect
<1>6. ASSUME NEW o, NEW new, Write(o, new), new.state = ctx.state
      PROVE  ctx'.state = ctx.state
  BY <1>6 DEF Write, Effect
<1>7. CASE GetUserCtx(c)
  BY <1>4, <1>7 DEF GetUserCtx
<1>8. CASE Inform(c)
  BY <1>4, <1>8 DEF Inform
<1>9. CASE Clear(c)
  <2>1. PICK o : Write(o, SetUserCtx("None", NoData))
    BY <1>9 DEF Clear
  <2>2. SetUserCtx("None", NoData).state # op
    BY <1>0, WrittenData, NoOneShot
  <2> QED BY <1>3, <1>4, <1>5, <1>9, <2>1, <2>2 DEF Clear
<1>10. CASE SetMode(c)
  <2> DEFINE m == ModeOf[msg[c]]
  <2>1. PICK o : Write(o, UpdUserStateCtx(ctx, m))
    BY <1>10 DEF SetMode
  <2>2. UpdUserStateCtx(ctx, m).state = m
    BY <1>0, WrittenData
  <2>3. m = op => Granted(op)' > Granted(op)
    <3>1. SUFFICES ASSUME m = op PROVE c \in Pending(op) /\ c \notin Pending(op)'
      BY <1>3
    <3>2. Asks(msg[c], op)
      BY <1>0, <1>10, <3>1, ModeAsked DEF SetMode, PcOK
    <3>3. pc'[c] = "idle"
      BY <1>0, <1>10 DEF SetMode, Finish
    <3> QED BY <1>10, <3>2, <3>3 DEF SetMode, Pending, Entering
  <2> QED BY <1>3, <1>4, <1>5, <1>10, <2>1, <2>2, <2>3 DEF SetMode
<1>11. CASE ChooseAi(c)
  <2> DEFINE m == AiModeOf[msg[c]]
  <2>1. PICK o : Write(o, UpdUserStateCtx(ctx, m))
    BY <1>11 DEF ChooseAi
  <2>2. UpdUserStateCtx(ctx, m).state # op
    <3>1. m # op
      BY <1>0, <1>11, NoOneShot DEF ChooseAi, PcOK
    <3> QED BY <1>0, <3>1, WrittenData
  <2> QED BY <1>3, <1>4, <1>5, <1>11, <2>1, <2>2 DEF ChooseAi
<1>12. CASE FindTask(c)
  BY <1>4, <1>12 DEF FindTask
<1>13. CASE SaveTask(c)
  <2>1. PICK o : Write(o, UpdateUserDataCtx(ctx, TaskKind))
    BY <1>13 DEF SaveTask
  <2>2. ctx'.state = ctx.state
    BY <1>0, <1>6, <2>1, WrittenData
  <2> QED BY <1>4, <1>13, <2>2 DEF SaveTask
<1>14. CASE EnterLearning(c)
  <2>1. PICK o : Write(o, UpdUserStateCtx(ctx, "TaskLearning"))
    BY <1>14 DEF EnterLearning
  <2>2. UpdUserStateCtx(ctx, "TaskLearning").state = "TaskLearning"
    BY <1>0, WrittenData
  <2>3. "TaskLearning" = op => Granted(op)' > Granted(op)
    <3>1. SUFFICES ASSUME "TaskLearning" = op
                   PROVE  c \in Pending(op) /\ c \notin Pending(op)'
      BY <1>3
    <3>2. Asks(msg[c], op)
      BY <1>14, <3>1 DEF EnterLearning, RouteInv, Asks, ModeSet, Meaning
    <3>3. pc'[c] = "idle"
      BY <1>0, <1>14 DEF EnterLearning, Finish
    <3> QED BY <1>14, <3>2, <3>3 DEF EnterLearning, Pending, Entering
  <2> QED BY <1>3, <1>4, <1>5, <1>14, <2>1, <2>2, <2>3 DEF EnterLearning
<1>15. CASE SaveScore(c)
  <2>1. PICK o : Write(o, UpdateUserDataCtx(ctx, TaskKind))
    BY <1>15 DEF SaveScore
  <2>2. ctx'.state = ctx.state
    BY <1>0, <1>6, <2>1, WrittenData
  <2>3. /\ pc[c] = "score" /\ uctx[c].state = "TaskLearning" /\ pc'[c] = "reset"
        /\ executed' = [executed EXCEPT !["TaskLearning"] = @ + 1]
    BY <1>0, <1>15 DEF SaveScore, RouteInv, Goto
  <2>4. MayExecute(op)' \subseteq MayExecute(op)
    BY <1>0, <1>1, <2>2, <2>3, MayShrinks
  <2>5. c \notin MayExecute(op)'
    BY <2>3 DEF MayExecute
  <2>6. CASE op = "TaskLearning"
    <3>1. executed'[op] = executed[op] + 1
      BY <1>0, <2>3, <2>6
    <3>2. c \in MayExecute(op)
      BY <2>3, <2>6 DEF MayExecute
    <3> QED BY <1>0, <1>3, <2>4, <2>5, <3>1, <3>2, Spent
  <2>7. CASE op # "TaskLearning"
    <3>1. executed'[op] = executed[op]
      BY <1>0, <2>3, <2>7
    <3> QED BY <1>0, <1>3, <2>4, <3>1, Spent
  <2> QED BY <2>6, <2>7
<1>16. CASE Execute(c)
  <2>1. ctx' = ctx /\ pc[c] = "execute"
    BY <1>16 DEF Execute
  <2>2. MayExecute(op)' \subseteq MayExecute(op)
    BY <1>0, <1>1, <2>1, MayShrinks
  <2>3. CASE executed'[op] = executed[op]
    BY <1>0, <1>3, <2>2, <2>3, Spent
  <2>4. CASE executed'[op] # executed[op]
    <3>1. PICK o \in Outcomes :
            /\ Counted(o)
            /\ executed' = Effect(o, [executed EXCEPT ![uctx[c].state] = @ + 1],
                                  executed)
            /\ GotoIfOk(c, o, "reset")
      BY <1>16, <2>4 DEF Execute
    <3>2. executed' = [executed EXCEPT ![uctx[c].state] = @ + 1]
      BY <2>4, <3>1 DEF Effect
    <3>3. uctx[c].state = op /\ executed'[op] = executed[op] + 1
      BY <1>0, <2>4, <3>2
    <3>4. c \in MayExecute(op)
      BY <2>1, <3>3 DEF MayExecute
    <3>5. c \notin MayExecute(op)' \/ Granted(op)' > Granted(op)
      <4>1. CASE o = "ok"
        <5>1. pc'[c] = "reset"
          BY <1>0, <3>1, <4>1 DEF GotoIfOk, Goto
        <5> QED BY <5>1 DEF MayExecute
      <4>2. CASE o # "ok"
        BY <1>0, <1>3, <3>1, <4>2 DEF Counted
      <4> QED BY <4>1, <4>2
    <3> QED BY <1>0, <1>3, <2>2, <3>3, <3>4, <3>5, Spent
  <2> QED BY <2>3, <2>4
<1>17. CASE Reset(c)
  <2>1. PICK o : Write(o, UpdUserStateCtx(ctx, "None"))
    BY <1>17 DEF Reset
  <2>2. UpdUserStateCtx(ctx, "None").state # op
    BY <1>0, WrittenData, NoOneShot
  <2> QED BY <1>3, <1>4, <1>5, <1>17, <2>1, <2>2 DEF Reset
<1>18. CASE PlayWord(c)
  <2>1. \/ UNCHANGED ctx
        \/ \E o : Write(o, SetUserCtx("Shiritori", ShiritoriKind))
        \/ \E o : Write(o, UpdateUserDataCtx(ctx, ShiritoriKind))
    BY <1>18 DEF PlayWord
  <2>2. /\ SetUserCtx("Shiritori", ShiritoriKind).state # op
        /\ UpdateUserDataCtx(ctx, ShiritoriKind).state = ctx.state
    BY <1>0, WrittenData, NoOneShot
  <2>3. \/ Granted(op)' > Granted(op)
        \/ ctx'.state = op => ctx.state = op
    BY <1>3, <1>5, <1>6, <2>1, <2>2
  <2> QED BY <1>4, <1>18, <2>3 DEF PlayWord
<1>19. CASE Generate(c)
  <2>1. \/ UNCHANGED ctx
        \/ \E o : Write(o, UpdateUserDataCtx(ctx, ChatKind))
    BY <1>19 DEF Generate
  <2>2. UpdateUserDataCtx(ctx, ChatKind).state = ctx.state
    BY <1>0, WrittenData
  <2>3. ctx'.state = ctx.state
    BY <1>6, <2>1, <2>2
  <2> QED BY <1>4, <1>19, <2>3 DEF Generate
<1> QED BY <1>7, <1>8, <1>9, <1>10, <1>11, <1>12, <1>13, <1>14, <1>15, <1>16,
           <1>17, <1>18, <1>19 DEF Step

\* A command adds to the calls of the mode it sets.
LEMMA CallsCounted ==
  ASSUME CountersOK, NEW op \in OneShots, NEW m \in DOMAIN Meaning,
         asked' = [asked EXCEPT ![Meaning[m]] = @ + 1]
  PROVE  Calls(op)' = IF Asks(m, op) THEN Calls(op) + 1 ELSE Calls(op)
<1>1. /\ asked \in [OneShots -> Nat]
      /\ {"WordsAdding", "TaskDeleting", "WordDeleting"} \subseteq OneShots
  BY DEF CountersOK, OneShots, AdminModes
<1>2. CASE m \in {"words_add", "task_del", "word_del"}
  <2>1. /\ ModeSet(m) = "WordsAdding"
        /\ Meaning[m] \in {"WordsAdding", "TaskDeleting", "WordDeleting"}
    BY <1>2 DEF ModeSet, ModeOf, Meaning
  <2> QED BY <1>1, <2>1 DEF Calls, Asks
<1>3. CASE m \notin {"words_add", "task_del", "word_del"}
  <2>1. /\ ModeSet(m) = Meaning[m] /\ Meaning[m] \in OneShots
        /\ Meaning[m] \notin {"WordsAdding", "TaskDeleting", "WordDeleting"}
    BY <1>3, ModeTypes DEF ModeSet, ModeOf, Meaning
  <2> QED BY <1>1, <2>1 DEF Calls, Asks
<1> QED BY <1>2, <1>3

LEMMA PayloadReceive ==
  ASSUME TypeInv, TypeInv', NEW op \in OneShots, PayloadInv(op),
         NEW c \in Conns, NEW m \in Inputs, Receive(c, m)
  PROVE  PayloadInv(op)'
<1>0. /\ HandlersOK /\ CountersOK /\ CountersOK'
      /\ faults \in Nat /\ faults' = faults /\ asked \in [OneShots -> Nat]
      /\ executed' = executed /\ ctx' = ctx /\ uctx' = uctx
  BY DEF TypeInv, CountersOK, Receive
<1>1. /\ pc[c] = "idle" /\ pc'[c] = "read" /\ msg'[c] = m
      /\ \A d \in Conns : d # c => pc'[d] = pc[d] /\ msg'[d] = msg[d]
  BY <1>0 DEF HandlersOK, Receive
<1>2. MayExecute(op)' \subseteq MayExecute(op)
  BY <1>0, <1>1 DEF MayExecute
<1>3. Granted(op)' = Granted(op) /\ Granted(op) \in Int
  <2> DEFINE P == Pending(op)
             Q == Pending(op)'
  <2>1. /\ Granted(op) = Calls(op) + faults - Cardinality(P)
        /\ Granted(op)' = Calls(op)' + faults' - Cardinality(Q)
    BY DEF Granted
  <2>2. P \in SUBSET Conns /\ c \notin P
    BY <1>1 DEF Pending, Entering
  <2>3. CASE Asks(m, op)
    <3>1. Q = P \union {c}
      BY <1>1, <2>3 DEF Pending, Entering
    <3>2. Calls(op)' = Calls(op) + 1
      BY <1>0, <2>3, CallsCounted DEF Receive, Asks
    <3> HIDE DEF P, Q
    <3>3. Cardinality(P) \in Nat /\ Cardinality(Q) = Cardinality(P) + 1
      BY <2>2, <3>1, SubsetSize, FS_AddElement
    <3>4. Calls(op) \in Nat
      BY <1>0, CallsType
    <3> QED BY <1>0, <2>1, <3>2, <3>3, <3>4
  <2>4. CASE ~ Asks(m, op)
    <3>1. Q = P
      BY <1>1, <2>4 DEF Pending, Entering
    <3>2. Calls(op)' = Calls(op)
      <4>1. CASE m \in DOMAIN Meaning
        BY <1>0, <2>4, <4>1, CallsCounted DEF Receive
      <4>2. CASE m \notin DOMAIN Meaning
        BY <4>2 DEF Receive, Calls
      <4> QED BY <4>1, <4>2
    <3> HIDE DEF P, Q
    <3>3. Cardinality(P) \in Nat
      BY <2>2, SubsetSize
    <3>4. Calls(op) \in Nat
      BY <1>0, CallsType
    <3> QED BY <1>0, <2>1, <3>1, <3>2, <3>3, <3>4
  <2> QED BY <2>3, <2>4
<1>4. executed'[op] = executed[op]
  BY <1>0
<1> QED BY <1>0, <1>2, <1>3, <1>4, Spent

\* What a handler knows of its own text and copy stays true.
LEMMA RouteNext == TypeInv /\ RouteInv /\ [Next]_vars => RouteInv'
<1> SUFFICES ASSUME TypeInv, RouteInv, [Next]_vars PROVE RouteInv'
  OBVIOUS
<1>0. HandlersOK
  BY DEF TypeInv
<1>1. ASSUME NEW c \in Conns, NEW m, Receive(c, m) PROVE RouteInv'
  BY <1>0, <1>1 DEF Receive, HandlersOK, RouteInv
<1>2. ASSUME NEW c \in Conns, Step(c) PROVE RouteInv'
  <2>1. Moves(c)
    BY <1>2, StepMoves
  <2> SUFFICES /\ pc'[c] \in {"find", "save", "enter"} => msg'[c] = "learning"
               /\ pc'[c] = "score" => uctx'[c].state = "TaskLearning"
    BY <1>0, <2>1, OthersStay DEF RouteInv
  <2>2. CASE Finish(c) \/ Goto(c, "reset")
    BY <1>0, <2>2 DEF HandlersOK, Finish, Goto
  <2>3. CASE \/ Goto(c, "save") /\ pc[c] = "find"
             \/ Goto(c, "enter") /\ pc[c] = "save"
    BY <1>0, <2>3 DEF HandlersOK, Goto, RouteInv
  <2>4. CASE /\ UNCHANGED msg
             /\ pc' = [pc EXCEPT ![c] = Route(msg[c], ctx.state)]
             /\ uctx' = [uctx EXCEPT ![c] = ctx]
    <3>1. /\ Route(msg[c], ctx.state) \in {"find", "save", "enter"}
               => msg[c] = "learning"
          /\ Route(msg[c], ctx.state) = "score" => ctx.state = "TaskLearning"
      <4> HIDE DEF ModeOf, AiModeOf
      <4> QED BY DEF Route
    <3> QED BY <1>0, <2>4, <3>1 DEF HandlersOK
  <2> QED BY <2>1, <2>2, <2>3, <2>4 DEF Moves
<1>3. ASSUME Expire \/ UNCHANGED vars PROVE RouteInv'
  BY <1>3 DEF Expire, handlers, vars, RouteInv
<1>4. ASSUME Crash PROVE RouteInv'
  BY <1>4 DEF Crash, RouteInv
<1> QED BY <1>1, <1>2, <1>3, <1>4 DEF Next

Budgets == \A op \in OneShots : PayloadInv(op)

LEMMA BudgetsNext ==
  TypeInv /\ TypeInv' /\ RouteInv /\ Budgets /\ [Next]_vars => Budgets'
<1> SUFFICES ASSUME TypeInv, TypeInv', RouteInv, Budgets, [Next]_vars,
                    NEW op \in OneShots
             PROVE  PayloadInv(op)'
  BY DEF Budgets
<1>0. PayloadInv(op) /\ CountersOK /\ CountersOK' /\ HandlersOK
  BY DEF Budgets, TypeInv
<1>1. ASSUME NEW c \in Conns, NEW m \in Inputs, Receive(c, m) PROVE PayloadInv(op)'
  BY <1>0, <1>1, PayloadReceive
<1>2. ASSUME NEW c \in Conns, Step(c) PROVE PayloadInv(op)'
  BY <1>0, <1>2, PayloadStep
\* The other steps execute nothing and grant no less.
<1>3. ASSUME asked' = asked, executed' = executed,
             Pending(op)' \subseteq Pending(op),
             \/ faults' = faults + 1
             \/ faults' = faults /\ MayExecute(op)' \subseteq MayExecute(op)
      PROVE  PayloadInv(op)'
  <2>1. /\ Granted(op)' \in Int /\ Granted(op)' >= Granted(op)
        /\ faults' # faults => Granted(op)' > Granted(op)
    BY <1>0, <1>3, Grants
  <2>2. MayExecute(op)' \subseteq MayExecute(op) \/ Granted(op)' > Granted(op)
    BY <1>0, <1>3, <2>1 DEF CountersOK
  <2>3. executed'[op] = executed[op]
    BY <1>3
  <2> QED BY <1>0, <2>1, <2>2, <2>3, Spent
<1>4. ASSUME Expire PROVE PayloadInv(op)'
  <2>1. ctx'.state # op
    BY <1>4, NoOneShot DEF Expire, NoCtx
  <2>2. Pending(op)' \subseteq Pending(op)
    BY <1>4 DEF Expire, handlers, Pending
  <2>3. MayExecute(op)' \subseteq MayExecute(op)
    BY <1>4, <2>1 DEF Expire, handlers, MayExecute
  <2> QED BY <1>3, <1>4, <2>2, <2>3 DEF Expire
<1>5. ASSUME Crash PROVE PayloadInv(op)'
  <2>1. Pending(op)' \subseteq Pending(op)
    BY <1>5 DEF Crash, Pending, Entering
  <2> QED BY <1>3, <1>5, <2>1 DEF Crash, Counted
<1>6. ASSUME UNCHANGED vars PROVE PayloadInv(op)'
  <2>1. /\ Pending(op)' \subseteq Pending(op)
        /\ MayExecute(op)' \subseteq MayExecute(op)
    BY <1>6 DEF vars, handlers, Pending, MayExecute
  <2> QED BY <1>3, <1>6, <2>1 DEF vars
<1> QED BY <1>1, <1>2, <1>4, <1>5, <1>6 DEF Next

LEMMA BudgetsInit == Init => RouteInv /\ Budgets
<1>1. Init => RouteInv
  BY DEF Init, RouteInv
<1> SUFFICES ASSUME Init, NEW op \in OneShots PROVE PayloadInv(op)
  BY <1>1 DEF Budgets
<1>2. MayExecute(op) = {} /\ Pending(op) = {}
  BY NoOneShot DEF Init, NoCtx, MayExecute, Pending, Entering
<1>3. Calls(op) = 0 /\ executed[op] = 0 /\ faults = 0
  BY DEF Init, Calls, OneShots, AdminModes
<1>4. Granted(op) = 0
  BY <1>2, <1>3, FS_EmptySet DEF Granted
<1>5. PayloadInv(op)
  BY <1>2, <1>3, <1>4, FS_EmptySet, ConnsFinite DEF PayloadInv
<1> QED BY <1>5

\* What was granted is at most what was asked for and what failed.
LEMMA BudgetKept ==
  ASSUME TypeInv, NEW op \in OneShots, PayloadInv(op), NEW k \in Nat, Calls(op) <= k
  PROVE  executed[op] <= Cardinality(Conns) * (k + faults)
<1> DEFINE n == Cardinality(Conns)
           g == Granted(op)
           p == Cardinality(Pending(op)) + (k - Calls(op))
<1>1. /\ executed[op] \in Nat /\ Calls(op) \in Nat /\ faults \in Nat
      /\ n \in Nat /\ Cardinality(MayExecute(op)) \in Nat
      /\ Cardinality(Pending(op)) \in Nat
  BY ConnsFinite, PayloadSets, SubsetSize, CallsType DEF TypeInv, CountersOK
<1>2. g \in Nat /\ executed[op] + Cardinality(MayExecute(op)) <= n * g
  BY DEF PayloadInv
<1>3. k + faults = g + p /\ p \in Nat
  BY <1>1, <1>2 DEF Granted
<1> HIDE DEF n, g, p
<1>4. n * (g + p) = n * g + n * p /\ n * p \in Nat /\ n * g \in Nat
  BY <1>1, <1>2, <1>3
<1>5. executed[op] <= n * (k + faults)
  BY <1>1, <1>2, <1>3, <1>4
<1> QED BY <1>5 DEF n

\* Whatever is written on however many connections, and whatever fails,
\* crashes or expires: a mode takes per command that sets it, and per failure,
\* at most one payload of each connection.
THEOREM PayloadsBySetting ==
  Spec => [](\A op \in OneShots :
               executed[op] <= Cardinality(Conns) * (Calls(op) + faults))
<1>1. TypeInv /\ Budgets =>
        \A op \in OneShots :
          executed[op] <= Cardinality(Conns) * (Calls(op) + faults)
  <2> SUFFICES ASSUME TypeInv, Budgets, NEW op \in OneShots
               PROVE  executed[op] <= Cardinality(Conns) * (Calls(op) + faults)
    OBVIOUS
  <2>1. Calls(op) \in Nat /\ Calls(op) <= Calls(op) /\ PayloadInv(op)
    BY CallsType DEF TypeInv, Budgets
  <2> QED BY <2>1, BudgetKept
<1> QED BY <1>1, InitTypeInv, TypeNext, BudgetsInit, RouteNext, BudgetsNext, PTL
        DEF Spec

\* Without the commands for a deletion, nobody asks for one.
Deletions == {"task_del", "word_del"}
NoDeletion == asked["TaskDeleting"] = 0 /\ asked["WordDeleting"] = 0

LEMMA NoDeletionNext ==
  ASSUME Inputs \intersect Deletions = {}
  PROVE  TypeInv /\ NoDeletion /\ [Next]_vars => NoDeletion'
<1> SUFFICES ASSUME TypeInv, NoDeletion, [Next]_vars PROVE NoDeletion'
  OBVIOUS
<1>1. ASSUME NEW c, NEW m \in Inputs, Receive(c, m) PROVE NoDeletion'
  <2>1. CASE m \in DOMAIN Meaning
    <3>1. /\ Meaning[m] \notin {"TaskDeleting", "WordDeleting"}
          /\ asked' = [asked EXCEPT ![Meaning[m]] = @ + 1]
      BY <1>1, <2>1 DEF Receive, Meaning, Deletions
    <3> QED BY <3>1 DEF NoDeletion, TypeInv, CountersOK
  <2>2. CASE m \notin DOMAIN Meaning
    BY <1>1, <2>2 DEF Receive, NoDeletion
  <2> QED BY <2>1, <2>2
<1>2. ASSUME asked' = asked PROVE NoDeletion'
  BY <1>2 DEF NoDeletion
<1> QED BY <1>1, <1>2, StepMoves DEF Next, Expire, Crash, vars

\* If the commands for a deletion, which set the wrong mode, are not used,
\* then every mode takes what was asked for by its own meaning.
THEOREM PayloadsAreAskedFor ==
  ASSUME Inputs \intersect Deletions = {}
  PROVE  Spec => []PayloadsAsked
<1>1. Init => NoDeletion
  BY DEF Init, NoDeletion, OneShots, AdminModes
<1>2. TypeInv /\ NoDeletion /\ [Next]_vars => NoDeletion'
  BY NoDeletionNext
<1>3. TypeInv /\ Budgets /\ NoDeletion => PayloadsAsked
  <2> SUFFICES ASSUME TypeInv, Budgets, NoDeletion, NEW op \in OneShots
               PROVE  executed[op] <= Cardinality(Conns) * (asked[op] + faults)
    BY DEF PayloadsAsked
  <2>1. asked[op] \in Nat /\ Calls(op) <= asked[op]
    BY DEF TypeInv, CountersOK, NoDeletion, Calls
  <2> QED BY <2>1, BudgetKept DEF Budgets
<1> QED BY <1>1, <1>2, <1>3, InitTypeInv, TypeNext, BudgetsInit, RouteNext,
           BudgetsNext, PTL DEF Spec
=============================================================================
