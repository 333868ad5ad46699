------------------------------ MODULE Dialogue ------------------------------
(***************************************************************************)
(* The dialogue of the gateway: every command and every mode of            *)
(* handleMessage, handleAdmin and handleUser, and what they do to the user *)
(* context.  A command switches the mode; in most modes the next text that *)
(* is no command is its payload.  What a learning answer, a Shiritori word *)
(* or an AI message does besides is left to the modules Learning and       *)
(* Shiritori and to the services; here a session is no more than its kind. *)
(*                                                                         *)
(* All connections share one user context.  A handler reads it first and   *)
(* acts on this copy, however long its remote call takes.                  *)
(***************************************************************************)
EXTENDS UserContext, FiniteSets, FiniteSetsExt

CONSTANTS Conns,     \* WebSocket connections
          Inputs,    \* the texts the user writes; what is no command is a payload
          MaxAsked,  \* bound: commands that ask for a payload
          MaxFaults  \* bound: failing calls and crashes

ASSUME DialogueAssumption ==
  /\ IsFiniteSet(Conns) /\ Conns # {}
  /\ MaxAsked \in Nat /\ MaxFaults \in Nat

\* The state each mode command sets, as the code has it.
ModeOf ==
  [changelevel |-> "SetLangLevel", changeprompt |-> "SetSysPrompt",
   changemodel |-> "ChangeModel",
   shiritori |-> "Shiritori", chatting |-> "AiSetting",
   tasks_add |-> "TasksAdding", words_add |-> "WordsAdding",
   task_del |-> "WordsAdding", word_del |-> "WordsAdding"]

\* The choices of mode AiSetting.
AiModeOf == [ttt |-> "TTT", tts |-> "TTS", stt |-> "STT", sts |-> "STS"]

\* Commands that leave the user context alone.
Informative == {"help", "profile", "clearcontext", "transcript"}

\* The modes that take one payload, hand it to a service and end.
AdminModes == {"TasksAdding", "WordsAdding", "TaskDeleting", "WordDeleting"}
SettingModes == {"SetLangLevel", "SetSysPrompt", "ChangeModel"}
OneShots == AdminModes \union SettingModes \union {"TaskLearning"}

\* What the commands for a payload ask for according to the help text.
Meaning ==
  [changelevel |-> "SetLangLevel", changeprompt |-> "SetSysPrompt",
   changemodel |-> "ChangeModel", learning |-> "TaskLearning",
   tasks_add |-> "TasksAdding", words_add |-> "WordsAdding",
   task_del |-> "TaskDeleting", word_del |-> "WordDeleting"]

VARIABLES ctx,      \* the user context in Redis
          pc,       \* where each connection's handler is
          msg,      \* the text it handles
          uctx,     \* the user context it read
          faults,   \* history: failing calls and crashes
          asked,    \* history: how often each one-shot mode was asked for
          executed  \* history: how many payloads each one-shot mode took

handlers == <<pc, msg, uctx>>
vars == <<ctx, handlers, faults, asked, executed>>

\* Only the kind of a session matters here.
TaskKind == TaskSession(Empty, 0, Empty)
ChatKind == ChattingSession(Empty)
ShiritoriKind == [kind |-> "shiritori"]

Init ==
  /\ ctx = NoCtx
  /\ pc = [c \in Conns |-> "idle"]
  /\ msg = [c \in Conns |-> Empty]
  /\ uctx = [c \in Conns |-> NoCtx]
  /\ faults = 0
  /\ asked = [op \in OneShots |-> 0]
  /\ executed = [op \in OneShots |-> 0]

-----------------------------------------------------------------------------
\* A remote call is carried out and answered, fails before it had an effect,
\* or has its effect while the caller sees an error.
Outcomes == {"ok", "lost", "unseen"}

Counted(o) ==
  /\ o # "ok" => faults < MaxFaults
  /\ faults' = IF o = "ok" THEN faults ELSE faults + 1

Effect(o, new, old) == IF o = "lost" THEN old ELSE new

Goto(c, label) == pc' = [pc EXCEPT ![c] = label] /\ UNCHANGED <<msg, uctx>>

\* The handler replies and waits for the next text.
Finish(c) ==
  /\ pc' = [pc EXCEPT ![c] = "idle"]
  /\ msg' = [msg EXCEPT ![c] = Empty]
  /\ uctx' = [uctx EXCEPT ![c] = NoCtx]

GotoIfOk(c, o, label) == IF o = "ok" THEN Goto(c, label) ELSE Finish(c)

\* One write to the user context.
Write(o, new) == Counted(o) /\ ctx' = Effect(o, new, ctx)

-----------------------------------------------------------------------------
\* How often a payload was asked for so far.
Requested == MapThenSumSet(LAMBDA op : asked[op], OneShots)

Receive(c, m) ==
  /\ pc[c] = "idle"
  /\ pc' = [pc EXCEPT ![c] = "read"]
  /\ msg' = [msg EXCEPT ![c] = m]
  /\ IF m \in DOMAIN Meaning
     THEN /\ Requested < MaxAsked
          /\ asked' = [asked EXCEPT ![Meaning[m]] = @ + 1]
     ELSE UNCHANGED asked
  /\ UNCHANGED <<ctx, uctx, faults, executed>>

\* Who handles text m in a state: the switch of handleMessage, then the one
\* of handleAdmin, then "/stop" and the switch of handleUser.
Route(m, state) ==
  CASE m = "/start"                                   -> "clear"
    [] m = "learning"                                 -> "find"
    [] m \in Informative                              -> "inform"
    [] m \in DOMAIN ModeOf                            -> "mode"
    [] state \in AdminModes                           -> "execute"
    [] m = "/stop" /\ state # "Shiritori"             -> "reset"
    [] state \in SettingModes                         -> "execute"
    [] state = "TaskLearning"                         -> "score"
    [] state = "Shiritori" /\ m = "stop"              -> "clear"
    [] state = "Shiritori"                            -> "word"
    [] state = "AiSetting" /\ m \in DOMAIN AiModeOf   -> "choose"
    [] state \in {"AiSetting", "STT"}                 -> "inform"
    [] state \in {"TTT", "TTS", "STS"}                -> "generate"
    [] OTHER                                          -> "reset"

GetUserCtx(c) ==
  /\ pc[c] = "read"
  /\ \/ /\ uctx' = [uctx EXCEPT ![c] = ctx]
        /\ pc' = [pc EXCEPT ![c] = Route(msg[c], ctx.state)]
        /\ UNCHANGED <<msg, faults>>
     \/ Counted("lost") /\ Finish(c)
  /\ UNCHANGED <<ctx, asked, executed>>

\* help, profile, clearcontext, transcript, a bad choice, and speech to text:
\* a reply and nothing else.
Inform(c) ==
  /\ pc[c] = "inform"
  /\ Finish(c)
  /\ UNCHANGED <<ctx, faults, asked, executed>>

\* "/start", and "stop" in the word game: both fields at once.
Clear(c) ==
  /\ pc[c] = "clear"
  /\ \E o \in Outcomes : Write(o, SetUserCtx("None", NoData))
  /\ Finish(c)
  /\ UNCHANGED <<asked, executed>>

SetMode(c) ==
  /\ pc[c] = "mode"
  /\ \E o \in Outcomes : Write(o, UpdUserStateCtx(ctx, ModeOf[msg[c]]))
  /\ Finish(c)
  /\ UNCHANGED <<asked, executed>>

\* A variant of ChooseAi that stores the text itself.
ChooseAiText(c) ==
  /\ pc[c] = "choose"
  /\ \E o \in Outcomes : Write(o, UpdUserStateCtx(ctx, msg[c]))
  /\ Finish(c)
  /\ UNCHANGED <<asked, executed>>

ChooseAi(c) ==
  /\ pc[c] = "choose"
  /\ \E o \in Outcomes : Write(o, UpdUserStateCtx(ctx, AiModeOf[msg[c]]))
  /\ Finish(c)
  /\ UNCHANGED <<asked, executed>>

\* learning: GetData and GetTasks; there may be no task.
FindTask(c) ==
  /\ pc[c] = "find"
  /\ \/ Goto(c, "save") /\ UNCHANGED faults
     \/ Finish(c) /\ UNCHANGED faults
     \/ Finish(c) /\ Counted("lost")
  /\ UNCHANGED <<ctx, asked, executed>>

\* A variant of SaveTask that goes on when the task could not be saved.
SaveTaskRegardless(c) ==
  /\ pc[c] = "save"
  /\ \E o \in Outcomes : Write(o, UpdateUserDataCtx(ctx, TaskKind))
  /\ Goto(c, "enter")
  /\ UNCHANGED <<asked, executed>>

SaveTask(c) ==
  /\ pc[c] = "save"
  /\ \E o \in Outcomes : /\ Write(o, UpdateUserDataCtx(ctx, TaskKind))
                         /\ GotoIfOk(c, o, "enter")
  /\ UNCHANGED <<asked, executed>>

EnterLearning(c) ==
  /\ pc[c] = "enter"
  /\ \E o \in Outcomes : Write(o, UpdUserStateCtx(ctx, "TaskLearning"))
  /\ Finish(c)
  /\ UNCHANGED <<asked, executed>>

\* The answer to a task.  That the session cannot be saved is only logged.
SaveScore(c) ==
  /\ pc[c] = "score"
  /\ \E o \in Outcomes : Write(o, UpdateUserDataCtx(ctx, TaskKind))
  /\ executed' = [executed EXCEPT !["TaskLearning"] = @ + 1]
  /\ Goto(c, "reset")
  /\ UNCHANGED asked

\* A variant of Execute that does not reset the state.
ExecuteNoReset(c) ==
  LET op == uctx[c].state
  IN /\ pc[c] = "execute"
     /\ \E o \in Outcomes :
          /\ Counted(o)
          /\ executed' = Effect(o, [executed EXCEPT ![op] = @ + 1], executed)
          /\ Finish(c)
     /\ UNCHANGED <<ctx, asked>>

\* A one-shot mode hands its payload to the service.  If the service refuses
\* it (bad JSON, no such level) or the call fails the mode stays.
Execute(c) ==
  LET op == uctx[c].state
  IN /\ pc[c] = "execute"
     /\ \/ \E o \in Outcomes :
             /\ Counted(o)
             /\ executed' = Effect(o, [executed EXCEPT ![op] = @ + 1], executed)
             /\ GotoIfOk(c, o, "reset")
        \/ Finish(c) /\ UNCHANGED <<faults, executed>>
     /\ UNCHANGED <<ctx, asked>>

\* Back to StateNone: after an answer or a payload, on "/stop", and on a text
\* nobody handles.
Reset(c) ==
  /\ pc[c] = "reset"
  /\ \E o \in Outcomes : Write(o, UpdUserStateCtx(ctx, "None"))
  /\ Finish(c)
  /\ UNCHANGED <<asked, executed>>

\* A word of the game: it is accepted and both fields are set, or the session
\* alone is saved, or nothing is (an illegal word, or no answer from the
\* service).
PlayWord(c) ==
  /\ pc[c] = "word"
  /\ \/ \E o \in Outcomes : Write(o, SetUserCtx("Shiritori", ShiritoriKind))
     \/ \E o \in Outcomes : Write(o, UpdateUserDataCtx(ctx, ShiritoriKind))
     \/ UNCHANGED <<ctx, faults>>
  /\ Finish(c)
  /\ UNCHANGED <<asked, executed>>

\* A message to the AI: if the text was generated, the session is saved.
Generate(c) ==
  /\ pc[c] = "generate"
  /\ \/ \E o \in Outcomes : Write(o, UpdateUserDataCtx(ctx, ChatKind))
     \/ UNCHANGED <<ctx, faults>>
  /\ Finish(c)
  /\ UNCHANGED <<asked, executed>>

\* The key expires 30 minutes after the last write; between the two writes of
\* "learning" there is no such time.
Expire ==
  /\ \A c \in Conns : pc[c] # "enter"
  /\ ctx' = NoCtx
  /\ UNCHANGED <<handlers, faults, asked, executed>>

\* The gateway stops and is restarted.
Crash ==
  /\ \E c \in Conns : pc[c] # "idle"
  /\ Counted("lost")
  /\ pc' = [c \in Conns |-> "idle"]
  /\ msg' = [c \in Conns |-> Empty]
  /\ uctx' = [c \in Conns |-> NoCtx]
  /\ UNCHANGED <<ctx, asked, executed>>

Step(c) ==
  \/ GetUserCtx(c) \/ Inform(c) \/ Clear(c) \/ SetMode(c) \/ ChooseAi(c)
  \/ FindTask(c) \/ SaveTask(c) \/ EnterLearning(c) \/ SaveScore(c)
  \/ Execute(c) \/ Reset(c) \/ PlayWord(c) \/ Generate(c)

Next ==
  \/ \E c \in Conns : (\E m \in Inputs : Receive(c, m)) \/ Step(c)
  \/ Expire
  \/ Crash

Spec == Init /\ [][Next]_vars

-----------------------------------------------------------------------------
Sessions == {NoData, TaskKind, ChatKind, ShiritoriKind}
Contexts == [state : UserStates, data : Sessions]

Labels == {"idle", "read", "clear", "find", "save", "enter", "inform", "mode",
           "execute", "reset", "score", "word", "choose", "generate"}

\* Every variable has its type.
TypeOK ==
  /\ ctx \in Contexts
  /\ pc \in [Conns -> Labels]
  /\ msg \in [Conns -> Inputs \union {Empty}]
  /\ uctx \in [Conns -> Contexts]
  /\ faults \in Nat
  /\ asked \in [OneShots -> Nat] /\ executed \in [OneShots -> Nat]

\* In learning mode the session is the one of a task, whatever modes were
\* visited before and wherever their handlers failed: no text is compared with
\* the missing answer of another mode's session.  (One connection.)
LearningHasTask == ctx.state = "TaskLearning" => ctx.data.kind = "task"

\* No mode takes more payloads than it was asked for, even when resets fail
\* and connections hold stale copies of the state: per command (and per
\* failure, which may leave a mode in force) one payload of each connection.
PayloadsAsked ==
  \A op \in OneShots :
    executed[op] <= Cardinality(Conns) * (asked[op] + faults)
=============================================================================
