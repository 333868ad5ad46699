---------------------------- MODULE UserContext ----------------------------
(***************************************************************************)
(* The state manager of the gateway: the Redis hash that holds the user's  *)
(* dialogue state and the JSON of the session in progress, and the four    *)
(* operations every message handler goes through.                          *)
(*                                                                         *)
(* A missing key (never written, or expired) reads as state None with no   *)
(* data, and the two Lua scripts create the missing half of a missing key  *)
(* with exactly these values, so the hash and its absence need not be told *)
(* apart: NoCtx stands for both.                                           *)
(***************************************************************************)
EXTENDS Integers

\* The empty string.
Empty == "empty"

\* The dialogue states.
UserStates == {"None", "TasksAdding", "TaskDeleting", "WordsAdding",
               "WordDeleting", "TaskLearning", "AdminNotCommand", "Shiritori",
               "SetSysPrompt", "SetLangLevel", "TTS", "STT", "TTT", "STS",
               "TranscriptVoice", "AiSetting", "ChangeModel"}

\* The empty JSON string.
NoData == [kind |-> "none"]

\* The three session types share no JSON field name, so data written by one
\* of them unmarshals into another as the zero value of that other type.
TaskSession(theme, counter, answer) ==
  [kind |-> "task", theme |-> theme, counter |-> counter, answer |-> answer]

AsTaskSession(data) ==
  IF data.kind = "task" THEN data ELSE TaskSession(Empty, 0, Empty)

\* A ChattingSession; Empty is the LastMessage of a session without one.
ChattingSession(last) == [kind |-> "chat", last |-> last]

AsChattingSession(data) ==
  IF data.kind = "chat" THEN data ELSE ChattingSession(Empty)

NoCtx == [state |-> "None", data |-> NoData]

\* HMSET of both fields.
SetUserCtx(state, data) == [state |-> state, data |-> data]

\* The script updateonlystate: the data is kept.
UpdUserStateCtx(ctx, state) == [ctx EXCEPT !.state = state]

\* The script updateonlyjsondata: the state is kept.
UpdateUserDataCtx(ctx, data) == [ctx EXCEPT !.data = data]
=============================================================================
