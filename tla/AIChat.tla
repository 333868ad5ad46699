------------------------------- MODULE AIChat -------------------------------
(***************************************************************************)
(* The four AI modes of the gateway, over ai-service: text to text (TTT),  *)
(* text to speech (TTS), speech to text (STT) and speech to speech (STS),  *)
(* with the commands "clearcontext", "transcript" and "changemodel".       *)
(* Every tab has a handler of its own; they share the user context,        *)
(* ai-service and a pool of audio buffers.  A mode is chosen between two   *)
(* messages (module Dialogue).                                             *)
(*                                                                         *)
(* A handler waits for ai-service up to a deadline.  It collects text and  *)
(* speech in its audio buffer and puts the buffer back into the pool while *)
(* its reply still refers to the bytes in it.                              *)
(***************************************************************************)
EXTENDS AIService

CONSTANTS Modes,  \* the modes the user chooses
          Tabs,   \* tabs in which the user writes
          Bufs    \* audio buffers of the pool

ASSUME AIChatAssumption ==
  /\ Modes \subseteq {"TTT", "TTS", "STT", "STS"}
  /\ IsFiniteSet(Tabs) /\ IsFiniteSet(Bufs) /\ Cardinality(Bufs) >= Cardinality(Tabs)
  /\ "none" \notin Bufs

Spoken == {"TTS", "STS"}

VARIABLES last,   \* LastMessage of the ChattingSession in the user context
          calls,  \* how many calls of ai-service the user's messages made
          pc,     \* where each tab's handler is
          mode,   \* the mode in which it handles its message
          call,   \* the number of its message
          buf,    \* its audio buffer
          free,   \* the buffers in the pool
          bytes,  \* what was last written to the array of each buffer
          reply,  \* the reply to the message
          shared  \* history: the tabs whose buffer somebody else took before
                  \* the reply was written

handlers == <<pc, mode, call, buf, reply>>
pool == <<free, bytes, shared>>
vars == <<aivars, last, calls, handlers, pool>>

\* The buffer of a handler that has none.
NoBuf == "none"

\* The first k pieces of the answer to message t; 0 pieces are no text.
Text(t, k) == [of |-> IF k = 0 THEN 0 ELSE t, upto |-> k]
NoText == Text(0, 0)

\* What a buffer may hold.
NoBytes == [kind |-> "nothing"]
Bytes(kind, t, k) == [kind |-> kind, of |-> t, upto |-> k]

NoReply == [kind |-> "none"]
ErrorReply == [kind |-> "error"]
ClearedReply == [kind |-> "cleared"]

InitChat ==
  /\ last = NoText
  /\ calls = 0
  /\ pc = [c \in Tabs |-> "idle"]
  /\ mode = [c \in Tabs |-> "None"]
  /\ call = [c \in Tabs |-> 0]
  /\ buf = [c \in Tabs |-> NoBuf]
  /\ free = Bufs
  /\ bytes = [b \in Bufs |-> NoBytes]
  /\ reply = [c \in Tabs |-> NoReply]
  /\ shared = {}

Init == InitAI /\ InitChat

-----------------------------------------------------------------------------
Speaks(c) == mode[c] \in Spoken

\* What handler c has in its buffer while it waits.
Collected(c) ==
  CASE pc[c] = "hear" /\ Speaks(c) /\ hear[call[c]].out # <<>> ->
         Bytes("words", call[c], 0)
    [] pc[c] = "text" /\ Speaks(c) /\ gen[call[c]].sent > 0 ->
         Bytes("text", call[c], gen[call[c]].sent)
    [] OTHER -> NoBytes

\* The bytes of a buffer, written by the handler that has it or before.
BytesOf(b) ==
  LET writers == {d \in Tabs : buf[d] = b /\ Collected(d) # NoBytes} IN
    IF writers = {} THEN bytes[b] ELSE Collected(CHOOSE d \in writers : TRUE)

Collect(c) ==
  bytes' = IF Collected(c) = NoBytes THEN bytes
           ELSE [bytes EXCEPT ![buf[c]] = Collected(c)]

\* The reply r is made and the buffer goes back to the pool.
Answer(c, r) ==
  /\ pc' = [pc EXCEPT ![c] = "write"]
  /\ reply' = [reply EXCEPT ![c] = r]
  /\ free' = free \union {buf[c]}
  /\ UNCHANGED <<mode, call, buf, shared>>

\* An error makes a reply of the error text, unless there is something in the
\* buffer: that is sent as sound.
Fail(c) ==
  /\ Collect(c)
  /\ Answer(c, IF Collected(c) = NoBytes THEN ErrorReply
               ELSE [kind |-> "audio", failed |-> TRUE])

\* Handler c waits for the next answer of ai-service.
WaitFor(c, label) == pc' = [pc EXCEPT ![c] = label] /\ UNCHANGED <<mode, call, buf, reply>>

-----------------------------------------------------------------------------
(* The commands.                                                           *)

\* "changemodel": the RPC of ai-service.
ChangeModel(c, m) ==
  /\ pc[c] = "idle"
  /\ SetModel(m)
  /\ UNCHANGED <<memory, gen, speech, faults, last, calls, handlers, pool>>

\* "transcript".
Transcript(c) ==
  /\ pc[c] = "idle"
  /\ pc' = [pc EXCEPT ![c] = "write"]
  /\ reply' = [reply EXCEPT ![c] = [kind |-> "transcript", text |-> last]]
  /\ UNCHANGED <<aivars, last, calls, mode, call, buf, pool>>

\* "clearcontext": the call has no deadline.
ClearContext(c) ==
  /\ pc[c] = "idle"
  /\ pc' = [pc EXCEPT ![c] = "clear"]
  /\ UNCHANGED <<aivars, last, calls, mode, call, buf, reply, pool>>

\* ai-service clears the context and answers.
ClearAIContext(c) ==
  /\ pc[c] = "clear"
  /\ \E o \in Outcomes :
       /\ DelContext(o)
       /\ reply' = [reply EXCEPT ![c] = IF o = "ok" THEN ClearedReply ELSE ErrorReply]
  /\ pc' = [pc EXCEPT ![c] = "write"]
  /\ UNCHANGED <<model, gen, speech, last, calls, mode, call, buf, pool>>

-----------------------------------------------------------------------------
(* A message in one of the modes.                                          *)

\* The message arrives, a buffer is taken, the user context is read, and the
\* mode makes its first call.
Receive(c, m) ==
  /\ pc[c] = "idle" /\ calls < MaxCalls
  /\ calls' = calls + 1
  /\ call' = [call EXCEPT ![c] = calls + 1]
  /\ mode' = [mode EXCEPT ![c] = m]
  /\ \E b \in free :
       /\ free' = free \ {b}
       /\ buf' = [buf EXCEPT ![c] = b]
       /\ shared' = shared \union {d \in Tabs : buf[d] = b}
  /\ IF m \in {"STT", "STS"}
     THEN /\ pc' = [pc EXCEPT ![c] = "hear"]
          /\ CallRecognize(calls + 1) /\ UNCHANGED gen
     ELSE /\ pc' = [pc EXCEPT ![c] = "text"]
          /\ CallGenerate(calls + 1) /\ UNCHANGED hear
  /\ UNCHANGED <<memory, model, rec, met, faults, last, reply, bytes>>

\* Each part of a recognised message overwrites the one before.
LastPart(out) == IF out = <<>> THEN <<>> ELSE Last(out)

\* The recognition is over: in mode STT its last part is the answer, in mode
\* STS all of it is the prompt of an answer.
Heard(c) ==
  /\ pc[c] = "hear" /\ hear[call[c]].at = "done"
  /\ IF Speaks(c)
     THEN /\ Collect(c)
          /\ WaitFor(c, "text") /\ CallGenerate(call[c])
          /\ UNCHANGED <<free, shared>>
     ELSE /\ Answer(c, [kind |-> "heard", part |-> LastPart(hear[call[c]].out)])
          /\ UNCHANGED <<gen, bytes>>
  /\ TakeResult(call[c])
  /\ UNCHANGED <<memory, model, rec, faults, last, calls>>

\* The stream of text is over.
Generated(c) ==
  /\ pc[c] = "text" /\ gen[call[c]].at = "done"
  /\ WaitFor(c, "save")
  /\ Collect(c)
  /\ UNCHANGED <<aivars, last, calls, free, shared>>

\* UpdateUserDataCtx with the text as LastMessage.
SaveLastMessage(c) ==
  /\ pc[c] = "save"
  /\ LET text == Text(call[c], gen[call[c]].sent) IN
     \E o \in Outcomes :
       /\ Counted(o)
       /\ last' = Effect(o, text, last)
       /\ CASE o = "ok" /\ Speaks(c) -> WaitFor(c, "speak") /\ UNCHANGED <<free, shared>>
            [] o = "ok" /\ ~ Speaks(c) -> Answer(c, [kind |-> "text", text |-> text])
            [] o # "ok" -> Answer(c, IF Speaks(c) /\ text # NoText
                                     THEN [kind |-> "audio", failed |-> TRUE]
                                     ELSE ErrorReply)
  /\ UNCHANGED <<memory, model, gen, speech, calls, bytes>>

\* A variant of Speak in which the sound follows the text.
SpeakAppends(c) ==
  /\ pc[c] = "speak"
  /\ \/ /\ UNCHANGED faults
        /\ bytes' = [bytes EXCEPT ![buf[c]] = Bytes("text", call[c], gen[call[c]].sent)]
        /\ Answer(c, [kind |-> "audio", failed |-> FALSE])
     \/ Counted("lost") /\ Answer(c, ErrorReply) /\ UNCHANGED bytes
  /\ UNCHANGED <<memory, model, gen, speech, last, calls>>

\* GenerateAudio; the buffer was emptied before, and is filled with sound.
Speak(c) ==
  /\ pc[c] = "speak"
  /\ \/ /\ UNCHANGED faults
        /\ bytes' = [bytes EXCEPT ![buf[c]] = Bytes("audio", call[c], gen[call[c]].sent)]
        /\ Answer(c, [kind |-> "audio", failed |-> FALSE])
     \/ Counted("lost") /\ Answer(c, ErrorReply) /\ UNCHANGED bytes
  /\ UNCHANGED <<memory, model, gen, speech, last, calls>>

\* ai-service answers with an error, or not before the deadline.
GiveUp(c) ==
  /\ \/ pc[c] = "hear" /\ Counted(IF hear[call[c]].at = "failed" THEN "ok" ELSE "lost")
     \/ pc[c] = "text" /\ Counted(IF gen[call[c]].at = "failed" THEN "ok" ELSE "lost")
  /\ Fail(c)
  /\ UNCHANGED <<memory, model, gen, speech, last, calls>>

\* What a handler that has replied no longer has; bytes nobody refers to are
\* forgotten.
Rest(c) ==
  /\ pc' = [pc EXCEPT ![c] = "idle"]
  /\ mode' = [mode EXCEPT ![c] = "None"]
  /\ call' = [call EXCEPT ![c] = 0]
  /\ buf' = [buf EXCEPT ![c] = NoBuf]
  /\ reply' = [reply EXCEPT ![c] = NoReply]
  /\ shared' = shared \ {c}
  /\ bytes' = [b \in Bufs |-> IF \E d \in Tabs \ {c} : buf[d] = b THEN bytes[b] ELSE NoBytes]

\* The reply is written; one with sound has the bytes that are in the buffer
\* by now.
WriteReply(c) ==
  /\ pc[c] = "write"
  /\ Rest(c)
  /\ UNCHANGED <<aivars, last, calls, free>>

Handler(c) ==
  \/ Heard(c) \/ Generated(c) \/ SaveLastMessage(c) \/ Speak(c) \/ GiveUp(c)
  \/ WriteReply(c)

Streams == (\E t \in Calls : GenStep(t) \/ HearStep(t)) /\ UNCHANGED <<last, calls, handlers, pool>>

Service == (ExpireContext \/ Restart) /\ UNCHANGED <<last, calls, handlers, pool>>

Next ==
  \/ \E c \in Tabs :
       \/ Handler(c)
       \/ \E m \in Modes : Receive(c, m)
       \/ Transcript(c) \/ ClearContext(c) \/ ClearAIContext(c)
       \/ \E m \in Models : ChangeModel(c, m)
  \/ Streams \/ Service

Spec == Init /\ [][Next]_vars

-----------------------------------------------------------------------------
Texts == {NoText} \union {Text(t, k) : t \in Calls, k \in 0 .. MaxPieces}

BufferBytes ==
  {NoBytes} \union [kind : {"words", "text", "audio"}, of : Calls, upto : 0 .. MaxPieces]

Replies ==
  {NoReply, ErrorReply, ClearedReply}
    \union [kind : {"text", "transcript"}, text : Texts]
    \union [kind : {"heard"}, part : Seq(Chunks)]
    \union [kind : {"audio"}, failed : BOOLEAN]

\* Every variable has its type.
TypeOK ==
  /\ TypeAI
  /\ last \in Texts
  /\ calls \in 0 .. MaxCalls
  /\ pc \in [Tabs -> {"idle", "clear", "hear", "text", "save", "speak", "write"}]
  /\ mode \in [Tabs -> {"None"} \union Modes]
  /\ call \in [Tabs -> 0 .. MaxCalls]
  /\ buf \in [Tabs -> Bufs \union {NoBuf}] /\ free \subseteq Bufs
  /\ bytes \in [Bufs -> BufferBytes]
  /\ reply \in [Tabs -> Replies]
  /\ shared \subseteq Tabs

\* A text that is given as an answer is all that the language model said to
\* this message, and one given as a transcript all that it said to some
\* message, whatever was going on in other tabs.
TextIsWhole ==
  \A c \in Tabs :
    /\ reply[c].kind = "text" => reply[c].text = Text(call[c], gen[call[c]].made)
    /\ reply[c].kind = "transcript" /\ reply[c].text # NoText =>
         LET t == reply[c].text.of IN
           gen[t].at = "done" /\ reply[c].text = Text(t, gen[t].made)

\* The sound of a reply not yet written is the whole answer to its own
\* message, as long as nobody else has taken the buffer; after an error it may
\* be the bytes of the text instead, still of this message.
AudioIsOwn ==
  \A c \in Tabs \ shared : reply[c].kind = "audio" =>
    LET sound == BytesOf(buf[c]) IN
      IF reply[c].failed
      THEN sound.kind \in {"words", "text"} /\ sound.of = call[c]
      ELSE sound = Bytes("audio", call[c], gen[call[c]].made)
=============================================================================
