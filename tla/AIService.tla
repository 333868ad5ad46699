----------------------------- MODULE AIService -----------------------------
(***************************************************************************)
(* ai-service: the conversation with the language model, whose memory is   *)
(* kept in Redis between two calls, and the recognition of speech, for     *)
(* which all calls share one recogniser.                                   *)
(*                                                                         *)
(* GenerateText and RecognizeAudio are streams.  gRPC keeps their order,   *)
(* and what is sent is taken to be received at once.  A call goes on to    *)
(* its end whether its caller still waits or not: errors of Send are only  *)
(* logged, and the deadline of the router, a number of seconds multiplied  *)
(* by time.Second twice, overflows to more than a century.                 *)
(*                                                                         *)
(* The module declares the calls' steps; it is the gateway (AIChat) that   *)
(* makes the calls.                                                        *)
(***************************************************************************)
EXTENDS Integers, FiniteSets, SequencesExt

CONSTANTS Models,     \* language models
          FirstModel, \* AI_MODEL of the environment
          MaxCalls,   \* bound: calls of the two streams
          MaxPieces,  \* bound: pieces in which the language model answers
          MaxChunks,  \* chunks of a voice message
          MaxFaults   \* bound: failing calls and restarts

ASSUME AIServiceAssumption ==
  /\ FirstModel \in Models
  /\ MaxCalls \in Nat /\ MaxPieces \in Nat /\ MaxChunks \in Nat /\ MaxFaults \in Nat

\* The calls in the order in which the user wrote the messages.
Calls == 1 .. MaxCalls

VARIABLES conv,      \* the exchanges the context in Redis stands for
          model,     \* the model of the router
          gen,       \* the GenerateText calls
          rec,       \* what the recogniser heard since its last result
          hear,      \* the RecognizeAudio calls
          faults,    \* history: failing calls and restarts
          talk,      \* history: the exchanges answered without error since
                     \* the context was last cleared, expired or lost
          disturbed, \* history: the GenerateText calls during which somebody
                     \* else wrote the context
          met        \* history: the RecognizeAudio calls in progress together

memory == <<conv, talk, disturbed>>
speech == <<rec, hear, met>>
aivars == <<memory, model, gen, speech, faults>>

NoGen == [at |-> "none", base |-> <<>>, model |-> FirstModel,
          made |-> 0, sent |-> 0, whole |-> FALSE]
NoHear == [at |-> "none", next |-> 1, out |-> <<>>]

InitAI ==
  /\ conv = <<>> /\ talk = <<>> /\ disturbed = {}
  /\ model = FirstModel
  /\ gen = [t \in Calls |-> NoGen]
  /\ rec = <<>>
  /\ hear = [t \in Calls |-> NoHear]
  /\ met = [t \in Calls |-> {}]
  /\ faults = 0

\* A remote call is carried out and answered, fails before it had an effect,
\* or has its effect while the caller sees an error.
Outcomes == {"ok", "lost", "unseen"}

Counted(o) ==
  /\ o # "ok" => faults < MaxFaults
  /\ faults' = IF o = "ok" THEN faults ELSE faults + 1

Effect(o, new, old) == IF o = "lost" THEN old ELSE new

-----------------------------------------------------------------------------
(* GenerateText.                                                           *)

\* The caller's part of the two streams.
CallGenerate(t) == gen' = [gen EXCEPT ![t].at = "called"]
CallRecognize(t) == hear' = [hear EXCEPT ![t].at = "called"]

\* The caller has got the result of a recognition and needs it no longer.
TakeResult(t) ==
  /\ hear' = [hear EXCEPT ![t] = [NoHear EXCEPT !.at = "taken"]]
  /\ met' = [met EXCEPT ![t] = {}]

\* A call that is over keeps no more than what it has sent.
Over(t, how) == [NoGen EXCEPT !.at = how, !.made = gen[t].made, !.sent = gen[t].sent]

GenFails(t) == gen' = [gen EXCEPT ![t] = Over(t, "failed")]

\* A variant of ReadContext that takes an unreadable context for an empty one.
ReadContextOrEmpty(t) ==
  /\ gen[t].at = "called"
  /\ \/ gen' = [gen EXCEPT ![t].at = "ask", ![t].base = conv] /\ UNCHANGED faults
     \/ gen' = [gen EXCEPT ![t].at = "ask"] /\ Counted("lost")
  /\ UNCHANGED <<memory, model, speech>>

\* GetUserContext.
ReadContext(t) ==
  /\ gen[t].at = "called"
  /\ \/ gen' = [gen EXCEPT ![t].at = "ask", ![t].base = conv] /\ UNCHANGED faults
     \/ GenFails(t) /\ Counted("lost")
  /\ UNCHANGED <<memory, model, speech>>

\* The router, model included, is copied and the request is sent.
Ask(t) ==
  /\ gen[t].at = "ask"
  /\ \/ gen' = [gen EXCEPT ![t].at = "stream", ![t].model = model] /\ UNCHANGED faults
     \/ GenFails(t) /\ Counted("lost")
  /\ UNCHANGED <<memory, model, speech>>

\* A line of the answer: its text waits in the buffer, which is sent when it
\* has grown beyond batchSizeThreehold.
Line(t) ==
  /\ gen[t].at = "stream" /\ gen[t].made < MaxPieces
  /\ \E s \in {gen[t].sent, gen[t].made + 1} :
       gen' = [gen EXCEPT ![t].made = @ + 1, ![t].sent = s]
  /\ UNCHANGED <<memory, model, speech, faults>>

\* A variant of LastLine that leaves the rest in the buffer.
LastLineUnsent(t) ==
  /\ gen[t].at = "stream"
  /\ \E o \in {"done", "brokenOff", "error"} :
       /\ Counted(IF o = "done" THEN "ok" ELSE "lost")
       /\ IF o = "error" THEN GenFails(t)
          ELSE gen' = [gen EXCEPT ![t].at = "store", ![t].whole = (o = "done")]
  /\ UNCHANGED <<memory, model, speech>>

\* The stream ends: with the line that holds the new context, or with one
\* that holds an error of the language model, which reads as an empty line
\* without a context; the rest of the buffer is sent.  Or reading fails.
LastLine(t) ==
  /\ gen[t].at = "stream"
  /\ \E o \in {"done", "brokenOff", "error"} :
       /\ Counted(IF o = "done" THEN "ok" ELSE "lost")
       /\ IF o = "error" THEN GenFails(t)
          ELSE gen' = [gen EXCEPT ![t].at = "store", ![t].sent = gen[t].made,
                                  ![t].whole = (o = "done")]
  /\ UNCHANGED <<memory, model, speech>>

\* The calls that have read the context and not yet written it.
Between == {t \in Calls : gen[t].at \in {"ask", "stream", "store"}}

\* What the language model remembers after a call.
NewContext(t) == IF gen[t].whole THEN Append(gen[t].base, t) ELSE <<>>

\* SetUserContext, after which the call returns.
Store(t) ==
  /\ gen[t].at = "store"
  /\ \E o \in Outcomes :
       /\ Counted(o)
       /\ conv' = Effect(o, NewContext(t), conv)
       /\ disturbed' = Effect(o, disturbed \union (Between \ {t}), disturbed)
       /\ talk' = IF ~ gen[t].whole THEN Effect(o, <<>>, talk)
                  ELSE IF o = "ok" THEN Append(talk, t) ELSE talk
       /\ gen' = [gen EXCEPT ![t] = Over(t, IF o = "ok" THEN "done" ELSE "failed")]
  /\ UNCHANGED <<model, speech>>

Forget == conv' = <<>> /\ talk' = <<>> /\ disturbed' = disturbed \union Between

\* The context has not been written for REDIS_CTX_TTL minutes.
ExpireContext ==
  /\ conv # <<>>
  /\ Forget
  /\ UNCHANGED <<model, gen, speech, faults>>

\* DEL of ClearAIContext.
DelContext(o) == Counted(o) /\ IF o = "lost" THEN UNCHANGED memory ELSE Forget

-----------------------------------------------------------------------------
(* RecognizeAudio.                                                         *)

Recognizing == {t \in Calls : hear[t].at = "accept"}

\* decodeOggToPCM, which waits for ffmpeg.
Decode(t) ==
  /\ hear[t].at = "called"
  /\ \/ /\ hear' = [hear EXCEPT ![t].at = "accept"]
        /\ met' = [u \in Calls |->
                     CASE u = t -> met[u] \union Recognizing
                       [] u \in Recognizing -> met[u] \union {t}
                       [] OTHER -> met[u]]
        /\ UNCHANGED faults
     \/ /\ hear' = [hear EXCEPT ![t].at = "failed"]
        /\ Counted("lost") /\ UNCHANGED met
  /\ UNCHANGED <<memory, model, gen, rec>>

\* A variant of ProcessChunk that reads beyond the end of the message.
ProcessChunkPast(t) ==
  /\ hear[t].at = "accept" /\ hear[t].next <= MaxChunks + 1
  /\ rec' = Append(rec, <<t, hear[t].next>>)
  /\ hear' = [hear EXCEPT ![t].next = @ + 1]
  /\ UNCHANGED <<memory, model, gen, met, faults>>

\* processChunk: a final result is sent, a partial one is not.  The window of
\* the partial results is kept in a copy of the router and lost with it, so
\* that the tenth one, the first to be sent, is never reached.
ProcessChunk(t) ==
  /\ hear[t].at = "accept" /\ hear[t].next <= MaxChunks
  /\ LET heard == Append(rec, <<t, hear[t].next>>) IN
       \/ /\ rec' = heard
          /\ hear' = [hear EXCEPT ![t].next = @ + 1]
       \/ /\ rec' = <<>>
          /\ hear' = [hear EXCEPT ![t].next = @ + 1, ![t].out = Append(@, heard)]
  /\ UNCHANGED <<memory, model, gen, met, faults>>

\* A variant of FinalResult that leaves the recogniser as it is.
FinalResultKept(t) ==
  /\ hear[t].at = "accept" /\ hear[t].next > MaxChunks
  /\ hear' = [hear EXCEPT ![t].at = "done", ![t].out = IF rec = <<>> THEN @ ELSE Append(@, rec)]
  /\ UNCHANGED <<memory, model, gen, rec, met, faults>>

\* The rest of the message; the recogniser starts afresh.
FinalResult(t) ==
  /\ hear[t].at = "accept" /\ hear[t].next > MaxChunks
  /\ hear' = [hear EXCEPT ![t].at = "done", ![t].out = IF rec = <<>> THEN @ ELSE Append(@, rec)]
  /\ rec' = <<>>
  /\ UNCHANGED <<memory, model, gen, met, faults>>

-----------------------------------------------------------------------------
\* The model is set in the one router; a restart forgets it.
SetModel(m) == model' = m

\* gracefulShutdown is srv.Stop, which cuts the calls off; the container is
\* started again.
Restart ==
  /\ Counted("lost")
  /\ model' = FirstModel
  /\ gen' = [t \in Calls |-> IF gen[t].at \in {"none", "done"} THEN gen[t]
                             ELSE Over(t, "failed")]
  /\ hear' = [t \in Calls |-> IF hear[t].at \in {"none", "done", "taken"} THEN hear[t]
                              ELSE [hear[t] EXCEPT !.at = "failed"]]
  /\ rec' = <<>>
  /\ UNCHANGED <<memory, met>>

GenStep(t) == ReadContext(t) \/ Ask(t) \/ Line(t) \/ LastLine(t) \/ Store(t)

HearStep(t) == Decode(t) \/ ProcessChunk(t) \/ FinalResult(t)

-----------------------------------------------------------------------------
Chunks == Calls \X (1 .. MaxChunks)

Gens ==
  [at : {"none", "called", "ask", "stream", "store", "done", "failed"},
   base : Seq(Calls), model : Models,
   made : 0 .. MaxPieces, sent : 0 .. MaxPieces, whole : BOOLEAN]

Hears ==
  [at : {"none", "called", "accept", "done", "failed", "taken"},
   next : 1 .. MaxChunks + 1, out : Seq(Seq(Chunks))]

TypeAI ==
  /\ conv \in Seq(Calls) /\ talk \in Seq(Calls)
  /\ disturbed \subseteq Calls
  /\ model \in Models
  /\ gen \in [Calls -> Gens]
  /\ rec \in Seq(Chunks)
  /\ hear \in [Calls -> Hears]
  /\ met \in [Calls -> SUBSET Calls]
  /\ faults \in 0 .. MaxFaults

\* t comes before u in s.
Precedes(s, t, u) == \E i, j \in DOMAIN s : i < j /\ s[i] = t /\ s[j] = u

\* The language model remembers exactly the exchanges that were answered since
\* its context was last cleared or lost, once each and in their order, besides
\* some whose caller got an error; unless one of them was disturbed, which
\* loses the exchanges of others or brings back what was cleared.
ContextIsTheTalk ==
  (ToSet(conv) \union ToSet(talk)) \intersect disturbed = {} =>
    /\ ToSet(talk) = {t \in ToSet(conv) : gen[t].at = "done"}
    /\ IsInjective(conv)
    /\ \A t, u \in ToSet(talk) : Precedes(talk, t, u) => Precedes(conv, t, u)

\* A finished recognition has heard the whole message, in its order and
\* nothing else; where several went on together, nothing but what they were
\* given.
HeardIsOwn ==
  \A t \in Calls : hear[t].at = "done" =>
    LET heard == FlattenSeq(hear[t].out) IN
      /\ met[t] = {} => heard = [i \in 1 .. MaxChunks |-> <<t, i>>]
      /\ \A x \in ToSet(heard) : x[1] \in met[t] \union {t}
=============================================================================
