--------------------------- MODULE AIChat_proofs ---------------------------
(***************************************************************************)
(* The AI modes over ai-service, for any number of tabs, buffers, calls    *)
(* and failures: types, that a text given to the user is whole, that a     *)
(* reply with sound is the handler's own unless its buffer was taken, what *)
(* the language model remembers, and what the recogniser makes of several  *)
(* messages at a time.                                                     *)
(***************************************************************************)
EXTENDS AIChat, SequenceTheorems, WellFoundedInduction, TLAPS

-----------------------------------------------------------------------------
(* The types of ai-service.                                                *)

LEMMA AppendType ==
  ASSUME NEW T, NEW s \in Seq(T), NEW t \in T
  PROVE  Append(s, t) \in Seq(T)
OBVIOUS

LEMMA EmptyType == ASSUME NEW T PROVE <<>> \in Seq(T)
OBVIOUS

LEMMA CountedType ==
  ASSUME faults \in 0 .. MaxFaults, NEW o, Counted(o)
  PROVE  faults' \in 0 .. MaxFaults
BY AIServiceAssumption DEF Counted

LEMMA EffectType ==
  ASSUME NEW T, NEW o, NEW new \in T, NEW old \in T
  PROVE  Effect(o, new, old) \in T
BY DEF Effect

LEMMA OverType ==
  ASSUME TypeAI, NEW t \in Calls, NEW how \in {"done", "failed"}
  PROVE  Over(t, how) \in Gens
<1>1. gen[t].made \in 0 .. MaxPieces /\ gen[t].sent \in 0 .. MaxPieces
  BY DEF TypeAI, Gens
<1>2. NoGen \in Gens
  BY EmptyType, AIServiceAssumption DEF NoGen, Gens
<1>. QED  BY <1>1, <1>2 DEF Over, Gens

\* What the steps of a GenerateText call do to its record.
LEMMA GenStepType ==
  ASSUME TypeAI, NEW t \in Calls, GenStep(t)
  PROVE  TypeAI'
<1>1. gen \in [Calls -> Gens] /\ gen[t] \in Gens /\ conv \in Seq(Calls) /\ talk \in Seq(Calls)
  BY DEF TypeAI
<1>2. UNCHANGED speech
  BY DEF GenStep, ReadContext, Ask, Line, LastLine, Store
<1>3. ASSUME NEW h \in Gens, gen' = [gen EXCEPT ![t] = h], UNCHANGED <<memory, model>>,
             faults' \in 0 .. MaxFaults
      PROVE  TypeAI'
  BY <1>2, <1>3 DEF TypeAI, memory, speech
<1>4. Over(t, "failed") \in Gens /\ Over(t, "done") \in Gens
  BY OverType
<1>5. faults \in 0 .. MaxFaults
  BY DEF TypeAI
<1>6. CASE ReadContext(t)
  <2>1. CASE gen' = [gen EXCEPT ![t].at = "ask", ![t].base = conv] /\ UNCHANGED faults
    <3>1. [gen[t] EXCEPT !.at = "ask", !.base = conv] \in Gens
      BY <1>1 DEF Gens
    <3>2. gen' = [gen EXCEPT ![t] = [gen[t] EXCEPT !.at = "ask", !.base = conv]]
      BY <1>1, <2>1
    <3>. QED  BY <1>3, <1>5, <1>6, <2>1, <3>1, <3>2 DEF ReadContext
  <2>2. CASE GenFails(t) /\ Counted("lost")
    BY <1>3, <1>4, <1>5, <1>6, <2>2, CountedType DEF ReadContext, GenFails
  <2>. QED  BY <1>6, <2>1, <2>2 DEF ReadContext
<1>7. CASE Ask(t)
  <2>1. CASE gen' = [gen EXCEPT ![t].at = "stream", ![t].model = model] /\ UNCHANGED faults
    <3>1. [gen[t] EXCEPT !.at = "stream", !.model = model] \in Gens
      BY <1>1 DEF Gens, TypeAI
    <3>2. gen' = [gen EXCEPT ![t] = [gen[t] EXCEPT !.at = "stream", !.model = model]]
      BY <1>1, <2>1
    <3>. QED  BY <1>3, <1>5, <1>7, <2>1, <3>1, <3>2 DEF Ask
  <2>2. CASE GenFails(t) /\ Counted("lost")
    BY <1>3, <1>4, <1>5, <1>7, <2>2, CountedType DEF Ask, GenFails
  <2>. QED  BY <1>7, <2>1, <2>2 DEF Ask
<1>8. CASE Line(t)
  <2>1. PICK s \in {gen[t].sent, gen[t].made + 1} :
          gen' = [gen EXCEPT ![t].made = @ + 1, ![t].sent = s]
    BY <1>8 DEF Line
  <2>2. gen[t].made \in 0 .. MaxPieces /\ gen[t].sent \in 0 .. MaxPieces
    BY <1>1 DEF Gens
  <2>3. gen[t].made + 1 \in 0 .. MaxPieces /\ s \in 0 .. MaxPieces
    BY <1>8, <2>2, AIServiceAssumption DEF Line
  <2>4. [gen[t] EXCEPT !.made = @ + 1, !.sent = s] \in Gens
    BY <1>1, <2>3 DEF Gens
  <2>5. gen' = [gen EXCEPT ![t] = [gen[t] EXCEPT !.made = @ + 1, !.sent = s]]
    BY <1>1, <2>1
  <2>. QED  BY <1>3, <1>5, <1>8, <2>4, <2>5 DEF Line
<1>9. CASE LastLine(t)
  <2>1. PICK o \in {"done", "brokenOff", "error"} :
          /\ Counted(IF o = "done" THEN "ok" ELSE "lost")
          /\ IF o = "error" THEN GenFails(t)
             ELSE gen' = [gen EXCEPT ![t].at = "store", ![t].sent = gen[t].made,
                                     ![t].whole = (o = "done")]
    BY <1>9 DEF LastLine
  <2>2. faults' \in 0 .. MaxFaults
    BY <1>5, <2>1, CountedType
  <2>3. CASE o = "error"
    BY <1>3, <1>4, <1>9, <2>1, <2>2, <2>3 DEF LastLine, GenFails
  <2>4. CASE o # "error"
    <3>1. (o = "done") \in BOOLEAN
      OBVIOUS
    <3>2. [gen[t] EXCEPT !.at = "store", !.sent = gen[t].made, !.whole = (o = "done")] \in Gens
      BY <1>1, <3>1 DEF Gens
    <3>3. gen' = [gen EXCEPT ![t] = [gen[t] EXCEPT !.at = "store", !.sent = gen[t].made,
                                                   !.whole = (o = "done")]]
      BY <1>1, <2>1, <2>4
    <3>. QED  BY <1>3, <1>9, <2>2, <3>2, <3>3 DEF LastLine
  <2>. QED  BY <2>3, <2>4
<1>10. CASE Store(t)
  <2>1. PICK o \in Outcomes :
       /\ Counted(o)
       /\ conv' = Effect(o, NewContext(t), conv)
       /\ disturbed' = Effect(o, disturbed \union (Between \ {t}), disturbed)
       /\ talk' = IF ~ gen[t].whole THEN Effect(o, <<>>, talk)
                  ELSE IF o = "ok" THEN Append(talk, t) ELSE talk
       /\ gen' = [gen EXCEPT ![t] = Over(t, IF o = "ok" THEN "done" ELSE "failed")]
    BY <1>10 DEF Store
  <2>2. faults' \in 0 .. MaxFaults
    BY <1>5, <2>1, CountedType
  <2>3. gen[t].base \in Seq(Calls)
    BY <1>1 DEF Gens
  <2>4. NewContext(t) \in Seq(Calls)
    BY <2>3, AppendType, EmptyType DEF NewContext
  <2>5. conv' \in Seq(Calls)
    BY <1>1, <2>1, <2>4, EffectType
  <2>6. talk' \in Seq(Calls)
    <3>1. Effect(o, <<>>, talk) \in Seq(Calls)
      BY <1>1, EffectType, EmptyType
    <3>2. Append(talk, t) \in Seq(Calls)
      BY <1>1, AppendType
    <3>. QED  BY <1>1, <2>1, <3>1, <3>2
  <2>7. disturbed' \subseteq Calls
    BY <2>1 DEF Effect, Between, TypeAI
  <2>8. gen' \in [Calls -> Gens]
    BY <1>1, <1>4, <2>1
  <2>9. model' = model
    BY <1>10 DEF Store
  <2>. QED  BY <1>2, <2>2, <2>5, <2>6, <2>7, <2>8, <2>9 DEF TypeAI, speech
<1>. QED  BY <1>6, <1>7, <1>8, <1>9, <1>10 DEF GenStep

LEMMA HearStepType ==
  ASSUME TypeAI, NEW t \in Calls, HearStep(t)
  PROVE  TypeAI'
<1>1. hear \in [Calls -> Hears] /\ hear[t] \in Hears /\ rec \in Seq(Chunks)
  BY DEF TypeAI
<1>2. UNCHANGED <<memory, model, gen>> /\ faults' \in 0 .. MaxFaults
  BY CountedType DEF HearStep, Decode, ProcessChunk, FinalResult, TypeAI
<1>3. ASSUME NEW h \in Hears, hear' = [hear EXCEPT ![t] = h],
             rec' \in Seq(Chunks), met' \in [Calls -> SUBSET Calls]
      PROVE  TypeAI'
  BY <1>1, <1>2, <1>3 DEF TypeAI, memory
<1>4. met \in [Calls -> SUBSET Calls]
  BY DEF TypeAI
<1>5. CASE Decode(t)
  <2>1. CASE /\ hear' = [hear EXCEPT ![t].at = "accept"]
             /\ met' = [u \in Calls |->
                     CASE u = t -> met[u] \union Recognizing
                       [] u \in Recognizing -> met[u] \union {t}
                       [] OTHER -> met[u]]
    <3>1. [hear[t] EXCEPT !.at = "accept"] \in Hears
      BY <1>1 DEF Hears
    <3>2. hear' = [hear EXCEPT ![t] = [hear[t] EXCEPT !.at = "accept"]]
      BY <1>1, <2>1
    <3>3. met' \in [Calls -> SUBSET Calls]
      BY <1>4, <2>1 DEF Recognizing
    <3>. QED  BY <1>1, <1>3, <1>5, <3>1, <3>2, <3>3 DEF Decode
  <2>2. CASE hear' = [hear EXCEPT ![t].at = "failed"] /\ met' = met
    <3>1. [hear[t] EXCEPT !.at = "failed"] \in Hears
      BY <1>1 DEF Hears
    <3>2. hear' = [hear EXCEPT ![t] = [hear[t] EXCEPT !.at = "failed"]]
      BY <1>1, <2>2
    <3>. QED  BY <1>1, <1>3, <1>4, <1>5, <2>2, <3>1, <3>2 DEF Decode
  <2>. QED  BY <1>5, <2>1, <2>2 DEF Decode
<1>6. CASE ProcessChunk(t)
  <2>. DEFINE n == hear[t].next
              heard == Append(rec, <<t, n>>)
  <2>1. n \in 1 .. MaxChunks + 1 /\ n <= MaxChunks /\ hear[t].out \in Seq(Seq(Chunks))
    BY <1>1, <1>6 DEF ProcessChunk, Hears
  <2>2. <<t, n>> \in Chunks /\ n + 1 \in 1 .. MaxChunks + 1
    BY <2>1, AIServiceAssumption DEF Chunks
  <2>3. heard \in Seq(Chunks)
    <3>. HIDE DEF n
    <3>. QED  BY <1>1, <2>2, AppendType
  <2>. HIDE DEF heard
  <2>4. Append(hear[t].out, heard) \in Seq(Seq(Chunks))
    BY <2>1, <2>3, AppendType
  <2>5. CASE rec' = heard /\ hear' = [hear EXCEPT ![t].next = @ + 1]
    <3>1. [hear[t] EXCEPT !.next = @ + 1] \in Hears
      BY <1>1, <2>2 DEF Hears
    <3>2. hear' = [hear EXCEPT ![t] = [hear[t] EXCEPT !.next = @ + 1]]
      BY <1>1, <2>5
    <3>. QED  BY <1>3, <1>4, <1>6, <2>3, <2>5, <3>1, <3>2 DEF ProcessChunk
  <2>6. CASE rec' = <<>> /\ hear' = [hear EXCEPT ![t].next = @ + 1,
                                                 ![t].out = Append(@, heard)]
    <3>1. [hear[t] EXCEPT !.next = @ + 1, !.out = Append(@, heard)] \in Hears
      BY <1>1, <2>2, <2>4 DEF Hears
    <3>2. hear' = [hear EXCEPT ![t] = [hear[t] EXCEPT !.next = @ + 1, !.out = Append(@, heard)]]
      BY <1>1, <2>6
    <3>. QED  BY <1>3, <1>4, <1>6, <2>6, <3>1, <3>2, EmptyType DEF ProcessChunk
  <2>. QED  BY <1>6, <2>5, <2>6 DEF ProcessChunk, heard
<1>7. CASE FinalResult(t)
  <2>1. hear[t].out \in Seq(Seq(Chunks))
    BY <1>1 DEF Hears
  <2>2. Append(hear[t].out, rec) \in Seq(Seq(Chunks))
    BY <1>1, <2>1, AppendType
  <2>3. [hear[t] EXCEPT !.at = "done", !.out = IF rec = <<>> THEN @ ELSE Append(@, rec)] \in Hears
    BY <1>1, <2>1, <2>2 DEF Hears
  <2>4. hear' = [hear EXCEPT ![t] =
                   [hear[t] EXCEPT !.at = "done", !.out = IF rec = <<>> THEN @ ELSE Append(@, rec)]]
    BY <1>1, <1>7 DEF FinalResult
  <2>. QED  BY <1>3, <1>4, <1>7, <2>3, <2>4, EmptyType DEF FinalResult
<1>. QED  BY <1>5, <1>6, <1>7 DEF HearStep

LEMMA ServiceType ==
  ASSUME TypeAI, ExpireContext \/ Restart
  PROVE  TypeAI'
<1>1. CASE ExpireContext
  BY <1>1, EmptyType DEF ExpireContext, Forget, Between, TypeAI, speech
<1>2. CASE Restart
  <2>1. faults' \in 0 .. MaxFaults
    BY <1>2, CountedType DEF Restart, TypeAI
  <2>2. gen' \in [Calls -> Gens]
    BY <1>2, OverType DEF Restart, TypeAI
  <2>3. \A t \in Calls : [hear[t] EXCEPT !.at = "failed"] \in Hears
    BY DEF TypeAI, Hears
  <2>4. hear' \in [Calls -> Hears]
    BY <1>2, <2>3 DEF Restart, TypeAI
  <2>5. rec' \in Seq(Chunks) /\ model' \in Models
    BY <1>2, EmptyType, AIServiceAssumption DEF Restart
  <2>6. UNCHANGED <<memory, met>>
    BY <1>2 DEF Restart
  <2>. QED  BY <2>1, <2>2, <2>4, <2>5, <2>6 DEF TypeAI, memory
<1>. QED  BY <1>1, <1>2

LEMMA DelContextType ==
  ASSUME TypeAI, NEW o, DelContext(o), UNCHANGED <<model, gen, speech>>
  PROVE  TypeAI'
<1>1. faults' \in 0 .. MaxFaults
  BY CountedType DEF DelContext, TypeAI
<1>. QED  BY <1>1, EmptyType DEF DelContext, Forget, Between, TypeAI, memory, speech

LEMMA CallTypes ==
  ASSUME TypeAI, NEW t \in Calls
  PROVE  /\ CallGenerate(t) => gen' \in [Calls -> Gens]
         /\ CallRecognize(t) => hear' \in [Calls -> Hears]
         /\ TakeResult(t) => hear' \in [Calls -> Hears] /\ met' \in [Calls -> SUBSET Calls]
<1>1. [gen[t] EXCEPT !.at = "called"] \in Gens
  BY DEF TypeAI, Gens
<1>2. CallGenerate(t) => gen' = [gen EXCEPT ![t] = [gen[t] EXCEPT !.at = "called"]]
  BY DEF CallGenerate, TypeAI
<1>3. [hear[t] EXCEPT !.at = "called"] \in Hears
  BY DEF TypeAI, Hears
<1>4. CallRecognize(t) => hear' = [hear EXCEPT ![t] = [hear[t] EXCEPT !.at = "called"]]
  BY DEF CallRecognize, TypeAI
<1>5. NoHear \in Hears
  BY EmptyType, AIServiceAssumption DEF NoHear, Hears
<1>6. [NoHear EXCEPT !.at = "taken"] \in Hears
  BY <1>5 DEF Hears
<1>7. TakeResult(t) => hear' \in [Calls -> Hears] /\ met' \in [Calls -> SUBSET Calls]
  BY <1>6 DEF TakeResult, TypeAI
<1>8. CallGenerate(t) => gen' \in [Calls -> Gens]
  BY <1>1, <1>2 DEF TypeAI
<1>9. CallRecognize(t) => hear' \in [Calls -> Hears]
  BY <1>3, <1>4 DEF TypeAI
<1>. QED  BY <1>7, <1>8, <1>9

-----------------------------------------------------------------------------
(* The types of the handlers.                                              *)

ChatType ==
  /\ last \in Texts
  /\ calls \in 0 .. MaxCalls
  /\ pc \in [Tabs -> {"idle", "clear", "hear", "text", "save", "speak", "write"}]
  /\ mode \in [Tabs -> {"None"} \union Modes]
  /\ call \in [Tabs -> 0 .. MaxCalls]
  /\ buf \in [Tabs -> Bufs \union {NoBuf}] /\ free \subseteq Bufs
  /\ bytes \in [Bufs -> BufferBytes]
  /\ reply \in [Tabs -> Replies]
  /\ shared \subseteq Tabs

\* The handlers in the middle of a message; they have a number and a buffer.
Busy == {"hear", "text", "save", "speak"}

BusyOK ==
  \A c \in Tabs :
    /\ call[c] <= calls
    /\ pc[c] \in Busy \/ reply[c].kind \in {"text", "audio"} =>
         call[c] \in Calls /\ buf[c] \in Bufs
    /\ pc[c] \in {"idle", "clear"} => call[c] = 0 /\ buf[c] = NoBuf
    /\ pc[c] # "write" => reply[c] = NoReply

TypeInv == TypeAI /\ ChatType /\ BusyOK

LEMMA TypeParts == TypeInv => TypeOK
BY DEF TypeInv, ChatType, TypeOK

LEMMA TextType ==
  ASSUME NEW t \in Calls, NEW k \in 0 .. MaxPieces
  PROVE  Text(t, k) \in Texts
BY DEF Texts

LEMMA ReplyTypes ==
  /\ {NoReply, ErrorReply, ClearedReply} \subseteq Replies
  /\ \A f \in BOOLEAN : [kind |-> "audio", failed |-> f] \in Replies
  /\ \A x \in Texts : [kind |-> "text", text |-> x] \in Replies
                      /\ [kind |-> "transcript", text |-> x] \in Replies
  /\ \A p \in Seq(Chunks) : [kind |-> "heard", part |-> p] \in Replies
BY DEF Replies

LEMMA ReplyKinds ==
  /\ NoReply.kind = "none" /\ ErrorReply.kind = "error" /\ ClearedReply.kind = "cleared"
BY DEF NoReply, ErrorReply, ClearedReply

LEMMA CollectedType ==
  ASSUME TypeInv, NEW c \in Tabs, pc[c] \in Busy
  PROVE  /\ Collected(c) \in BufferBytes
         /\ Collected(c) # NoBytes => /\ Collected(c).kind \in {"words", "text"}
                                      /\ Collected(c).of = call[c]
<1>1. call[c] \in Calls
  BY DEF TypeInv, BusyOK
<1>2. gen[call[c]].sent \in 0 .. MaxPieces /\ 0 \in 0 .. MaxPieces
  BY <1>1, AIServiceAssumption DEF TypeInv, TypeAI, Gens
<1>3. \A k \in 0 .. MaxPieces, kind \in {"words", "text"} :
        /\ Bytes(kind, call[c], k) \in BufferBytes
        /\ Bytes(kind, call[c], k).kind = kind /\ Bytes(kind, call[c], k).of = call[c]
  BY <1>1 DEF Bytes, BufferBytes
<1>4. NoBytes \in BufferBytes
  BY DEF BufferBytes
<1>. QED  BY <1>2, <1>3, <1>4 DEF Collected

LEMMA CollectType ==
  ASSUME TypeInv, NEW c \in Tabs, pc[c] \in Busy, Collect(c)
  PROVE  bytes' \in [Bufs -> BufferBytes]
BY CollectedType DEF Collect, TypeInv, ChatType

LEMMA AnswerType ==
  ASSUME TypeInv, NEW c \in Tabs, pc[c] \in Busy, NEW r \in Replies, Answer(c, r),
         last' \in Texts, calls' = calls, bytes' \in [Bufs -> BufferBytes]
  PROVE  ChatType' /\ BusyOK'
<1>1. buf[c] \in Bufs /\ call[c] \in Calls
  BY DEF TypeInv, BusyOK
<1>2. ChatType'
  BY <1>1 DEF Answer, TypeInv, ChatType
<1>3. BusyOK'
  BY <1>1 DEF Answer, TypeInv, ChatType, BusyOK, Busy
<1>. QED  BY <1>2, <1>3

LEMMA WaitForType ==
  ASSUME TypeInv, NEW c \in Tabs, pc[c] \in Busy, NEW label \in Busy, WaitFor(c, label),
         last' \in Texts, bytes' \in [Bufs -> BufferBytes],
         UNCHANGED <<calls, free, shared>>
  PROVE  ChatType' /\ BusyOK'
BY DEF WaitFor, TypeInv, ChatType, BusyOK, Busy

LEMMA LastPartType ==
  ASSUME NEW out \in Seq(Seq(Chunks))
  PROVE  LastPart(out) \in Seq(Chunks)
<1>1. CASE out = <<>>
  BY <1>1, EmptyType DEF LastPart
<1>2. CASE out # <<>>
  <2>1. Len(out) \in DOMAIN out
    BY <1>2
  <2>2. out[Len(out)] \in Seq(Chunks)
    BY <2>1
  <2>. QED  BY <1>2, <2>2 DEF LastPart, Last
<1>. QED  BY <1>1, <1>2

LEMMA HeardType ==
  ASSUME TypeInv, NEW c \in Tabs, Heard(c)
  PROVE  TypeInv'
<1>1. pc[c] \in Busy /\ call[c] \in Calls
  BY DEF Heard, TypeInv, BusyOK, Busy
<1>2. last' \in Texts /\ calls' = calls /\ UNCHANGED <<memory, model, rec, faults>>
  BY DEF Heard, TypeInv, ChatType
<1>3. hear' \in [Calls -> Hears] /\ met' \in [Calls -> SUBSET Calls]
  BY <1>1, CallTypes DEF Heard, TypeInv
<1>4. CASE Speaks(c)
  <2>1. gen' \in [Calls -> Gens]
    BY <1>1, <1>4, CallTypes DEF Heard, TypeInv
  <2>2. bytes' \in [Bufs -> BufferBytes]
    BY <1>1, <1>4, CollectType DEF Heard
  <2>3. ChatType' /\ BusyOK'
    BY <1>1, <1>2, <1>4, <2>2, WaitForType DEF Heard, Busy
  <2>4. TypeAI'
    BY <1>2, <1>3, <2>1 DEF TypeInv, TypeAI, memory
  <2>. QED  BY <2>3, <2>4 DEF TypeInv
<1>5. CASE ~ Speaks(c)
  <2>1. hear[call[c]].out \in Seq(Seq(Chunks))
    BY <1>1 DEF TypeInv, TypeAI, Hears
  <2>2. [kind |-> "heard", part |-> LastPart(hear[call[c]].out)] \in Replies
    BY <2>1, LastPartType, ReplyTypes
  <2>3. gen' = gen /\ bytes' \in [Bufs -> BufferBytes]
    BY <1>5 DEF Heard, TypeInv, ChatType
  <2>4. ChatType' /\ BusyOK'
    BY <1>1, <1>2, <1>5, <2>2, <2>3, AnswerType DEF Heard
  <2>5. TypeAI'
    BY <1>2, <1>3, <2>3 DEF TypeInv, TypeAI, memory
  <2>. QED  BY <2>4, <2>5 DEF TypeInv
<1>. QED  BY <1>4, <1>5

LEMMA SameAI ==
  ASSUME TypeAI, UNCHANGED <<memory, model, gen, speech>>, faults' \in 0 .. MaxFaults
  PROVE  TypeAI'
BY DEF TypeAI, memory, speech

LEMMA GeneratedType ==
  ASSUME TypeInv, NEW c \in Tabs, Generated(c)
  PROVE  TypeInv'
<1>1. pc[c] \in Busy
  BY DEF Generated, Busy
<1>2. bytes' \in [Bufs -> BufferBytes]
  BY <1>1, CollectType DEF Generated
<1>3. ChatType' /\ BusyOK'
  BY <1>1, <1>2, WaitForType DEF Generated, Busy, TypeInv, ChatType
<1>4. TypeAI'
  BY DEF Generated, aivars, TypeInv, TypeAI, memory, speech
<1>. QED  BY <1>3, <1>4 DEF TypeInv

LEMMA SaveType ==
  ASSUME TypeInv, NEW c \in Tabs, SaveLastMessage(c)
  PROVE  TypeInv'
<1>. DEFINE text == Text(call[c], gen[call[c]].sent)
<1>1. pc[c] \in Busy /\ call[c] \in Calls
  BY DEF SaveLastMessage, TypeInv, BusyOK, Busy
<1>2. text \in Texts
  <2>1. gen[call[c]].sent \in 0 .. MaxPieces
    BY <1>1 DEF TypeInv, TypeAI, Gens
  <2>. QED  BY <1>1, <2>1, TextType
<1>3. PICK o \in Outcomes :
       /\ Counted(o)
       /\ last' = Effect(o, text, last)
       /\ CASE o = "ok" /\ Speaks(c) -> WaitFor(c, "speak") /\ UNCHANGED <<free, shared>>
            [] o = "ok" /\ ~ Speaks(c) -> Answer(c, [kind |-> "text", text |-> text])
            [] o # "ok" -> Answer(c, IF Speaks(c) /\ text # NoText
                                     THEN [kind |-> "audio", failed |-> TRUE]
                                     ELSE ErrorReply)
  BY DEF SaveLastMessage
<1>4. last' \in Texts /\ calls' = calls /\ bytes' \in [Bufs -> BufferBytes]
  <2>. HIDE DEF text
  <2>. QED  BY <1>2, <1>3, EffectType DEF SaveLastMessage, TypeInv, ChatType
<1>5. TypeAI'
  BY <1>3, SameAI, CountedType DEF SaveLastMessage, TypeInv, TypeAI
<1>. HIDE DEF text
<1>6. ChatType' /\ BusyOK'
  <2>1. CASE o = "ok" /\ Speaks(c)
    BY <1>1, <1>3, <1>4, <2>1, WaitForType DEF Busy
  <2>2. ASSUME NEW r \in Replies, Answer(c, r)
        PROVE  ChatType' /\ BusyOK'
    BY <1>1, <1>4, <2>2, AnswerType
  <2>3. CASE o = "ok" /\ ~ Speaks(c)
    BY <1>2, <1>3, <2>2, <2>3, ReplyTypes
  <2>4. CASE o # "ok"
    <3>1. Answer(c, IF Speaks(c) /\ text # NoText
                    THEN [kind |-> "audio", failed |-> TRUE] ELSE ErrorReply)
      BY <1>3, <2>4
    <3>2. (IF Speaks(c) /\ text # NoText
           THEN [kind |-> "audio", failed |-> TRUE] ELSE ErrorReply) \in Replies
      BY ReplyTypes
    <3>. QED  BY <2>2, <3>1, <3>2
  <2>. QED  BY <2>1, <2>3, <2>4
<1>. QED  BY <1>5, <1>6 DEF TypeInv

LEMMA SpeakType ==
  ASSUME TypeInv, NEW c \in Tabs, Speak(c)
  PROVE  TypeInv'
<1>1. pc[c] \in Busy /\ call[c] \in Calls /\ buf[c] \in Bufs
  BY DEF Speak, TypeInv, BusyOK, Busy
<1>2. last' \in Texts /\ calls' = calls /\ UNCHANGED <<memory, model, gen, speech>>
  BY DEF Speak, TypeInv, ChatType
<1>3. faults' \in 0 .. MaxFaults /\ bytes' \in [Bufs -> BufferBytes]
  <2>1. Bytes("audio", call[c], gen[call[c]].sent) \in BufferBytes
    BY <1>1 DEF Bytes, BufferBytes, TypeInv, TypeAI, Gens
  <2>. QED  BY <2>1, CountedType DEF Speak, TypeInv, TypeAI, ChatType
<1>4. \E r \in Replies : Answer(c, r)
  BY ReplyTypes DEF Speak
<1>5. ChatType' /\ BusyOK'
  BY <1>1, <1>2, <1>3, <1>4, AnswerType
<1>. QED  BY <1>2, <1>3, <1>5, SameAI DEF TypeInv

LEMMA GiveUpType ==
  ASSUME TypeInv, NEW c \in Tabs, GiveUp(c)
  PROVE  TypeInv'
<1>1. pc[c] \in Busy
  BY DEF GiveUp, Busy
<1>2. last' \in Texts /\ calls' = calls /\ UNCHANGED <<memory, model, gen, speech>>
  BY DEF GiveUp, TypeInv, ChatType
<1>3. faults' \in 0 .. MaxFaults
  BY CountedType DEF GiveUp, TypeInv, TypeAI
<1>4. bytes' \in [Bufs -> BufferBytes]
  BY <1>1, CollectType DEF GiveUp, Fail
<1>5. \E r \in Replies : Answer(c, r)
  BY ReplyTypes DEF GiveUp, Fail
<1>6. ChatType' /\ BusyOK'
  BY <1>1, <1>2, <1>4, <1>5, AnswerType
<1>. QED  BY <1>2, <1>3, <1>6, SameAI DEF TypeInv

LEMMA WriteReplyType ==
  ASSUME TypeInv, NEW c \in Tabs, WriteReply(c)
  PROVE  TypeInv'
<1>1. TypeAI'
  BY DEF WriteReply, aivars, TypeInv, TypeAI, memory, speech
<1>2. ChatType'
  <2>1. bytes' \in [Bufs -> BufferBytes]
    BY DEF WriteReply, Rest, TypeInv, ChatType, BufferBytes
  <2>2. 0 \in 0 .. MaxCalls /\ NoReply \in Replies
    BY ReplyTypes, AIServiceAssumption
  <2>. QED  BY <2>1, <2>2 DEF WriteReply, Rest, TypeInv, ChatType
<1>3. BusyOK'
  BY ReplyKinds DEF WriteReply, Rest, TypeInv, ChatType, BusyOK, Busy
<1>. QED  BY <1>1, <1>2, <1>3 DEF TypeInv

LEMMA ReceiveType ==
  ASSUME TypeInv, NEW c \in Tabs, NEW m \in Modes, Receive(c, m)
  PROVE  TypeInv'
<1>1. pc[c] = "idle" /\ calls < MaxCalls /\ calls' = calls + 1 /\ reply[c] = NoReply
  BY DEF Receive, TypeInv, BusyOK
<1>2. calls + 1 \in Calls /\ calls + 1 \in 0 .. MaxCalls /\ calls \in Nat
  BY <1>1, AIServiceAssumption DEF TypeInv, ChatType, Calls
<1>3. PICK b \in free : /\ free' = free \ {b}
                        /\ buf' = [buf EXCEPT ![c] = b]
                        /\ shared' = shared \union {d \in Tabs : buf[d] = b}
  BY DEF Receive
<1>4. /\ pc' = [pc EXCEPT ![c] = "hear"] \/ pc' = [pc EXCEPT ![c] = "text"]
      /\ call' = [call EXCEPT ![c] = calls + 1]
      /\ mode' = [mode EXCEPT ![c] = m]
      /\ UNCHANGED <<memory, model, rec, met, faults, last, reply, bytes>>
  BY DEF Receive
<1>5. gen' \in [Calls -> Gens] /\ hear' \in [Calls -> Hears]
  BY <1>2, CallTypes DEF Receive, TypeInv, TypeAI
<1>6. TypeAI'
  BY <1>4, <1>5 DEF TypeInv, TypeAI, memory
<1>7. ChatType'
  BY <1>1, <1>2, <1>3, <1>4 DEF TypeInv, ChatType
<1>8. BusyOK'
  <2>. SUFFICES ASSUME NEW d \in Tabs
                PROVE  /\ call'[d] <= calls'
                       /\ pc'[d] \in Busy \/ reply'[d].kind \in {"text", "audio"} =>
                            call'[d] \in Calls /\ buf'[d] \in Bufs
                       /\ pc'[d] \in {"idle", "clear"} => call'[d] = 0 /\ buf'[d] = NoBuf
                       /\ pc'[d] # "write" => reply'[d] = NoReply
    BY DEF BusyOK
  <2>1. CASE d = c
    BY <2>1, <1>1, <1>2, <1>3, <1>4 DEF TypeInv, ChatType, Busy
  <2>2. CASE d # c
    <3>1. /\ pc'[d] = pc[d] /\ call'[d] = call[d] /\ buf'[d] = buf[d] /\ reply'[d] = reply[d]
          /\ call[d] \in Nat
      BY <2>2, <1>3, <1>4 DEF TypeInv, ChatType
    <3>. QED  BY <3>1, <1>1, <1>2 DEF TypeInv, BusyOK
  <2>. QED  BY <2>1, <2>2
<1>. QED  BY <1>6, <1>7, <1>8 DEF TypeInv

LEMMA CommandsType ==
  ASSUME TypeInv, NEW c \in Tabs,
         \/ Transcript(c) \/ ClearContext(c) \/ ClearAIContext(c)
         \/ \E m \in Models : ChangeModel(c, m)
  PROVE  TypeInv'
<1>1. CASE Transcript(c)
  <2>1. [kind |-> "transcript", text |-> last] \in Replies
    BY ReplyTypes DEF TypeInv, ChatType
  <2>2. ChatType'
    BY <1>1, <2>1 DEF Transcript, TypeInv, ChatType, pool
  <2>3. BusyOK'
    BY <1>1 DEF Transcript, TypeInv, ChatType, BusyOK, Busy
  <2>4. TypeAI'
    BY <1>1 DEF Transcript, aivars, TypeInv, TypeAI, memory, speech
  <2>. QED  BY <2>2, <2>3, <2>4 DEF TypeInv
<1>2. CASE ClearContext(c)
  <2>1. ChatType' /\ BusyOK'
    BY <1>2 DEF ClearContext, TypeInv, ChatType, BusyOK, Busy, pool
  <2>2. TypeAI'
    BY <1>2 DEF ClearContext, aivars, TypeInv, TypeAI, memory, speech
  <2>. QED  BY <2>1, <2>2 DEF TypeInv
<1>3. CASE ClearAIContext(c)
  <2>1. TypeAI'
    BY <1>3, DelContextType DEF ClearAIContext, TypeInv
  <2>2. PICK r \in {ClearedReply, ErrorReply} : reply' = [reply EXCEPT ![c] = r]
    BY <1>3 DEF ClearAIContext
  <2>3. r.kind \notin {"text", "audio"} /\ r \in Replies
    BY ReplyKinds, ReplyTypes
  <2>4. ChatType'
    BY <1>3, <2>2, <2>3 DEF ClearAIContext, TypeInv, ChatType, pool
  <2>5. BusyOK'
    BY <1>3, <2>2, <2>3 DEF ClearAIContext, TypeInv, ChatType, BusyOK, Busy
  <2>. QED  BY <2>1, <2>4, <2>5 DEF TypeInv
<1>4. ASSUME NEW m \in Models, ChangeModel(c, m)  PROVE TypeInv'
  BY <1>4 DEF ChangeModel, SetModel, TypeInv, TypeAI, ChatType, BusyOK, memory, speech,
              handlers, pool
<1>. QED  BY <1>1, <1>2, <1>3, <1>4

LEMMA TypeNext == TypeInv /\ [Next]_vars => TypeInv'
<1>. SUFFICES ASSUME TypeInv, [Next]_vars PROVE TypeInv'
  OBVIOUS
<1>1. ASSUME NEW c \in Tabs, Handler(c)  PROVE TypeInv'
  BY <1>1, HeardType, GeneratedType, SaveType, SpeakType, GiveUpType, WriteReplyType DEF Handler
<1>2. ASSUME NEW c \in Tabs, NEW m \in Modes, Receive(c, m)  PROVE TypeInv'
  BY <1>2, ReceiveType
<1>3. ASSUME NEW c \in Tabs,
             \/ Transcript(c) \/ ClearContext(c) \/ ClearAIContext(c)
             \/ \E m \in Models : ChangeModel(c, m)
      PROVE  TypeInv'
  BY <1>3, CommandsType
<1>4. CASE Streams \/ Service
  <2>1. TypeAI'
    BY <1>4, GenStepType, HearStepType, ServiceType DEF Streams, Service, TypeInv
  <2>2. ChatType' /\ BusyOK'
    BY <1>4 DEF Streams, Service, TypeInv, ChatType, BusyOK, handlers, pool
  <2>. QED  BY <2>1, <2>2 DEF TypeInv
<1>5. CASE UNCHANGED vars
  BY <1>5 DEF vars, aivars, TypeInv, TypeAI, ChatType, BusyOK, memory, speech, handlers, pool
<1>. QED  BY <1>1, <1>2, <1>3, <1>4, <1>5 DEF Next

LEMMA TypeInit == Init => TypeInv
<1>. SUFFICES ASSUME Init PROVE TypeInv
  OBVIOUS
<1>1. NoGen \in Gens /\ NoHear \in Hears
  BY EmptyType, AIServiceAssumption DEF NoGen, Gens, NoHear, Hears
<1>2. TypeAI
  BY <1>1, EmptyType, AIServiceAssumption DEF Init, InitAI, TypeAI
<1>3. ChatType
  BY ReplyTypes, AIServiceAssumption DEF Init, InitChat, ChatType, Texts, NoText, BufferBytes
<1>4. BusyOK
  BY ReplyKinds DEF Init, InitChat, BusyOK, Busy
<1>. QED  BY <1>2, <1>3, <1>4 DEF TypeInv

\* The variables of the AI modes and of ai-service have their types.
THEOREM TypeCorrect == Spec => []TypeOK
BY TypeParts, TypeInit, TypeNext, PTL DEF Spec

-----------------------------------------------------------------------------
(* Texts.                                                                  *)

\* Every message has a number of its own, and makes its call once.
Numbered ==
  /\ \A c, d \in Tabs : c # d /\ call[c] = call[d] => call[c] = 0
  /\ \A t \in Calls : t > calls => gen[t].at = "none"
  /\ \A c \in Tabs : pc[c] = "hear" => gen[call[c]].at = "none"

\* The calls that have ended well have sent all there was, and stay as they are.
Complete ==
  \A t \in Calls : gen[t].at \in {"store", "done"} => gen[t].sent = gen[t].made

\* A call that has ended stays as it is.
DoneKept == \A t \in Calls : gen[t].at = "done" => gen'[t] = gen[t]

\* x is nothing, or the whole answer to some message.
Whole(x, answers) ==
  \/ x = NoText
  \/ /\ x.of \in Calls /\ answers[x.of].at = "done"
     /\ x = Text(x.of, answers[x.of].made)

\* The handler has found its call of GenerateText to have ended well.
Judged(c) == pc[c] \in {"save", "speak"} \/ reply[c].kind = "text"

TextInv ==
  /\ Numbered /\ Complete
  /\ Whole(last, gen)
  /\ \A c \in Tabs :
       /\ Judged(c) => gen[call[c]].at = "done"
       /\ reply[c].kind = "text" => reply[c].text = Text(call[c], gen[call[c]].made)
       /\ reply[c].kind = "transcript" => Whole(reply[c].text, gen)

LEMMA WholeKept ==
  ASSUME DoneKept, NEW x, Whole(x, gen)
  PROVE  Whole(x, gen')
BY DEF DoneKept, Whole

LEMMA GenStepText ==
  ASSUME TypeInv, TextInv, NEW t \in Calls, GenStep(t)
  PROVE  /\ DoneKept /\ Complete'
         /\ gen[t].at # "none"
         /\ \A u \in Calls : u # t => gen'[u] = gen[u]
<1>1. gen \in [Calls -> Gens] /\ gen[t] \in Gens
  BY DEF TypeInv, TypeAI
<1>2. gen[t].at \notin {"none", "done"} /\ \A u \in Calls : u # t => gen'[u] = gen[u]
  BY <1>1 DEF GenStep, ReadContext, Ask, Line, LastLine, Store, GenFails
<1>3. gen'[t].at \in {"store", "done"} => gen'[t].sent = gen'[t].made
  <2>1. ASSUME gen' = [gen EXCEPT ![t] = Over(t, "failed")]
        PROVE  gen'[t].at = "failed"
    <3>1. Over(t, "failed") \in Gens /\ Over(t, "failed").at = "failed"
      <4>1. NoGen \in Gens
        BY EmptyType, AIServiceAssumption DEF NoGen, Gens
      <4>. QED  BY <4>1, OverType DEF Over, Gens, TypeInv
    <3>. QED  BY <1>1, <2>1, <3>1
  <2>2. CASE ReadContext(t)
    BY <1>1, <2>1, <2>2 DEF ReadContext, GenFails, Gens
  <2>3. CASE Ask(t)
    BY <1>1, <2>1, <2>3 DEF Ask, GenFails, Gens
  <2>4. CASE Line(t)
    BY <1>1, <2>4 DEF Line, Gens
  <2>5. CASE LastLine(t)
    BY <1>1, <2>1, <2>5 DEF LastLine, GenFails, Gens
  <2>6. CASE Store(t)
    <3>1. PICK how \in {"done", "failed"} : gen' = [gen EXCEPT ![t] = Over(t, how)]
      BY <2>6 DEF Store
    <3>2. gen[t].sent = gen[t].made
      BY <2>6 DEF Store, TextInv, Complete
    <3>3. Over(t, how).sent = gen[t].sent /\ Over(t, how).made = gen[t].made
      <4>1. NoGen \in Gens
        BY EmptyType, AIServiceAssumption DEF NoGen, Gens
      <4>. QED  BY <4>1 DEF Over, Gens
    <3>. QED  BY <1>1, <3>1, <3>2, <3>3
  <2>. QED  BY <2>2, <2>3, <2>4, <2>5, <2>6 DEF GenStep
<1>4. Complete'
  BY <1>2, <1>3 DEF TextInv, Complete
<1>. QED  BY <1>2, <1>4 DEF DoneKept

\* A step in which no handler moves keeps what is done.
LEMMA StreamsText ==
  ASSUME TypeInv, TextInv, Streams \/ Service
  PROVE  TextInv'
<1>1. UNCHANGED <<last, calls, pc, mode, call, buf, reply>>
  BY DEF Streams, Service, handlers
<1>2. /\ DoneKept /\ Complete'
      /\ \A t \in Calls : gen[t].at = "none" => gen'[t].at = "none"
  <2>1. CASE gen' = gen
    BY <2>1 DEF DoneKept, TextInv, Complete
  <2>2. ASSUME NEW t \in Calls, GenStep(t)
        PROVE  <1>2!:
    BY <2>2, GenStepText DEF DoneKept
  <2>3. ASSUME NEW t \in Calls, HearStep(t)
        PROVE  gen' = gen
    BY <2>3 DEF HearStep, Decode, ProcessChunk, FinalResult
  <2>4. CASE Restart
    <3>1. \A t \in Calls : gen'[t] = gen[t] \/ gen'[t] = Over(t, "failed")
      BY <2>4 DEF Restart
    <3>2. \A t \in Calls : gen[t].at \in {"none", "done"} => gen'[t] = gen[t]
      BY <2>4 DEF Restart
    <3>3. \A t \in Calls : Over(t, "failed").at = "failed"
      <4>1. NoGen \in Gens
        BY EmptyType, AIServiceAssumption DEF NoGen, Gens
      <4>. QED  BY <4>1 DEF Over, Gens
    <3>. QED  BY <3>1, <3>2, <3>3 DEF DoneKept, TextInv, Complete
  <2>5. CASE ExpireContext
    BY <2>1, <2>5 DEF ExpireContext
  <2>. QED  BY <2>1, <2>2, <2>3, <2>4, <2>5 DEF Streams, Service
<1>3. Numbered'
  <2>1. \A c \in Tabs : pc[c] = "hear" => call[c] \in Calls
    BY DEF TypeInv, BusyOK, Busy
  <2>. QED  BY <1>1, <1>2, <2>1 DEF TextInv, Numbered
<1>4. \A x : Whole(x, gen) => Whole(x, gen')
  BY <1>2, WholeKept
<1>5. \A c \in Tabs : Judged(c) => call[c] \in Calls
  BY DEF TypeInv, BusyOK, Busy, Judged
<1>6. \A c \in Tabs :
        /\ Judged(c)' => gen'[call'[c]].at = "done"
        /\ reply'[c].kind = "text" => reply'[c].text = Text(call'[c], gen'[call'[c]].made)
        /\ reply'[c].kind = "transcript" => Whole(reply'[c].text, gen')
  BY <1>1, <1>2, <1>4, <1>5 DEF TextInv, Judged, DoneKept
<1>. QED  BY <1>1, <1>2, <1>3, <1>4, <1>6 DEF TextInv

\* A step of handler c that makes no call.
LEMMA HandlerText ==
  ASSUME TypeInv, TextInv, NEW c \in Tabs, gen' = gen, calls' = calls,
         \A d \in Tabs \ {c} : pc'[d] = pc[d] /\ call'[d] = call[d] /\ reply'[d] = reply[d],
         call'[c] \in {call[c], 0},
         pc'[c] # "hear",
         Whole(last', gen),
         Judged(c)' => gen[call'[c]].at = "done",
         reply'[c].kind = "text" => reply'[c].text = Text(call'[c], gen[call'[c]].made),
         reply'[c].kind = "transcript" => Whole(reply'[c].text, gen)
  PROVE  TextInv'
<1>1. Complete'
  BY DEF TextInv, Complete
<1>2. Numbered'
  <2>1. \A d, e \in Tabs : d # e /\ call'[d] = call'[e] => call'[d] = 0
    BY DEF TextInv, Numbered
  <2>2. \A d \in Tabs : pc'[d] = "hear" => gen'[call'[d]].at = "none"
    BY DEF TextInv, Numbered
  <2>3. \A t \in Calls : t > calls' => gen'[t].at = "none"
    BY DEF TextInv, Numbered
  <2>. QED  BY <2>1, <2>2, <2>3 DEF Numbered
<1>3. ASSUME NEW d \in Tabs \ {c}
      PROVE  /\ Judged(d)' => gen'[call'[d]].at = "done"
             /\ reply'[d].kind = "text" => reply'[d].text = Text(call'[d], gen'[call'[d]].made)
             /\ reply'[d].kind = "transcript" => Whole(reply'[d].text, gen')
  BY DEF TextInv, Judged
<1>. QED  BY <1>1, <1>2, <1>3 DEF TextInv

\* Handler c makes the call with number t, its own or the next one.
LEMMA NewCallText ==
  ASSUME TypeInv, TextInv, NEW c \in Tabs, NEW t \in Calls,
         gen[t].at = "none",
         \/ gen' = gen
         \/ CallGenerate(t) /\ pc'[c] # "hear",
         \A d \in Tabs \ {c} : /\ pc'[d] = pc[d] /\ call'[d] = call[d] /\ reply'[d] = reply[d]
                               /\ call[d] # t,
         call'[c] = t, calls' >= t, calls' >= calls, calls' \in Nat, reply'[c] = NoReply,
         pc'[c] \in {"hear", "text"}, last' = last
  PROVE  TextInv'
<1>1. /\ gen \in [Calls -> Gens] /\ calls \in Nat
      /\ \A d \in Tabs : call[d] \in Nat
  BY DEF TypeInv, TypeAI, ChatType
<1>2. gen' = gen \/ gen' = [gen EXCEPT ![t] = [gen[t] EXCEPT !.at = "called"]]
  BY <1>1 DEF CallGenerate
<1>3. [gen[t] EXCEPT !.at = "called"].at = "called"
  BY <1>1 DEF Gens
<1>4. /\ \A u \in Calls \ {t} : gen'[u] = gen[u]
      /\ gen'[t].at \in {"none", "called"}
      /\ pc'[c] = "hear" => gen'[t].at = "none"
  BY <1>1, <1>2, <1>3
<1>5. Complete' /\ DoneKept
  BY <1>4 DEF TextInv, Complete, DoneKept
<1>6. Numbered'
  <2>1. \A d, e \in Tabs : d # e /\ call'[d] = call'[e] => call'[d] = 0
    BY DEF TextInv, Numbered
  <2>2. \A d \in Tabs \ {c} : pc[d] = "hear" => call[d] \in Calls /\ gen[call[d]].at = "none"
    BY DEF TypeInv, BusyOK, Busy, TextInv, Numbered
  <2>3. \A d \in Tabs : pc'[d] = "hear" => gen'[call'[d]].at = "none"
    BY <1>4, <2>2
  <2>4. ASSUME NEW u \in Calls, u > calls'  PROVE  gen'[u].at = "none"
    <3>1. u \in Nat /\ t \in Nat
      BY DEF Calls
    <3>2. u # t /\ u > calls
      BY <1>1, <2>4, <3>1
    <3>. QED  BY <1>4, <3>2 DEF TextInv, Numbered
  <2>. QED  BY <2>1, <2>3, <2>4 DEF Numbered
<1>7. \A x : Whole(x, gen) => Whole(x, gen')
  BY <1>5, WholeKept
<1>8. ASSUME NEW d \in Tabs
      PROVE  /\ Judged(d)' => gen'[call'[d]].at = "done"
             /\ reply'[d].kind = "text" => reply'[d].text = Text(call'[d], gen'[call'[d]].made)
             /\ reply'[d].kind = "transcript" => Whole(reply'[d].text, gen')
  <2>1. CASE d = c
    BY <2>1, ReplyKinds DEF Judged
  <2>2. CASE d # c
    <3>1. Judged(d) => call[d] \in Calls
      BY DEF TypeInv, BusyOK, Busy, Judged
    <3>. QED  BY <2>2, <3>1, <1>4, <1>7 DEF TextInv, Judged
  <2>. QED  BY <2>1, <2>2
<1>9. Whole(last', gen')
  BY <1>7 DEF TextInv
<1>. QED  BY <1>5, <1>6, <1>8, <1>9 DEF TextInv

\* What Answer and WaitFor leave alone.
LEMMA OwnStep ==
  ASSUME TypeInv, NEW c \in Tabs,
         \/ \E r : Answer(c, r) /\ reply'[c] = r
         \/ \E label : WaitFor(c, label)
  PROVE  /\ \A d \in Tabs \ {c} : pc'[d] = pc[d] /\ call'[d] = call[d] /\ reply'[d] = reply[d]
         /\ call'[c] = call[c]
BY DEF Answer, WaitFor, TypeInv, ChatType

LEMMA AnswerIs ==
  ASSUME TypeInv, NEW c \in Tabs, NEW r, Answer(c, r)
  PROVE  reply'[c] = r /\ pc'[c] = "write" /\ call' = call /\ buf' = buf
         /\ free' = free \union {buf[c]} /\ shared' = shared /\ mode' = mode
BY DEF Answer, TypeInv, ChatType

LEMMA WaitForIs ==
  ASSUME TypeInv, NEW c \in Tabs, NEW label, WaitFor(c, label)
  PROVE  reply' = reply /\ pc'[c] = label /\ call' = call /\ buf' = buf /\ mode' = mode
BY DEF WaitFor, TypeInv, ChatType

\* An answer that is no text.
LEMMA AnswerText ==
  ASSUME TypeInv, TextInv, NEW c \in Tabs, NEW r, Answer(c, r),
         r.kind \notin {"text", "transcript"},
         gen' = gen, calls' = calls, Whole(last', gen)
  PROVE  TextInv'
<1>1. reply'[c] = r /\ pc'[c] = "write"
  BY AnswerIs
<1>2. /\ \A d \in Tabs \ {c} : pc'[d] = pc[d] /\ call'[d] = call[d] /\ reply'[d] = reply[d]
      /\ call'[c] = call[c]
  BY <1>1, OwnStep
<1>. QED  BY <1>1, <1>2, HandlerText DEF Judged

LEMMA HeardText ==
  ASSUME TypeInv, TextInv, NEW c \in Tabs, Heard(c)
  PROVE  TextInv'
<1>1. pc[c] = "hear" /\ call[c] \in Calls /\ reply[c] = NoReply /\ calls' = calls /\ last' = last
  BY DEF Heard, TypeInv, BusyOK, Busy
<1>2. CASE Speaks(c)
  <2>1. WaitFor(c, "text") /\ CallGenerate(call[c])
    BY <1>2 DEF Heard
  <2>2. /\ \A d \in Tabs \ {c} : pc'[d] = pc[d] /\ call'[d] = call[d] /\ reply'[d] = reply[d]
        /\ call'[c] = call[c] /\ reply'[c] = NoReply /\ pc'[c] = "text"
    BY <1>1, <2>1, OwnStep, WaitForIs
  <2>3. gen[call[c]].at = "none"
    BY <1>1 DEF TextInv, Numbered
  <2>4. call[c] <= calls /\ calls \in Nat /\ call[c] \in Nat /\ call[c] # 0
    BY <1>1 DEF TypeInv, BusyOK, ChatType, Calls
  <2>5. \A d \in Tabs \ {c} : call[d] # call[c]
    BY <2>4 DEF TextInv, Numbered
  <2>6. calls' >= call[c] /\ calls' >= calls /\ calls' \in Nat
    BY <1>1, <2>4
  <2>. QED  BY <1>1, <2>1, <2>2, <2>3, <2>5, <2>6, NewCallText
<1>3. CASE ~ Speaks(c)
  <2>1. gen' = gen /\ Answer(c, [kind |-> "heard", part |-> LastPart(hear[call[c]].out)])
    BY <1>3 DEF Heard
  <2>. QED  BY <1>1, <2>1, AnswerText DEF TextInv
<1>. QED  BY <1>2, <1>3

LEMMA WaitingText ==
  ASSUME TypeInv, TextInv, NEW c \in Tabs, NEW label \in {"save", "speak"}, WaitFor(c, label),
         pc[c] \in Busy, gen[call[c]].at = "done",
         gen' = gen, calls' = calls, Whole(last', gen)
  PROVE  TextInv'
<1>1. /\ \A d \in Tabs \ {c} : pc'[d] = pc[d] /\ call'[d] = call[d] /\ reply'[d] = reply[d]
      /\ call'[c] = call[c] /\ pc'[c] = label /\ reply'[c] = NoReply
  BY OwnStep, WaitForIs DEF TypeInv, BusyOK, Busy
<1>. QED  BY <1>1, HandlerText, ReplyKinds

LEMMA SaveText ==
  ASSUME TypeInv, TextInv, NEW c \in Tabs, SaveLastMessage(c)
  PROVE  TextInv'
<1>. DEFINE text == Text(call[c], gen[call[c]].sent)
<1>1. /\ pc[c] = "save" /\ pc[c] \in Busy /\ call[c] \in Calls /\ gen' = gen /\ calls' = calls
      /\ gen[call[c]].at = "done"
  BY DEF SaveLastMessage, TypeInv, BusyOK, Busy, TextInv, Judged
<1>2. text = Text(call[c], gen[call[c]].made)
  BY <1>1 DEF TextInv, Complete
<1>3. Whole(text, gen)
  <2>1. CASE gen[call[c]].made = 0
    BY <1>2, <2>1 DEF Text, NoText, Whole
  <2>2. CASE gen[call[c]].made # 0
    BY <1>1, <1>2, <2>2 DEF Text, Whole
  <2>. QED  BY <2>1, <2>2
<1>4. PICK o \in Outcomes :
       /\ last' = Effect(o, text, last)
       /\ CASE o = "ok" /\ Speaks(c) -> WaitFor(c, "speak") /\ UNCHANGED <<free, shared>>
            [] o = "ok" /\ ~ Speaks(c) -> Answer(c, [kind |-> "text", text |-> text])
            [] o # "ok" -> Answer(c, IF Speaks(c) /\ text # NoText
                                     THEN [kind |-> "audio", failed |-> TRUE]
                                     ELSE ErrorReply)
  BY DEF SaveLastMessage
<1>. HIDE DEF text
<1>5. Whole(last', gen)
  <2>1. last' = text \/ last' = last
    BY <1>4 DEF Effect
  <2>2. Whole(last, gen)
    BY DEF TextInv
  <2>. QED  BY <1>3, <2>1, <2>2, Zenon
<1>6. CASE o = "ok" /\ Speaks(c)
  BY <1>1, <1>4, <1>5, <1>6, WaitingText
<1>7. CASE o = "ok" /\ ~ Speaks(c)
  <2>1. Answer(c, [kind |-> "text", text |-> text])
    BY <1>4, <1>7
  <2>2. /\ \A d \in Tabs \ {c} : pc'[d] = pc[d] /\ call'[d] = call[d] /\ reply'[d] = reply[d]
        /\ call'[c] = call[c] /\ reply'[c] = [kind |-> "text", text |-> text] /\ pc'[c] = "write"
    BY <2>1, OwnStep, AnswerIs
  <2>. QED  BY <1>1, <1>2, <1>5, <2>2, HandlerText
<1>8. CASE o # "ok"
  <2>1. PICK r : Answer(c, r) /\ r.kind \notin {"text", "transcript"}
    BY <1>4, <1>8, ReplyKinds
  <2>. QED  BY <1>1, <1>5, <2>1, AnswerText
<1>. QED  BY <1>6, <1>7, <1>8

LEMMA OtherText ==
  ASSUME TypeInv, TextInv, NEW c \in Tabs,
         \/ Generated(c) \/ Speak(c) \/ GiveUp(c) \/ WriteReply(c)
         \/ Transcript(c) \/ ClearContext(c) \/ ClearAIContext(c)
         \/ \E m \in Models : ChangeModel(c, m)
  PROVE  TextInv'
<1>1. gen' = gen /\ calls' = calls /\ last' = last /\ Whole(last', gen)
  BY DEF Generated, Speak, GiveUp, WriteReply, Transcript, ClearContext, ClearAIContext,
         ChangeModel, aivars, TextInv
<1>2. CASE Generated(c)
  BY <1>1, <1>2, WaitingText DEF Generated, Busy
<1>3. CASE Speak(c) \/ GiveUp(c)
  <2>1. PICK r : Answer(c, r) /\ r.kind \notin {"text", "transcript"}
    BY <1>3, ReplyKinds DEF Speak, GiveUp, Fail
  <2>. QED  BY <1>1, <2>1, AnswerText
<1>4. CASE WriteReply(c) \/ Transcript(c) \/ ClearContext(c) \/ ClearAIContext(c)
  <2>1. /\ \A d \in Tabs \ {c} : pc'[d] = pc[d] /\ call'[d] = call[d] /\ reply'[d] = reply[d]
        /\ call'[c] \in {call[c], 0}
        /\ pc'[c] \in {"idle", "write", "clear"}
    BY <1>4 DEF WriteReply, Rest, Transcript, ClearContext, ClearAIContext, TypeInv, ChatType
  <2>2. \/ reply'[c] \in {NoReply, ErrorReply, ClearedReply}
        \/ reply'[c] = [kind |-> "transcript", text |-> last]
    BY <1>4 DEF WriteReply, Rest, Transcript, ClearContext, ClearAIContext, TypeInv, ChatType,
                BusyOK
  <2>. QED  BY <1>1, <2>1, <2>2, HandlerText, ReplyKinds DEF Judged, TextInv
<1>5. ASSUME NEW m \in Models, ChangeModel(c, m)  PROVE TextInv'
  BY <1>1, <1>5 DEF ChangeModel, handlers, TextInv, Numbered, Complete, Judged
<1>. QED  BY <1>2, <1>3, <1>4, <1>5

LEMMA ReceiveText ==
  ASSUME TypeInv, TextInv, NEW c \in Tabs, NEW m \in Modes, Receive(c, m)
  PROVE  TextInv'
<1>1. /\ pc[c] = "idle" /\ calls < MaxCalls /\ calls' = calls + 1 /\ reply[c] = NoReply
      /\ last' = last
  BY DEF Receive, TypeInv, BusyOK
<1>2. calls + 1 \in Calls /\ calls \in Nat
  BY <1>1, AIServiceAssumption DEF TypeInv, ChatType, Calls
<1>3. gen[calls + 1].at = "none"
  BY <1>2 DEF TextInv, Numbered
<1>4. /\ \A d \in Tabs \ {c} : pc'[d] = pc[d] /\ call'[d] = call[d] /\ reply'[d] = reply[d]
      /\ call'[c] = calls + 1 /\ reply'[c] = NoReply
      /\ pc'[c] \in {"hear", "text"}
  BY <1>1 DEF Receive, TypeInv, ChatType
<1>5. \A d \in Tabs : call[d] # calls + 1
  BY <1>2 DEF TypeInv, BusyOK, ChatType
<1>6. gen' = gen \/ (CallGenerate(calls + 1) /\ pc'[c] # "hear")
  BY DEF Receive, TypeInv, ChatType
<1>7. calls' >= calls + 1 /\ calls' >= calls /\ calls' \in Nat
  BY <1>1, <1>2
<1>. QED  BY <1>1, <1>2, <1>3, <1>4, <1>5, <1>6, <1>7, NewCallText

LEMMA TextNext == TypeInv /\ TextInv /\ [Next]_vars => TextInv'
<1>. SUFFICES ASSUME TypeInv, TextInv, [Next]_vars PROVE TextInv'
  OBVIOUS
<1>1. ASSUME NEW c \in Tabs, Handler(c)  PROVE TextInv'
  BY <1>1, HeardText, SaveText, OtherText DEF Handler
<1>2. ASSUME NEW c \in Tabs, NEW m \in Modes, Receive(c, m)  PROVE TextInv'
  BY <1>2, ReceiveText
<1>3. ASSUME NEW c \in Tabs,
             \/ Transcript(c) \/ ClearContext(c) \/ ClearAIContext(c)
             \/ \E m \in Models : ChangeModel(c, m)
      PROVE  TextInv'
  BY <1>3, OtherText
<1>4. CASE Streams \/ Service
  BY <1>4, StreamsText
<1>5. CASE UNCHANGED vars
  BY <1>5 DEF vars, aivars, handlers, TextInv, Numbered, Complete, Judged
<1>. QED  BY <1>1, <1>2, <1>3, <1>4, <1>5 DEF Next

LEMMA TextInit == Init => TextInv
<1>. SUFFICES ASSUME Init PROVE TextInv
  OBVIOUS
<1>1. \A t \in Calls : gen[t].at = "none"
  BY DEF Init, InitAI, NoGen
<1>2. Numbered /\ Complete
  BY <1>1 DEF Init, InitChat, Numbered, Complete
<1>3. Whole(last, gen)
  BY DEF Init, InitChat, Whole
<1>. QED  BY <1>2, <1>3, ReplyKinds DEF Init, InitChat, TextInv, Judged

\* A text given as an answer is all that the language model said to this
\* message, and a transcript all that it said to some message.
THEOREM TextsAreWhole == Spec => []TextIsWhole
<1>1. TextInv => TextIsWhole
  BY DEF TextInv, TextIsWhole, Whole
<1>. QED  BY <1>1, TypeInit, TypeNext, TextInit, TextNext, PTL DEF Spec

-----------------------------------------------------------------------------
(* Sound.                                                                  *)

\* A call that has ended well is never made again.
LEMMA DoneStays == TypeInv /\ TextInv /\ [Next]_vars => DoneKept
<1>. SUFFICES ASSUME TypeInv, TextInv, [Next]_vars PROVE DoneKept
  OBVIOUS
<1>1. CASE gen' = gen
  BY <1>1 DEF DoneKept
<1>2. ASSUME NEW t \in Calls, gen[t].at # "done", CallGenerate(t)
      PROVE  DoneKept
  BY <1>2 DEF CallGenerate, DoneKept, TypeInv, TypeAI
<1>3. ASSUME NEW c \in Tabs, Handler(c)  PROVE DoneKept
  <2>1. CASE Heard(c) /\ Speaks(c)
    <3>1. call[c] \in Calls /\ gen[call[c]].at = "none" /\ CallGenerate(call[c])
      BY <2>1 DEF Heard, TypeInv, BusyOK, Busy, TextInv, Numbered
    <3>. QED  BY <1>2, <3>1
  <2>2. CASE ~ (Heard(c) /\ Speaks(c))
    BY <1>1, <1>3, <2>2 DEF Handler, Heard, Generated, SaveLastMessage, Speak, GiveUp,
                            WriteReply, aivars
  <2>. QED  BY <2>1, <2>2
<1>4. ASSUME NEW c \in Tabs, NEW m \in Modes, Receive(c, m)  PROVE DoneKept
  <2>1. calls + 1 \in Calls /\ calls \in Nat
    BY <1>4, AIServiceAssumption DEF Receive, TypeInv, ChatType, Calls
  <2>2. gen[calls + 1].at = "none"
    BY <2>1 DEF TextInv, Numbered
  <2>. QED  BY <1>1, <1>2, <1>4, <2>1, <2>2 DEF Receive
<1>5. ASSUME NEW c \in Tabs,
             \/ Transcript(c) \/ ClearContext(c) \/ ClearAIContext(c)
             \/ \E m \in Models : ChangeModel(c, m)
      PROVE  DoneKept
  BY <1>1, <1>5 DEF Transcript, ClearContext, ClearAIContext, ChangeModel, aivars
<1>6. CASE Streams
  <2>1. ASSUME NEW t \in Calls, GenStep(t)  PROVE DoneKept
    BY <2>1, GenStepText
  <2>2. ASSUME NEW t \in Calls, HearStep(t)  PROVE DoneKept
    BY <1>1, <2>2 DEF HearStep, Decode, ProcessChunk, FinalResult
  <2>. QED  BY <1>6, <2>1, <2>2 DEF Streams
<1>7. CASE Service
  BY <1>7 DEF Service, ExpireContext, Restart, DoneKept
<1>8. CASE UNCHANGED vars
  BY <1>1, <1>8 DEF vars, aivars
<1>. QED  BY <1>3, <1>4, <1>5, <1>6, <1>7, <1>8 DEF Next

\* A busy handler has taken its buffer out of the pool, and of several that
\* have the same buffer all but one had it taken.
Apart ==
  /\ \A c, d \in Tabs :
       c # d /\ buf[c] = buf[d] => buf[c] = NoBuf \/ c \in shared \/ d \in shared
  /\ \A c \in shared : pc[c] = "write"
  /\ \A c \in Tabs : pc[c] \in Busy => buf[c] \notin free

\* The text waits in the buffer of a handler that is saving it, and a reply
\* that refers to the buffer finds there what it should.
Own(c) ==
  /\ pc[c] = "save" /\ Speaks(c) /\ gen[call[c]].sent > 0 =>
       bytes[buf[c]] = Bytes("text", call[c], gen[call[c]].sent)
  /\ c \notin shared /\ reply[c].kind = "audio" =>
       IF reply[c].failed
       THEN bytes[buf[c]].kind \in {"words", "text"} /\ bytes[buf[c]].of = call[c]
       ELSE /\ gen[call[c]].at = "done"
            /\ bytes[buf[c]] = Bytes("audio", call[c], gen[call[c]].made)

BufInv == Apart /\ \A c \in Tabs : Own(c)

\* A handler that does not move keeps its sound, if nobody writes to its buffer.
LEMMA OwnKept ==
  ASSUME TypeInv, TextInv, DoneKept, NEW d \in Tabs, Own(d),
         pc'[d] = pc[d], mode'[d] = mode[d], call'[d] = call[d], buf'[d] = buf[d],
         reply'[d] = reply[d], d \notin shared' => d \notin shared,
         d \notin shared' /\ buf[d] \in Bufs => bytes'[buf[d]] = bytes[buf[d]],
         d \in shared' => pc[d] = "write"
  PROVE  Own(d)'
<1>1. pc[d] \in Busy \/ reply[d].kind = "audio" => call[d] \in Calls /\ buf[d] \in Bufs
  BY DEF TypeInv, BusyOK
<1>2. ASSUME pc'[d] = "save", Speaks(d)', gen'[call'[d]].sent > 0
      PROVE  bytes'[buf'[d]] = Bytes("text", call'[d], gen'[call'[d]].sent)
  <2>1. pc[d] = "save" /\ Speaks(d) /\ d \notin shared' /\ call[d] \in Calls /\ buf[d] \in Bufs
    BY <1>1, <1>2 DEF Speaks, Busy
  <2>2. gen'[call[d]] = gen[call[d]]
    BY <2>1 DEF TextInv, Judged, DoneKept
  <2>3. bytes[buf[d]] = Bytes("text", call[d], gen[call[d]].sent)
    BY <1>2, <2>1, <2>2 DEF Own
  <2>4. bytes'[buf[d]] = bytes[buf[d]]
    BY <2>1
  <2>. QED  BY <2>2, <2>3, <2>4
<1>3. ASSUME d \notin shared', reply'[d].kind = "audio"
      PROVE  IF reply'[d].failed
             THEN bytes'[buf'[d]].kind \in {"words", "text"} /\ bytes'[buf'[d]].of = call'[d]
             ELSE /\ gen'[call'[d]].at = "done"
                  /\ bytes'[buf'[d]] = Bytes("audio", call'[d], gen'[call'[d]].made)
  <2>1. d \notin shared /\ reply[d].kind = "audio" /\ call[d] \in Calls /\ buf[d] \in Bufs
    BY <1>1, <1>3
  <2>2. bytes'[buf[d]] = bytes[buf[d]]
    BY <1>3, <2>1
  <2>3. gen[call[d]].at = "done" => gen'[call[d]] = gen[call[d]]
    BY <2>1 DEF DoneKept
  <2>. QED  BY <2>1, <2>2, <2>3 DEF Own
<1>. QED  BY <1>2, <1>3 DEF Own

\* Handler c is busy, and leaves the buffers of others alone.
LEMMA OthersKept ==
  ASSUME TypeInv, TextInv, BufInv, DoneKept, NEW c \in Tabs, pc[c] \in Busy,
         \A d \in Tabs \ {c} : /\ pc'[d] = pc[d] /\ mode'[d] = mode[d] /\ call'[d] = call[d]
                               /\ buf'[d] = buf[d] /\ reply'[d] = reply[d],
         shared' = shared,
         \A b \in Bufs \ {buf[c]} : bytes'[b] = bytes[b]
  PROVE  \A d \in Tabs \ {c} : Own(d)'
<1>. SUFFICES ASSUME NEW d \in Tabs \ {c} PROVE Own(d)'
  OBVIOUS
<1>1. c \notin shared /\ buf[c] \in Bufs /\ buf[c] # NoBuf
  BY AIChatAssumption DEF BufInv, Apart, TypeInv, BusyOK, NoBuf, Busy
<1>2. d \notin shared => buf[d] # buf[c]
  BY <1>1 DEF BufInv, Apart
<1>3. d \notin shared' /\ buf[d] \in Bufs => bytes'[buf[d]] = bytes[buf[d]]
  BY <1>2
<1>4. d \in shared' => pc[d] = "write"
  BY DEF BufInv, Apart
<1>. QED  BY <1>3, <1>4, OwnKept DEF BufInv

LEMMA ApartAnswer ==
  ASSUME TypeInv, BufInv, NEW c \in Tabs, pc[c] \in Busy, NEW r, Answer(c, r)
  PROVE  Apart'
<1>1. c \notin shared /\ buf[c] \in Bufs /\ buf[c] # NoBuf
  BY AIChatAssumption DEF BufInv, Apart, TypeInv, BusyOK, NoBuf, Busy
<1>2. \A d \in Tabs \ {c} : pc[d] \in Busy => d \notin shared /\ buf[d] # buf[c]
  BY <1>1 DEF BufInv, Apart, Busy
<1>3. /\ buf' = buf /\ shared' = shared /\ free' = free \union {buf[c]}
      /\ pc' = [pc EXCEPT ![c] = "write"]
  BY DEF Answer
<1>4. \A d \in Tabs : pc'[d] \in Busy => d # c /\ pc[d] \in Busy
  BY <1>3 DEF Busy, TypeInv, ChatType
<1>5. \A d \in Tabs : pc'[d] \in Busy => buf'[d] \notin free'
  BY <1>2, <1>3, <1>4 DEF BufInv, Apart
<1>6. \A d \in shared' : pc'[d] = "write"
  BY <1>3 DEF BufInv, Apart, TypeInv, ChatType
<1>. QED  BY <1>3, <1>5, <1>6 DEF BufInv, Apart

LEMMA ApartWait ==
  ASSUME TypeInv, BufInv, NEW c \in Tabs, pc[c] \in Busy, NEW label, WaitFor(c, label),
         UNCHANGED <<free, shared>>
  PROVE  Apart'
<1>1. c \notin shared
  BY DEF BufInv, Apart, Busy
<1>. QED  BY <1>1 DEF BufInv, Apart, WaitFor, Busy, TypeInv, ChatType

\* The step of a busy handler.
LEMMA BusyStep ==
  ASSUME TypeInv, TextInv, BufInv, DoneKept, NEW c \in Tabs, pc[c] \in Busy,
         \/ \E r : Answer(c, r)
         \/ \E label : WaitFor(c, label) /\ UNCHANGED <<free, shared>>,
         \A b \in Bufs \ {buf[c]} : bytes'[b] = bytes[b],
         Own(c)'
  PROVE  BufInv'
<1>1. Apart'
  BY ApartAnswer, ApartWait
<1>2. \A d \in Tabs \ {c} : /\ pc'[d] = pc[d] /\ mode'[d] = mode[d] /\ call'[d] = call[d]
                            /\ buf'[d] = buf[d] /\ reply'[d] = reply[d]
  BY DEF Answer, WaitFor, TypeInv, ChatType
<1>3. shared' = shared
  BY DEF Answer
<1>4. \A d \in Tabs \ {c} : Own(d)'
  BY <1>2, <1>3, OthersKept
<1>. QED  BY <1>1, <1>4 DEF BufInv

LEMMA CollectOthers ==
  ASSUME TypeInv, NEW c \in Tabs, pc[c] \in Busy, Collect(c) \/ bytes' = bytes
  PROVE  \A b \in Bufs \ {buf[c]} : bytes'[b] = bytes[b]
BY DEF Collect, TypeInv, ChatType

LEMMA BusyHandler ==
  ASSUME TypeInv, TextInv, BufInv, DoneKept, NEW c \in Tabs,
         Heard(c) \/ Generated(c) \/ SaveLastMessage(c) \/ Speak(c) \/ GiveUp(c)
  PROVE  BufInv'
<1>1. /\ pc[c] \in Busy /\ call[c] \in Calls /\ buf[c] \in Bufs /\ reply[c] = NoReply
      /\ c \notin shared
  BY DEF Heard, Generated, SaveLastMessage, Speak, GiveUp, TypeInv, BusyOK, Busy, BufInv, Apart
<1>2. bytes \in [Bufs -> BufferBytes] /\ gen \in [Calls -> Gens]
  BY DEF TypeInv, ChatType, TypeAI
<1>3. CASE Heard(c)
  <2>1. Collect(c) \/ bytes' = bytes
    BY <1>3 DEF Heard
  <2>2. CASE Speaks(c)
    <3>1. WaitFor(c, "text") /\ UNCHANGED <<free, shared>>
      BY <1>3, <2>2 DEF Heard
    <3>2. Own(c)'
      BY <1>1, <3>1, WaitForIs, ReplyKinds DEF Own
    <3>. QED  BY <1>1, <2>1, <3>1, <3>2, CollectOthers, BusyStep
  <2>3. CASE ~ Speaks(c)
    <3>1. Answer(c, [kind |-> "heard", part |-> LastPart(hear[call[c]].out)])
      BY <1>3, <2>3 DEF Heard
    <3>2. Own(c)'
      BY <3>1, AnswerIs DEF Own
    <3>. QED  BY <1>1, <2>1, <3>1, <3>2, CollectOthers, BusyStep
  <2>. QED  BY <2>2, <2>3
<1>4. CASE Generated(c)
  <2>1. /\ WaitFor(c, "save") /\ UNCHANGED <<free, shared>> /\ Collect(c) /\ pc[c] = "text"
        /\ gen' = gen
    BY <1>4 DEF Generated, aivars
  <2>2. reply'[c] = NoReply /\ pc'[c] = "save" /\ call' = call /\ buf' = buf /\ mode' = mode
    BY <1>1, <2>1, WaitForIs
  <2>3. ASSUME Speaks(c), gen[call[c]].sent > 0
        PROVE  bytes'[buf[c]] = Bytes("text", call[c], gen[call[c]].sent)
    <3>1. Collected(c) = Bytes("text", call[c], gen[call[c]].sent)
      BY <2>1, <2>3 DEF Collected
    <3>2. Collected(c) # NoBytes
      BY <3>1 DEF Bytes, NoBytes
    <3>. QED  BY <1>1, <1>2, <2>1, <3>1, <3>2 DEF Collect
  <2>4. Own(c)'
    BY <2>1, <2>2, <2>3, ReplyKinds DEF Own, Speaks
  <2>. QED  BY <1>1, <2>1, <2>4, CollectOthers, BusyStep
<1>5. CASE SaveLastMessage(c)
  <2>. DEFINE text == Text(call[c], gen[call[c]].sent)
  <2>1. bytes' = bytes /\ gen' = gen /\ pc[c] = "save"
    BY <1>5 DEF SaveLastMessage
  <2>2. PICK o \in Outcomes :
       CASE o = "ok" /\ Speaks(c) -> WaitFor(c, "speak") /\ UNCHANGED <<free, shared>>
         [] o = "ok" /\ ~ Speaks(c) -> Answer(c, [kind |-> "text", text |-> text])
         [] o # "ok" -> Answer(c, IF Speaks(c) /\ text # NoText
                                  THEN [kind |-> "audio", failed |-> TRUE]
                                  ELSE ErrorReply)
    BY <1>5 DEF SaveLastMessage
  <2>3. text # NoText => gen[call[c]].sent > 0
    BY <1>1, <1>2 DEF Text, NoText, Gens
  <2>. HIDE DEF text
  <2>4. CASE o = "ok" /\ Speaks(c)
    <3>1. WaitFor(c, "speak") /\ UNCHANGED <<free, shared>>
      BY <2>2, <2>4
    <3>2. Own(c)'
      BY <1>1, <3>1, WaitForIs, ReplyKinds DEF Own
    <3>. QED  BY <1>1, <2>1, <3>1, <3>2, BusyStep
  <2>5. CASE o = "ok" /\ ~ Speaks(c)
    <3>1. Answer(c, [kind |-> "text", text |-> text])
      BY <2>2, <2>5
    <3>2. Own(c)'
      BY <3>1, AnswerIs DEF Own
    <3>. QED  BY <1>1, <2>1, <3>1, <3>2, BusyStep
  <2>6. CASE o # "ok" /\ ~ (Speaks(c) /\ text # NoText)
    <3>1. Answer(c, ErrorReply)
      BY <2>2, <2>6
    <3>2. Own(c)'
      BY <3>1, AnswerIs, ReplyKinds DEF Own
    <3>. QED  BY <1>1, <2>1, <3>1, <3>2, BusyStep
  <2>7. CASE o # "ok" /\ Speaks(c) /\ text # NoText
    <3>1. Answer(c, [kind |-> "audio", failed |-> TRUE])
      BY <2>2, <2>7
    <3>2. bytes[buf[c]] = Bytes("text", call[c], gen[call[c]].sent)
      BY <2>1, <2>3, <2>7 DEF BufInv, Own
    <3>3. bytes[buf[c]].kind = "text" /\ bytes[buf[c]].of = call[c]
      BY <3>2 DEF Bytes
    <3>4. Own(c)'
      BY <2>1, <3>1, <3>3, AnswerIs DEF Own
    <3>. QED  BY <1>1, <2>1, <3>1, <3>4, BusyStep
  <2>. QED  BY <2>4, <2>5, <2>6, <2>7
<1>6. CASE Speak(c)
  <2>1. gen' = gen /\ gen[call[c]].at = "done" /\ gen[call[c]].sent = gen[call[c]].made
    BY <1>1, <1>6 DEF Speak, TextInv, Judged, Complete
  <2>2. CASE /\ bytes' = [bytes EXCEPT ![buf[c]] = Bytes("audio", call[c], gen[call[c]].sent)]
             /\ Answer(c, [kind |-> "audio", failed |-> FALSE])
    <3>1. bytes'[buf[c]] = Bytes("audio", call[c], gen[call[c]].made)
      BY <1>1, <1>2, <2>1, <2>2
    <3>2. Own(c)'
      BY <2>1, <2>2, <3>1, AnswerIs DEF Own
    <3>3. \A b \in Bufs \ {buf[c]} : bytes'[b] = bytes[b]
      BY <1>2, <2>2
    <3>. QED  BY <1>1, <2>2, <3>2, <3>3, BusyStep
  <2>3. CASE Answer(c, ErrorReply) /\ bytes' = bytes
    <3>1. Own(c)'
      BY <2>3, AnswerIs, ReplyKinds DEF Own
    <3>. QED  BY <1>1, <2>3, <3>1, BusyStep
  <2>. QED  BY <1>6, <2>2, <2>3 DEF Speak
<1>7. CASE GiveUp(c)
  <2>1. Collect(c)
    BY <1>7 DEF GiveUp, Fail
  <2>2. CASE Collected(c) = NoBytes
    <3>1. Answer(c, ErrorReply)
      BY <1>7, <2>2 DEF GiveUp, Fail
    <3>2. Own(c)'
      BY <3>1, AnswerIs, ReplyKinds DEF Own
    <3>. QED  BY <1>1, <2>1, <3>1, <3>2, CollectOthers, BusyStep
  <2>3. CASE Collected(c) # NoBytes
    <3>1. Answer(c, [kind |-> "audio", failed |-> TRUE])
      BY <1>7, <2>3 DEF GiveUp, Fail
    <3>2. bytes'[buf[c]] = Collected(c)
      BY <1>1, <1>2, <2>1, <2>3 DEF Collect
    <3>3. bytes'[buf[c]].kind \in {"words", "text"} /\ bytes'[buf[c]].of = call[c]
      BY <1>1, <2>3, <3>2, CollectedType
    <3>4. Own(c)'
      BY <3>1, <3>3, AnswerIs DEF Own
    <3>. QED  BY <1>1, <2>1, <3>1, <3>4, CollectOthers, BusyStep
  <2>. QED  BY <2>2, <2>3
<1>. QED  BY <1>3, <1>4, <1>5, <1>6, <1>7

\* The handler that has replied has no buffer any more; the one that took it
\* from the pool keeps it.
LEMMA WriteReplyBuf ==
  ASSUME TypeInv, TextInv, BufInv, DoneKept, NEW c \in Tabs, WriteReply(c)
  PROVE  BufInv'
<1>1. /\ \A d \in Tabs \ {c} : /\ pc'[d] = pc[d] /\ mode'[d] = mode[d] /\ call'[d] = call[d]
                               /\ buf'[d] = buf[d] /\ reply'[d] = reply[d]
      /\ pc'[c] = "idle" /\ buf'[c] = NoBuf /\ reply'[c] = NoReply
      /\ shared' = shared \ {c} /\ free' = free
  BY DEF WriteReply, Rest, TypeInv, ChatType
<1>2. \A d \in Tabs \ {c} : buf[d] \in Bufs => bytes'[buf[d]] = bytes[buf[d]]
  BY DEF WriteReply, Rest
<1>3. Apart'
  <2>1. ASSUME NEW d \in Tabs, NEW e \in Tabs, d # e, buf'[d] = buf'[e]
        PROVE  buf'[d] = NoBuf \/ d \in shared' \/ e \in shared'
    BY <2>1, <1>1 DEF BufInv, Apart
  <2>2. \A d \in shared' : pc'[d] = "write"
    BY <1>1 DEF BufInv, Apart, TypeInv, ChatType
  <2>3. \A d \in Tabs : pc'[d] \in Busy => buf'[d] \notin free'
    BY <1>1 DEF BufInv, Apart, Busy
  <2>. QED  BY <2>1, <2>2, <2>3 DEF Apart
<1>4. ASSUME NEW d \in Tabs \ {c}  PROVE Own(d)'
  <2>1. d \in shared' => pc[d] = "write"
    BY <1>1 DEF BufInv, Apart
  <2>. QED  BY <1>1, <1>2, <2>1, OwnKept DEF BufInv
<1>5. Own(c)'
  BY <1>1, ReplyKinds DEF Own
<1>. QED  BY <1>3, <1>4, <1>5 DEF BufInv

\* Whoever still refers to the buffer that a handler takes has replied, and is
\* sharing from now on.
LEMMA ReceiveBuf ==
  ASSUME TypeInv, TextInv, BufInv, DoneKept, NEW c \in Tabs, NEW m \in Modes, Receive(c, m)
  PROVE  BufInv'
<1>1. PICK b \in free : /\ free' = free \ {b}
                        /\ buf' = [buf EXCEPT ![c] = b]
                        /\ shared' = shared \union {d \in Tabs : buf[d] = b}
  BY DEF Receive
<1>2. /\ \A d \in Tabs \ {c} : /\ pc'[d] = pc[d] /\ mode'[d] = mode[d] /\ call'[d] = call[d]
                               /\ buf'[d] = buf[d] /\ reply'[d] = reply[d]
      /\ pc'[c] \in {"hear", "text"} /\ buf'[c] = b /\ reply'[c] = NoReply
      /\ bytes' = bytes /\ pc[c] = "idle"
  BY <1>1 DEF Receive, TypeInv, ChatType, BusyOK
<1>3. b \in Bufs /\ b # NoBuf /\ buf[c] = NoBuf
  BY <1>1, <1>2, AIChatAssumption DEF TypeInv, ChatType, BusyOK, NoBuf
<1>4. \A d \in Tabs : buf[d] = b => d # c /\ pc[d] = "write"
  BY <1>1, <1>3 DEF TypeInv, ChatType, BusyOK, BufInv, Apart, Busy
<1>5. \A d \in shared' : d \in Tabs /\ d # c /\ pc[d] = "write"
  BY <1>1, <1>2, <1>4 DEF BufInv, Apart, TypeInv, ChatType
<1>6. Apart'
  <2>1. ASSUME NEW d \in Tabs, NEW e \in Tabs, d # e, buf'[d] = buf'[e]
        PROVE  buf'[d] = NoBuf \/ d \in shared' \/ e \in shared'
    <3>1. CASE d = c
      BY <3>1, <2>1, <1>1, <1>2
    <3>2. CASE e = c
      BY <3>2, <2>1, <1>1, <1>2
    <3>3. CASE d # c /\ e # c
      BY <3>3, <2>1, <1>1, <1>2 DEF BufInv, Apart
    <3>. QED  BY <3>1, <3>2, <3>3
  <2>2. \A d \in shared' : pc'[d] = "write"
    BY <1>2, <1>5
  <2>3. \A d \in Tabs : pc'[d] \in Busy => buf'[d] \notin free'
    BY <1>1, <1>2 DEF BufInv, Apart
  <2>. QED  BY <2>1, <2>2, <2>3 DEF Apart
<1>7. ASSUME NEW d \in Tabs \ {c}  PROVE Own(d)'
  <2>1. (d \in shared' => pc[d] = "write") /\ (d \notin shared' => d \notin shared)
    BY <1>1, <1>5
  <2>. QED  BY <1>2, <2>1, OwnKept DEF BufInv
<1>8. Own(c)'
  BY <1>2, ReplyKinds DEF Own
<1>. QED  BY <1>6, <1>7, <1>8 DEF BufInv

LEMMA CommandsBuf ==
  ASSUME TypeInv, TextInv, BufInv, DoneKept, NEW c \in Tabs,
         Transcript(c) \/ ClearContext(c) \/ ClearAIContext(c)
  PROVE  BufInv'
<1>1. /\ pc[c] \in {"idle", "clear"} /\ buf[c] = NoBuf /\ c \notin shared
      /\ reply[c] = NoReply
  BY DEF Transcript, ClearContext, ClearAIContext, TypeInv, BusyOK, BufInv, Apart
<1>2. /\ \A d \in Tabs \ {c} : pc'[d] = pc[d] /\ reply'[d] = reply[d]
      /\ mode' = mode /\ call' = call /\ buf' = buf /\ free' = free /\ shared' = shared
      /\ bytes' = bytes /\ pc'[c] \in {"write", "clear"}
  BY DEF Transcript, ClearContext, ClearAIContext, TypeInv, ChatType, pool
<1>3. reply'[c].kind # "audio"
  <2>1. \/ reply'[c] \in {NoReply, ErrorReply, ClearedReply}
        \/ reply'[c] = [kind |-> "transcript", text |-> last]
    BY <1>1 DEF Transcript, ClearContext, ClearAIContext, TypeInv, ChatType
  <2>. QED  BY <2>1, ReplyKinds
<1>4. Apart'
  <2>1. \A d \in shared' : pc'[d] = "write"
    <3>1. shared' \subseteq Tabs \ {c} /\ shared' = shared
      BY <1>1, <1>2 DEF TypeInv, ChatType
    <3>. QED  BY <1>2, <3>1 DEF BufInv, Apart
  <2>2. \A d \in Tabs : pc'[d] \in Busy => buf'[d] \notin free'
    BY <1>2 DEF BufInv, Apart, Busy
  <2>. QED  BY <1>2, <2>1, <2>2 DEF BufInv, Apart
<1>5. ASSUME NEW d \in Tabs \ {c}  PROVE Own(d)'
  <2>1. d \in shared' => pc[d] = "write"
    BY <1>2 DEF BufInv, Apart
  <2>. QED  BY <1>2, <2>1, OwnKept DEF BufInv
<1>6. Own(c)'
  BY <1>2, <1>3 DEF Own
<1>. QED  BY <1>4, <1>5, <1>6 DEF BufInv

LEMMA BufNext == TypeInv /\ TextInv /\ BufInv /\ [Next]_vars => BufInv'
<1>. SUFFICES ASSUME TypeInv, TextInv, BufInv, [Next]_vars PROVE BufInv'
  OBVIOUS
<1>1. DoneKept
  BY DoneStays
<1>2. ASSUME NEW c \in Tabs, Handler(c)  PROVE BufInv'
  BY <1>1, <1>2, BusyHandler, WriteReplyBuf DEF Handler
<1>3. ASSUME NEW c \in Tabs, NEW m \in Modes, Receive(c, m)  PROVE BufInv'
  BY <1>1, <1>3, ReceiveBuf
<1>4. ASSUME NEW c \in Tabs, Transcript(c) \/ ClearContext(c) \/ ClearAIContext(c)
      PROVE  BufInv'
  BY <1>1, <1>4, CommandsBuf
<1>5. ASSUME UNCHANGED <<handlers, pool>>  PROVE BufInv'
  <2>1. ASSUME NEW d \in Tabs  PROVE Own(d)'
    <3>1. d \in shared' => pc[d] = "write"
      BY <1>5 DEF BufInv, Apart, pool
    <3>. QED  BY <1>1, <1>5, <3>1, OwnKept DEF BufInv, handlers, pool
  <2>2. Apart'
    BY <1>5 DEF BufInv, Apart, handlers, pool
  <2>. QED  BY <2>1, <2>2 DEF BufInv
<1>6. ASSUME NEW c \in Tabs, NEW m \in Models, ChangeModel(c, m)  PROVE BufInv'
  BY <1>5, <1>6 DEF ChangeModel
<1>7. CASE Streams \/ Service \/ UNCHANGED vars
  BY <1>5, <1>7 DEF Streams, Service, vars
<1>. QED  BY <1>2, <1>3, <1>4, <1>6, <1>7 DEF Next

LEMMA BufInit == Init => BufInv
<1>. SUFFICES ASSUME Init PROVE BufInv
  OBVIOUS
<1>1. Apart
  BY DEF Init, InitChat, Apart, Busy
<1>2. \A c \in Tabs : Own(c)
  BY ReplyKinds DEF Init, InitChat, Own
<1>. QED  BY <1>1, <1>2 DEF BufInv

\* Nobody else is collecting in the buffer of a reply that is not shared.
LEMMA NobodyElse ==
  ASSUME TypeInv, BufInv, NEW c \in Tabs \ shared, reply[c].kind = "audio"
  PROVE  BytesOf(buf[c]) = bytes[buf[c]]
<1>1. pc[c] = "write" /\ buf[c] \in Bufs /\ buf[c] # NoBuf
  BY ReplyKinds, AIChatAssumption DEF TypeInv, BusyOK, NoBuf
<1>2. ASSUME NEW d \in Tabs, buf[d] = buf[c], Collected(d) # NoBytes
      PROVE  FALSE
  <2>1. pc[d] \in {"hear", "text"}
    BY <1>2 DEF Collected
  <2>2. d # c /\ d \notin shared
    BY <1>1, <2>1 DEF BufInv, Apart
  <2>. QED  BY <1>1, <1>2, <2>2 DEF BufInv, Apart
<1>3. {d \in Tabs : buf[d] = buf[c] /\ Collected(d) # NoBytes} = {}
  BY <1>2
<1>. QED  BY <1>3 DEF BytesOf

\* As long as nobody else has taken its buffer, the sound of a reply is the
\* whole answer to its own message, or what was collected of it.
THEOREM SoundIsOwn == Spec => []AudioIsOwn
<1>1. TypeInv /\ BufInv => AudioIsOwn
  BY NobodyElse DEF BufInv, Own, AudioIsOwn
<1>. QED  BY <1>1, TypeInit, TypeNext, TextInit, TextNext, BufInit, BufNext, PTL DEF Spec
-----------------------------------------------------------------------------
(* FlattenSeq is defined by a recursive function; here is what it does.    *)

\* A set of natural numbers has a smallest member.
LEMMA LeastNumber ==
  ASSUME NEW I \in SUBSET Nat, I # {}
  PROVE  \E i \in I : \A j \in I : i <= j
<1>. DEFINE Less == {p \in Nat \X Nat : p[1] < p[2]}
<1>1. IsWellFoundedOn(Less, Nat)
  <2>1. Less = OpToRel(<, Nat)
    BY DEF OpToRel
  <2>. QED  BY <2>1, NatLessThanWellFounded
<1>2. \E i \in I : \A j \in I : ~ (<<j, i>> \in Less)
  <2>. HIDE DEF Less
  <2>. QED  BY <1>1, WFMin
<1>3. ASSUME NEW i \in I, NEW j \in I, <<j, i>> \notin Less  PROVE  i <= j
  <2>1. <<j, i>> \in Nat \X Nat /\ <<j, i>>[1] = j /\ <<j, i>>[2] = i
    OBVIOUS
  <2>2. ~ (j < i)
    BY <1>3, <2>1, Zenon
  <2>. QED  BY <2>2
<1>. HIDE DEF Less
<1>. QED  BY <1>2, <1>3

\* f[i] is what the first i sequences of ss make together, up to k.
Flattens(f, ss, k) ==
  f = [i \in 1 .. k |-> IF i = 1 THEN ss[i] ELSE f[i - 1] \o ss[i]]

LEMMA FlattenOnce ==
  ASSUME NEW ss, NEW k \in Nat, NEW f, NEW g, Flattens(f, ss, k), Flattens(g, ss, k)
  PROVE  f = g
<1>1. /\ f = [i \in 1 .. k |-> IF i = 1 THEN ss[i] ELSE f[i - 1] \o ss[i]]
      /\ g = [i \in 1 .. k |-> IF i = 1 THEN ss[i] ELSE g[i - 1] \o ss[i]]
  BY DEF Flattens
<1>2. DOMAIN f = 1 .. k /\ DOMAIN g = 1 .. k
  BY <1>1
<1>3. \A i \in 1 .. k : /\ f[i] = IF i = 1 THEN ss[i] ELSE f[i - 1] \o ss[i]
                        /\ g[i] = IF i = 1 THEN ss[i] ELSE g[i - 1] \o ss[i]
  BY <1>1
<1>. DEFINE Differ == {i \in 1 .. k : f[i] # g[i]}
<1>4. Differ = {}
  <2>. SUFFICES ASSUME Differ # {}  PROVE FALSE
    OBVIOUS
  <2>1. PICK i \in Differ : \A j \in Differ : i <= j
    <3>1. Differ \in SUBSET Nat
      OBVIOUS
    <3>. HIDE DEF Differ
    <3>. QED  BY <3>1, LeastNumber
  <2>2. i \in 1 .. k /\ f[i] # g[i] /\ i # 1
    BY <1>3
  <2>3. i - 1 \in 1 .. k /\ i - 1 < i
    BY <2>2
  <2>4. f[i - 1] = g[i - 1]
    BY <2>1, <2>3
  <2>. QED  BY <1>3, <2>2, <2>4
<1>5. \A i \in 1 .. k : f[i] = g[i]
  BY <1>4
<1>. QED  BY <1>1, <1>2, <1>5

LEMMA FlattenExists ==
  ASSUME NEW S, NEW ss \in Seq(Seq(S)), NEW k \in 0 .. Len(ss)
  PROVE  \E f \in [1 .. k -> Seq(S)] : Flattens(f, ss, k)
<1>. DEFINE Has(n) == \E f \in [1 .. n -> Seq(S)] : Flattens(f, ss, n)
            Lacking == {n \in 0 .. Len(ss) : ~ Has(n)}
<1>1. Len(ss) \in Nat /\ \A i \in 1 .. Len(ss) : ss[i] \in Seq(S)
  BY LenProperties, ElementOfSeq
<1>2. Lacking = {}
  <2>. SUFFICES ASSUME Lacking # {}  PROVE FALSE
    OBVIOUS
  <2>1. PICK n \in Lacking : \A j \in Lacking : n <= j
    <3>1. Lacking \in SUBSET Nat
      BY <1>1
    <3>. HIDE DEF Lacking
    <3>. QED  BY <3>1, LeastNumber
  <2>2. n \in 0 .. Len(ss) /\ ~ Has(n)
    OBVIOUS
  <2>3. CASE n = 0
    <3>. DEFINE e == [i \in 1 .. n |-> IF i = 1 THEN ss[i] ELSE <<>>]
    <3>1. 1 .. n = {}
      BY <2>3
    <3>2. e \in [1 .. n -> Seq(S)]
      BY <3>1
    <3>3. Flattens(e, ss, n)
      <4>1. \A g : [i \in 1 .. n |-> IF i = 1 THEN ss[i] ELSE g[i - 1] \o ss[i]] = e
        BY <3>1
      <4>. HIDE DEF e
      <4>. QED  BY <4>1, Zenon DEF Flattens
    <3>. HIDE DEF e
    <3>. QED  BY <2>2, <3>2, <3>3
  <2>4. CASE n # 0
    <3>1. n - 1 \in 0 .. Len(ss) /\ n - 1 < n /\ n - 1 \in Nat /\ n \in 1 .. Len(ss) /\ n \in Nat
      BY <1>1, <2>2, <2>4
    <3>2. Has(n - 1)
      <4>1. n - 1 \notin Lacking
        <5>1. Lacking \subseteq Nat
          BY <1>1
        <5>. HIDE DEF Lacking
        <5>. QED  BY <2>1, <3>1, <5>1
      <4>. HIDE DEF Has
      <4>. QED  BY <3>1, <4>1
    <3>. HIDE DEF Lacking
    <3>3. PICK f \in [1 .. n - 1 -> Seq(S)] : Flattens(f, ss, n - 1)
      BY <3>2
    <3>. DEFINE next == IF n = 1 THEN ss[n] ELSE f[n - 1] \o ss[n]
                g == [i \in 1 .. n |-> IF i = n THEN next ELSE f[i]]
    <3>4. next \in Seq(S)
      <4>1. ss[n] \in Seq(S) /\ (n # 1 => f[n - 1] \in Seq(S))
        BY <1>1, <3>1
      <4>. QED  BY <4>1, ConcatProperties
    <3>. HIDE DEF next
    <3>5. \A i \in 1 .. n : i # n => i \in 1 .. n - 1
      BY <3>1
    <3>6. g \in [1 .. n -> Seq(S)]
      BY <3>4, <3>5
    <3>7. \A i \in 1 .. n - 1 : f[i] = IF i = 1 THEN ss[i] ELSE f[i - 1] \o ss[i]
      BY <3>3 DEF Flattens
    <3>8. ASSUME NEW i \in 1 .. n
          PROVE  g[i] = IF i = 1 THEN ss[i] ELSE g[i - 1] \o ss[i]
      <4>1. CASE i = n
        <5>1. n # 1 => n - 1 \in 1 .. n /\ n - 1 # n
          BY <3>1
        <5>. QED  BY <4>1, <5>1 DEF next
      <4>2. CASE i # n
        <5>1. i \in 1 .. n - 1 /\ g[i] = f[i]
          BY <3>5, <4>2
        <5>2. i # 1 => i - 1 \in 1 .. n /\ i - 1 # n
          BY <3>1, <5>1
        <5>3. i # 1 => g[i - 1] = f[i - 1]
          BY <5>2
        <5>. QED  BY <3>7, <5>1, <5>3
      <4>. QED  BY <4>1, <4>2
    <3>9. Flattens(g, ss, n)
      <4>. DEFINE h == [i \in 1 .. n |-> IF i = 1 THEN ss[i] ELSE g[i - 1] \o ss[i]]
      <4>1. DOMAIN g = 1 .. n /\ DOMAIN h = 1 .. n
        OBVIOUS
      <4>2. \A i \in 1 .. n : h[i] = g[i]
        BY <3>8
      <4>3. h = g
        <5>1. g = [i \in 1 .. n |-> g[i]]
          BY <3>6
        <5>2. h = [i \in 1 .. n |-> h[i]]
          OBVIOUS
        <5>. HIDE DEF g, h
        <5>. QED  BY <4>2, <5>1, <5>2
      <4>. QED  BY <4>3 DEF Flattens
    <3>. HIDE DEF g
    <3>. QED  BY <2>2, <3>6, <3>9
  <2>. QED  BY <2>3, <2>4
<1>3. k \notin Lacking
  BY <1>2
<1>. QED  BY <1>3

LEMMA FlattenIs ==
  ASSUME NEW S, NEW ss \in Seq(Seq(S)), ss # <<>>, NEW f, Flattens(f, ss, Len(ss))
  PROVE  FlattenSeq(ss) = f[Len(ss)]
<1>. DEFINE fl == CHOOSE flatten : flatten = [i \in 1 .. Len(ss) |->
                    IF i = 1 THEN ss[i] ELSE flatten[i - 1] \o ss[i]]
<1>1. Len(ss) # 0 /\ Len(ss) \in Nat
  BY EmptySeq, LenProperties
<1>2. Flattens(fl, ss, Len(ss))
  BY Zenon DEF Flattens
<1>3. FlattenSeq(ss) = fl[Len(ss)]
  BY <1>1, Zenon DEF FlattenSeq
<1>. HIDE DEF fl
<1>4. fl = f
  BY <1>1, <1>2, FlattenOnce
<1>. QED  BY <1>3, <1>4

LEMMA FlattenEmpty == FlattenSeq(<<>>) = <<>>
<1>1. Len(<<>>) = 0
  OBVIOUS
<1>. QED  BY <1>1, Zenon DEF FlattenSeq

LEMMA FlattenType ==
  ASSUME NEW S, NEW ss \in Seq(Seq(S))
  PROVE  FlattenSeq(ss) \in Seq(S)
<1>1. CASE ss = <<>>
  <2>1. FlattenSeq(ss) = <<>>
    BY <1>1, FlattenEmpty, Zenon
  <2>. QED  BY <2>1, EmptyType, Zenon
<1>2. CASE ss # <<>>
  <2>1. Len(ss) \in 0 .. Len(ss) /\ Len(ss) \in 1 .. Len(ss)
    BY <1>2, EmptySeq, LenProperties
  <2>2. PICK f \in [1 .. Len(ss) -> Seq(S)] : Flattens(f, ss, Len(ss))
    BY <2>1, FlattenExists
  <2>3. FlattenSeq(ss) = f[Len(ss)]
    BY <1>2, <2>2, FlattenIs
  <2>. QED  BY <2>1, <2>2, <2>3
<1>. QED  BY <1>1, <1>2

LEMMA FlattenAppend ==
  ASSUME NEW S, NEW ss \in Seq(Seq(S)), NEW s \in Seq(S)
  PROVE  FlattenSeq(Append(ss, s)) = FlattenSeq(ss) \o s
<1>. DEFINE all == Append(ss, s)
            n == Len(ss)
<1>1. /\ n \in Nat /\ Len(all) = n + 1 /\ all \in Seq(Seq(S)) /\ all # <<>>
      /\ \A i \in 1 .. n : all[i] = ss[i]
      /\ all[n + 1] = s
  <2>1. n \in Nat /\ all \in Seq(Seq(S)) /\ Len(all) = n + 1
    BY AppendProperties, LenProperties
  <2>2. (\A i \in 1 .. n : all[i] = ss[i]) /\ all[n + 1] = s
    BY AppendProperties, LenProperties
  <2>3. all # <<>>
    BY AppendProperties
  <2>. QED  BY <2>1, <2>2, <2>3
<1>2. PICK g \in [1 .. n + 1 -> Seq(S)] : Flattens(g, all, n + 1)
  <2>1. n + 1 \in 0 .. Len(all)
    BY <1>1
  <2>. HIDE DEF all, n
  <2>. QED  BY <1>1, <2>1, FlattenExists
<1>. HIDE DEF all, n
<1>3. FlattenSeq(all) = g[n + 1]
  BY <1>1, <1>2, FlattenIs
<1>4. \A i \in 1 .. n + 1 : g[i] = IF i = 1 THEN all[i] ELSE g[i - 1] \o all[i]
  BY <1>2 DEF Flattens
<1>5. CASE ss = <<>>
  <2>1. n = 0 /\ g[n + 1] = s
    <3>1. n = 0
      BY <1>5, EmptySeq, LenProperties DEF n
    <3>. QED  BY <1>1, <1>4, <3>1
  <2>2. FlattenSeq(ss) = <<>>
    BY <1>5, FlattenEmpty, Zenon
  <2>3. <<>> \o s = s
    OBVIOUS
  <2>4. FlattenSeq(ss) \o s = s
    BY <2>2, <2>3, Zenon
  <2>. QED  BY <1>3, <2>1, <2>4 DEF all
<1>6. CASE ss # <<>>
  <2>1. n \in 1 .. n + 1 /\ n + 1 \in 1 .. n + 1 /\ n + 1 # 1 /\ n + 1 - 1 = n
    BY <1>1, <1>6, EmptySeq, LenProperties DEF n
  <2>2. g[n + 1] = g[n] \o s
    <3>. DEFINE m == n + 1
    <3>1. m \in 1 .. n + 1 /\ m # 1 /\ m - 1 = n /\ all[m] = s
      BY <1>1, <2>1
    <3>. HIDE DEF m
    <3>2. g[m] = IF m = 1 THEN all[m] ELSE g[m - 1] \o all[m]
      BY <1>4, <3>1
    <3>3. g[m] = g[n] \o s
      BY <3>1, <3>2
    <3>. QED  BY <3>3 DEF m
  <2>. DEFINE f == [i \in 1 .. n |-> g[i]]
  <2>3. Flattens(f, ss, n)
    <3>1. ASSUME NEW i \in 1 .. n
          PROVE  f[i] = IF i = 1 THEN ss[i] ELSE f[i - 1] \o ss[i]
      <4>1. i \in 1 .. n + 1 /\ (i # 1 => i - 1 \in 1 .. n)
        BY <1>1
      <4>2. f[i] = g[i] /\ (i # 1 => f[i - 1] = g[i - 1]) /\ all[i] = ss[i]
        BY <1>1, <4>1
      <4>. HIDE DEF f
      <4>. QED  BY <1>4, <4>1, <4>2
    <3>2. f = [i \in 1 .. n |-> f[i]]
      OBVIOUS
    <3>. HIDE DEF f
    <3>3. f = [i \in 1 .. n |-> IF i = 1 THEN ss[i] ELSE f[i - 1] \o ss[i]]
      BY <3>1, <3>2
    <3>. QED  BY <3>3, Zenon DEF Flattens
  <2>4. f[n] = g[n]
    BY <1>1, <2>1
  <2>. HIDE DEF f
  <2>5. FlattenSeq(ss) = f[n]
    BY <1>6, <2>3, FlattenIs DEF n
  <2>. QED  BY <1>3, <2>2, <2>4, <2>5 DEF all
<1>. QED  BY <1>5, <1>6

-----------------------------------------------------------------------------
(* The memory of the language model.                                       *)

Ended == {"done", "failed"}

\* A call that has ended stays as it ended.
EndedKept == \A t \in Calls : gen[t].at \in Ended => gen'[t].at = gen[t].at

\* Nothing but ended calls is remembered, and a call whose context nobody else
\* has written has read what is still there.
MemoryInv ==
  /\ ContextIsTheTalk
  /\ \A u \in ToSet(conv) \union ToSet(talk) : gen[u].at \in Ended
  /\ \A t \in Calls : \A u \in ToSet(gen[t].base) : gen[u].at \in Ended
  /\ \A t \in Between \ disturbed : gen[t].base = conv

LEMMA OverIs ==
  ASSUME NEW t \in Calls, NEW how
  PROVE  Over(t, how).at = how /\ Over(t, how).base = <<>>
<1>1. NoGen \in Gens /\ NoGen.base = <<>>
  BY EmptyType, AIServiceAssumption DEF NoGen, Gens
<1>. QED  BY <1>1 DEF Over, Gens

LEMMA MemoryTypes ==
  ASSUME TypeAI
  PROVE  /\ ToSet(conv) \subseteq Calls /\ ToSet(talk) \subseteq Calls
         /\ \A t \in Calls : ToSet(gen[t].base) \subseteq Calls
<1>1. \A s \in Seq(Calls) : ToSet(s) \subseteq Calls
  BY DEF ToSet
<1>. QED  BY <1>1 DEF TypeAI, Gens

LEMMA EmptySet == ToSet(<<>>) = {}
BY DEF ToSet

\* The calls other than the ones that read or write the context.
LEMMA MemoryKept ==
  ASSUME TypeAI, MemoryInv, EndedKept, UNCHANGED memory,
         \A u \in Calls :
           /\ gen'[u].base \in {gen[u].base, <<>>, conv}
           /\ gen'[u].at \in {"ask", "stream", "store"} =>
                \/ gen'[u].base = conv
                \/ gen'[u].base = gen[u].base /\ gen[u].at \in {"ask", "stream", "store"}
  PROVE  MemoryInv'
<1>1. conv' = conv /\ talk' = talk /\ disturbed' = disturbed
  BY DEF memory
<1>2. \A u \in ToSet(conv) \union ToSet(talk) : gen[u].at \in Ended /\ gen'[u].at = gen[u].at
  BY MemoryTypes DEF MemoryInv, EndedKept
<1>3. {t \in ToSet(conv) : gen'[t].at = "done"} = {t \in ToSet(conv) : gen[t].at = "done"}
  BY <1>2
<1>4. ContextIsTheTalk'
  BY <1>1, <1>3 DEF MemoryInv, ContextIsTheTalk
<1>5. ASSUME NEW t \in Calls, NEW u \in ToSet(gen'[t].base)
      PROVE  gen'[u].at \in Ended
  <2>1. u \in ToSet(gen[t].base) \/ u \in ToSet(conv)
    BY <1>5, EmptySet
  <2>. QED  BY <1>2, <2>1, MemoryTypes DEF MemoryInv, EndedKept
<1>6. \A t \in Between' \ disturbed : gen'[t].base = conv
  BY DEF Between, MemoryInv
<1>. QED  BY <1>1, <1>2, <1>4, <1>5, <1>6 DEF MemoryInv

LEMMA ForgetKeeps ==
  ASSUME TypeAI, MemoryInv, Forget, gen' = gen
  PROVE  MemoryInv'
<1>1. conv' = <<>> /\ talk' = <<>> /\ disturbed' = disturbed \union Between /\ Between' = Between
  BY DEF Forget, Between
<1>2. ToSet(conv') = {} /\ ToSet(talk') = {}
  BY <1>1, EmptySet
<1>3. ContextIsTheTalk'
  BY <1>1, <1>2 DEF ContextIsTheTalk, IsInjective
<1>. QED  BY <1>1, <1>2, <1>3 DEF MemoryInv

LEMMA AppendSet ==
  ASSUME NEW T, NEW s \in Seq(T), NEW t \in T
  PROVE  ToSet(Append(s, t)) = ToSet(s) \union {t}
<1>1. /\ DOMAIN Append(s, t) = 1 .. Len(s) + 1 /\ DOMAIN s = 1 .. Len(s) /\ Len(s) \in Nat
      /\ \A i \in 1 .. Len(s) : Append(s, t)[i] = s[i]
      /\ Append(s, t)[Len(s) + 1] = t
  BY AppendProperties, LenProperties
<1>. DEFINE a == Append(s, t)
<1>. HIDE DEF a
<1>2. \A x \in ToSet(a) : x \in ToSet(s) \union {t}
  BY <1>1 DEF ToSet, a
<1>3. \A x \in ToSet(s) \union {t} : x \in ToSet(a)
  <2>1. \A i \in DOMAIN s : i \in DOMAIN a /\ a[i] = s[i]
    BY <1>1 DEF a
  <2>2. Len(s) + 1 \in DOMAIN a /\ a[Len(s) + 1] = t
    BY <1>1 DEF a
  <2>. QED  BY <2>1, <2>2 DEF ToSet
<1>. QED  BY <1>2, <1>3 DEF a

LEMMA PrecedesAppend ==
  ASSUME NEW T, NEW s \in Seq(T), NEW x \in T, NEW t, NEW u
  PROVE  /\ Precedes(s, t, u) => Precedes(Append(s, x), t, u)
         /\ t \in ToSet(s) => Precedes(Append(s, x), t, x)
         /\ Precedes(Append(s, x), t, u) => Precedes(s, t, u) \/ (t \in ToSet(s) /\ u = x)
<1>. DEFINE a == Append(s, x)
<1>1. /\ DOMAIN a = 1 .. Len(s) + 1 /\ DOMAIN s = 1 .. Len(s) /\ Len(s) \in Nat
      /\ \A i \in 1 .. Len(s) : a[i] = s[i]
      /\ a[Len(s) + 1] = x
  BY AppendProperties, LenProperties
<1>. HIDE DEF a
<1>2. \A i \in DOMAIN s : i \in DOMAIN a /\ a[i] = s[i] /\ i < Len(s) + 1
  BY <1>1
<1>3. Len(s) + 1 \in DOMAIN a
  BY <1>1
<1>4. Precedes(s, t, u) => Precedes(a, t, u)
  BY <1>2 DEF Precedes
<1>5. t \in ToSet(s) => Precedes(a, t, x)
  BY <1>1, <1>2, <1>3 DEF Precedes, ToSet
<1>6. ASSUME Precedes(a, t, u)  PROVE Precedes(s, t, u) \/ (t \in ToSet(s) /\ u = x)
  <2>1. PICK i \in DOMAIN a, j \in DOMAIN a : i < j /\ a[i] = t /\ a[j] = u
    BY <1>6 DEF Precedes
  <2>2. i \in DOMAIN s
    BY <1>1, <2>1
  <2>3. CASE j \in DOMAIN s
    BY <1>2, <2>1, <2>2, <2>3 DEF Precedes
  <2>4. CASE j \notin DOMAIN s
    BY <1>1, <1>2, <2>1, <2>2, <2>4 DEF ToSet
  <2>. QED  BY <2>3, <2>4
<1>. QED  BY <1>4, <1>5, <1>6 DEF a

LEMMA InjectiveAppend ==
  ASSUME NEW T, NEW s \in Seq(T), NEW x \in T, IsInjective(s), x \notin ToSet(s)
  PROVE  IsInjective(Append(s, x))
<1>. DEFINE a == Append(s, x)
<1>1. /\ DOMAIN a = 1 .. Len(s) + 1 /\ DOMAIN s = 1 .. Len(s) /\ Len(s) \in Nat
      /\ \A i \in 1 .. Len(s) : a[i] = s[i]
      /\ a[Len(s) + 1] = x
  BY AppendProperties, LenProperties
<1>. HIDE DEF a
<1>2. \A i \in DOMAIN s : a[i] = s[i] /\ a[i] # x
  BY <1>1 DEF ToSet
<1>3. \A i \in DOMAIN a : i \in DOMAIN s \/ i = Len(s) + 1
  BY <1>1
<1>4. \A i, j \in DOMAIN s : s[i] = s[j] => i = j
  BY DEF IsInjective
<1>. QED  BY <1>1, <1>2, <1>3, <1>4 DEF IsInjective, a

\* A call that nobody disturbed adds itself to what is remembered.
LEMMA StoreKeeps ==
  ASSUME TypeAI, MemoryInv, NEW t \in Calls, Store(t)
  PROVE  MemoryInv'
<1>1. PICK o \in Outcomes :
       /\ conv' = Effect(o, NewContext(t), conv)
       /\ disturbed' = Effect(o, disturbed \union (Between \ {t}), disturbed)
       /\ talk' = IF ~ gen[t].whole THEN Effect(o, <<>>, talk)
                  ELSE IF o = "ok" THEN Append(talk, t) ELSE talk
       /\ gen' = [gen EXCEPT ![t] = Over(t, IF o = "ok" THEN "done" ELSE "failed")]
  BY DEF Store
<1>. DEFINE how == IF o = "ok" THEN "done" ELSE "failed"
<1>2. /\ gen[t].at = "store" /\ gen'[t].at = how /\ gen'[t].base = <<>>
      /\ \A u \in Calls \ {t} : gen'[u] = gen[u]
      /\ how \in Ended
  BY <1>1, OverIs DEF Store, TypeAI, Ended
<1>3. /\ conv \in Seq(Calls) /\ talk \in Seq(Calls) /\ gen[t].base \in Seq(Calls)
      /\ ToSet(conv) \subseteq Calls /\ ToSet(talk) \subseteq Calls
  BY MemoryTypes DEF TypeAI, Gens
<1>4. /\ t \notin ToSet(conv) /\ t \notin ToSet(talk)
      /\ \A u \in Calls : t \notin ToSet(gen[u].base)
  BY <1>2 DEF MemoryInv, Ended
<1>5. Between' = Between \ {t} /\ t \in Between
  BY <1>2 DEF Between, Ended
<1>. HIDE DEF how
<1>6. \A u \in Calls : gen[u].at \in Ended => gen'[u].at = gen[u].at
  BY <1>2 DEF Ended
<1>7. ASSUME NEW v \in Calls, NEW u \in ToSet(gen'[v].base)  PROVE gen'[u].at \in Ended
  <2>1. v # t
    BY <1>2, <1>7, EmptySet
  <2>. QED  BY <1>2, <1>6, <1>7, <2>1, MemoryTypes DEF MemoryInv
<1>8. CASE o = "lost"
  <2>1. conv' = conv /\ disturbed' = disturbed /\ talk' = talk
    BY <1>1, <1>8 DEF Effect
  <2>2. {u \in ToSet(conv) : gen'[u].at = "done"} = {u \in ToSet(conv) : gen[u].at = "done"}
    BY <1>2, <1>3, <1>4
  <2>3. ContextIsTheTalk'
    BY <2>1, <2>2 DEF MemoryInv, ContextIsTheTalk
  <2>4. \A u \in ToSet(conv') \union ToSet(talk') : gen'[u].at \in Ended
    BY <1>3, <1>6, <2>1 DEF MemoryInv
  <2>5. \A u \in Between' \ disturbed' : gen'[u].base = conv'
    BY <1>2, <1>5, <2>1 DEF MemoryInv, Between
  <2>. QED  BY <1>7, <2>3, <2>4, <2>5 DEF MemoryInv
<1>9. CASE o # "lost"
  <2>1. conv' = NewContext(t) /\ disturbed' = disturbed \union (Between \ {t})
    BY <1>1, <1>9 DEF Effect
  <2>2. Between' \ disturbed' = {}
    BY <1>5, <2>1
  <2>3. CASE ~ gen[t].whole
    <3>1. conv' = <<>> /\ talk' = <<>>
      BY <1>1, <1>9, <2>1, <2>3 DEF NewContext, Effect
    <3>2. ToSet(conv') = {} /\ ToSet(talk') = {}
      BY <3>1, EmptySet
    <3>3. ContextIsTheTalk'
      BY <3>1, <3>2 DEF ContextIsTheTalk, IsInjective
    <3>. QED  BY <1>7, <2>2, <3>2, <3>3 DEF MemoryInv
  <2>4. CASE gen[t].whole
    <3>. DEFINE b == gen[t].base
    <3>1. conv' = Append(b, t) /\ (talk' = talk \/ (o = "ok" /\ talk' = Append(talk, t)))
          /\ (o = "ok" => talk' = Append(talk, t))
      BY <1>1, <2>1, <2>4 DEF NewContext
    <3>2. ToSet(conv') = ToSet(b) \union {t}
      BY <1>3, <3>1, AppendSet
    <3>3. ToSet(talk') = IF o = "ok" THEN ToSet(talk) \union {t} ELSE ToSet(talk)
      <4>1. CASE o = "ok"
        <5>1. talk' = Append(talk, t)
          BY <3>1, <4>1
        <5>2. ToSet(Append(talk, t)) = ToSet(talk) \union {t}
          BY <1>3, AppendSet
        <5>. HIDE DEF b
        <5>. QED  BY <4>1, <5>1, <5>2
      <4>2. CASE o # "ok"
        BY <3>1, <4>2
      <4>. QED  BY <4>1, <4>2
    <3>4. \A u \in ToSet(conv') \union ToSet(talk') : gen'[u].at \in Ended
      <4>1. \A u \in ToSet(b) \union ToSet(talk) : u \in Calls /\ gen[u].at \in Ended
        BY <1>3, MemoryTypes DEF MemoryInv
      <4>2. \A u \in ToSet(b) \union ToSet(talk) : gen'[u].at \in Ended
        BY <1>6, <4>1
      <4>3. gen'[t].at \in Ended
        BY <1>2
      <4>4. ToSet(conv') \union ToSet(talk') \subseteq ToSet(b) \union ToSet(talk) \union {t}
        BY <3>2, <3>3
      <4>. HIDE DEF b
      <4>. QED  BY <4>2, <4>3, <4>4
    <3>5. ContextIsTheTalk'
      <4>. SUFFICES ASSUME (ToSet(conv') \union ToSet(talk')) \intersect disturbed' = {}
                    PROVE  /\ ToSet(talk') = {u \in ToSet(conv') : gen'[u].at = "done"}
                           /\ IsInjective(conv')
                           /\ \A u, v \in ToSet(talk') :
                                Precedes(talk', u, v) => Precedes(conv', u, v)
        BY DEF ContextIsTheTalk
      <4>1. t \notin disturbed /\ b = conv
        BY <1>5, <2>1, <3>2 DEF MemoryInv
      <4>2. (ToSet(conv) \union ToSet(talk)) \intersect disturbed = {}
        BY <2>1, <3>2, <3>3, <4>1
      <4>3. /\ ToSet(talk) = {u \in ToSet(conv) : gen[u].at = "done"}
            /\ IsInjective(conv)
            /\ \A u, v \in ToSet(talk) : Precedes(talk, u, v) => Precedes(conv, u, v)
        BY <4>2 DEF MemoryInv, ContextIsTheTalk
      <4>4. ToSet(talk') = {u \in ToSet(conv') : gen'[u].at = "done"}
        <5>1. \A u \in ToSet(conv) : u # t /\ gen'[u].at = gen[u].at
          BY <1>2, <1>3, <1>4
        <5>2. gen'[t].at = "done" <=> o = "ok"
          BY <1>2 DEF how
        <5>3. ToSet(conv') = ToSet(conv) \union {t}
          BY <3>2, <4>1
        <5>4. {u \in ToSet(conv') : gen'[u].at = "done"}
                = {u \in ToSet(conv) : gen[u].at = "done"} \union
                    {u \in {t} : gen'[u].at = "done"}
          BY <5>1, <5>3
        <5>. QED  BY <3>3, <4>3, <5>2, <5>4
      <4>5. IsInjective(conv')
        BY <1>3, <1>4, <3>1, <4>1, <4>3, InjectiveAppend
      <4>6. ASSUME NEW u \in ToSet(talk'), NEW v \in ToSet(talk'), Precedes(talk', u, v)
            PROVE  Precedes(conv', u, v)
        <5>1. Precedes(talk, u, v) \/ (u \in ToSet(talk) /\ v = t)
          <6>1. CASE talk' = talk
            BY <4>6, <6>1
          <6>2. CASE talk' = Append(talk, t)
            <7>1. Precedes(Append(talk, t), u, v)
              BY <4>6, <6>2
            <7>. QED  BY <1>3, <7>1, PrecedesAppend
          <6>. QED  BY <3>1, <6>1, <6>2
        <5>2. CASE Precedes(talk, u, v)
          <6>1. u \in ToSet(talk) /\ v \in ToSet(talk)
            BY <5>2 DEF Precedes, ToSet
          <6>2. Precedes(conv, u, v)
            BY <4>3, <5>2, <6>1
          <6>3. Precedes(Append(conv, t), u, v)
            BY <1>3, <6>2, PrecedesAppend
          <6>. QED  BY <3>1, <4>1, <6>3
        <5>3. CASE u \in ToSet(talk) /\ v = t
          <6>1. u \in ToSet(conv)
            BY <4>3, <5>3
          <6>2. Precedes(Append(conv, t), u, t)
            BY <1>3, <6>1, PrecedesAppend
          <6>. QED  BY <3>1, <4>1, <5>3, <6>2
        <5>. QED  BY <5>1, <5>2, <5>3
      <4>. QED  BY <4>4, <4>5, <4>6
    <3>. QED  BY <1>7, <2>2, <3>4, <3>5 DEF MemoryInv
  <2>. QED  BY <2>3, <2>4
<1>. QED  BY <1>8, <1>9

\* No step changes how a call has ended: what is remembered keeps its outcome.
LEMMA EndedStays == TypeInv /\ TextInv /\ [Next]_vars => EndedKept
<1>. SUFFICES ASSUME TypeInv, TextInv, [Next]_vars PROVE EndedKept
  OBVIOUS
<1>1. CASE gen' = gen
  BY <1>1 DEF EndedKept
<1>2. ASSUME NEW t \in Calls, gen[t].at = "none", CallGenerate(t)
      PROVE  EndedKept
  BY <1>2 DEF CallGenerate, EndedKept, Ended, TypeInv, TypeAI
<1>3. ASSUME NEW c \in Tabs, Handler(c)  PROVE EndedKept
  <2>1. CASE Heard(c) /\ Speaks(c)
    <3>1. call[c] \in Calls /\ gen[call[c]].at = "none" /\ CallGenerate(call[c])
      BY <2>1 DEF Heard, TypeInv, BusyOK, Busy, TextInv, Numbered
    <3>. QED  BY <1>2, <3>1
  <2>2. CASE ~ (Heard(c) /\ Speaks(c))
    BY <1>1, <1>3, <2>2 DEF Handler, Heard, Generated, SaveLastMessage, Speak, GiveUp,
                            WriteReply, aivars
  <2>. QED  BY <2>1, <2>2
<1>4. ASSUME NEW c \in Tabs, NEW m \in Modes, Receive(c, m)  PROVE EndedKept
  <2>1. calls + 1 \in Calls /\ calls \in Nat
    BY <1>4, AIServiceAssumption DEF Receive, TypeInv, ChatType, Calls
  <2>2. gen[calls + 1].at = "none"
    BY <2>1 DEF TextInv, Numbered
  <2>. QED  BY <1>1, <1>2, <1>4, <2>1, <2>2 DEF Receive
<1>5. ASSUME NEW c \in Tabs,
             \/ Transcript(c) \/ ClearContext(c) \/ ClearAIContext(c)
             \/ \E m \in Models : ChangeModel(c, m)
      PROVE  EndedKept
  BY <1>1, <1>5 DEF Transcript, ClearContext, ClearAIContext, ChangeModel, aivars
<1>6. CASE Streams
  <2>1. ASSUME NEW t \in Calls, GenStep(t)  PROVE EndedKept
    <3>1. gen \in [Calls -> Gens]
      BY DEF TypeInv, TypeAI
    <3>2. gen[t].at \notin Ended /\ \A u \in Calls : u # t => gen'[u] = gen[u]
      BY <2>1, <3>1 DEF GenStep, ReadContext, Ask, Line, LastLine, Store, GenFails, Ended
    <3>. QED  BY <3>2 DEF EndedKept
  <2>2. ASSUME NEW t \in Calls, HearStep(t)  PROVE EndedKept
    BY <1>1, <2>2 DEF HearStep, Decode, ProcessChunk, FinalResult
  <2>. QED  BY <1>6, <2>1, <2>2 DEF Streams
<1>7. CASE Service
  <2>1. CASE ExpireContext
    BY <1>1, <2>1 DEF ExpireContext
  <2>2. CASE Restart
    <3>1. ASSUME NEW t \in Calls, gen[t].at \in Ended  PROVE gen'[t].at = gen[t].at
      <4>1. CASE gen[t].at = "done"
        BY <2>2, <4>1 DEF Restart
      <4>2. CASE gen[t].at = "failed"
        BY <2>2, <4>2, OverIs DEF Restart
      <4>. QED  BY <3>1, <4>1, <4>2 DEF Ended
    <3>. QED  BY <3>1 DEF EndedKept
  <2>. QED  BY <1>7, <2>1, <2>2 DEF Service
<1>8. CASE UNCHANGED vars
  BY <1>1, <1>8 DEF vars, aivars
<1>. QED  BY <1>3, <1>4, <1>5, <1>6, <1>7, <1>8 DEF Next

\* The context that a call has read is the one in Redis, and it keeps it until
\* it stores its own.
ContextRead ==
  \A u \in Calls :
    /\ gen'[u].base \in {gen[u].base, <<>>, conv}
    /\ gen'[u].at \in {"ask", "stream", "store"} =>
         \/ gen'[u].base = conv
         \/ gen'[u].base = gen[u].base /\ gen[u].at \in {"ask", "stream", "store"}

LEMMA FailsRead ==
  ASSUME TypeAI, NEW t \in Calls, GenFails(t)
  PROVE  ContextRead
<1>1. gen'[t].at = "failed" /\ gen'[t].base = <<>> /\ \A u \in Calls \ {t} : gen'[u] = gen[u]
  BY OverIs DEF GenFails, TypeAI
<1>. QED  BY <1>1 DEF ContextRead

LEMMA CallRead ==
  ASSUME TypeAI, NEW t \in Calls, CallGenerate(t)
  PROVE  ContextRead
BY DEF CallGenerate, ContextRead, TypeAI, Gens

LEMMA GenStepRead ==
  ASSUME TypeAI, NEW t \in Calls, GenStep(t), ~ Store(t)
  PROVE  ContextRead /\ UNCHANGED memory
<1>1. gen \in [Calls -> Gens] /\ gen[t] \in Gens
  BY DEF TypeAI
<1>2. CASE ReadContext(t)
  <2>1. CASE GenFails(t)
    BY <1>2, <2>1, FailsRead DEF ReadContext
  <2>2. CASE gen' = [gen EXCEPT ![t].at = "ask", ![t].base = conv]
    BY <1>1, <1>2, <2>2 DEF ReadContext, ContextRead, Gens
  <2>. QED  BY <1>2, <2>1, <2>2 DEF ReadContext
<1>3. CASE Ask(t)
  <2>1. CASE GenFails(t)
    BY <1>3, <2>1, FailsRead DEF Ask
  <2>2. CASE gen' = [gen EXCEPT ![t].at = "stream", ![t].model = model]
    BY <1>1, <1>3, <2>2 DEF Ask, ContextRead, Gens
  <2>. QED  BY <1>3, <2>1, <2>2 DEF Ask
<1>4. CASE Line(t)
  BY <1>1, <1>4 DEF Line, ContextRead, Gens
<1>5. CASE LastLine(t)
  <2>1. CASE GenFails(t)
    BY <1>5, <2>1, FailsRead DEF LastLine
  <2>2. CASE ~ GenFails(t)
    <3>1. PICK w : gen' = [gen EXCEPT ![t].at = "store", ![t].sent = gen[t].made, ![t].whole = w]
      BY <1>5, <2>2 DEF LastLine
    <3>. QED  BY <1>1, <1>5, <3>1 DEF LastLine, ContextRead, Gens
  <2>. QED  BY <2>1, <2>2
<1>. QED  BY <1>2, <1>3, <1>4, <1>5 DEF GenStep

LEMMA MemoryNext == TypeInv /\ TextInv /\ MemoryInv /\ [Next]_vars => MemoryInv'
<1>. SUFFICES ASSUME TypeInv, TextInv, MemoryInv, [Next]_vars PROVE MemoryInv'
  OBVIOUS
<1>1. TypeAI /\ EndedKept
  BY EndedStays DEF TypeInv
<1>2. ASSUME UNCHANGED memory, ContextRead  PROVE MemoryInv'
  BY <1>1, <1>2, MemoryKept DEF ContextRead
<1>3. ASSUME UNCHANGED memory, gen' = gen  PROVE MemoryInv'
  BY <1>2, <1>3 DEF ContextRead
<1>4. ASSUME Forget, gen' = gen  PROVE MemoryInv'
  BY <1>1, <1>4, ForgetKeeps
<1>5. ASSUME NEW c \in Tabs, Handler(c)  PROVE MemoryInv'
  <2>1. CASE Heard(c) /\ Speaks(c)
    <3>1. call[c] \in Calls /\ CallGenerate(call[c]) /\ UNCHANGED memory
      BY <2>1 DEF Heard, TypeInv, BusyOK, Busy
    <3>. QED  BY <1>1, <1>2, <3>1, CallRead
  <2>2. CASE ~ (Heard(c) /\ Speaks(c))
    <3>1. UNCHANGED memory /\ gen' = gen
      BY <1>5, <2>2 DEF Handler, Heard, Generated, SaveLastMessage, Speak, GiveUp,
                        WriteReply, aivars
    <3>. QED  BY <1>3, <3>1
  <2>. QED  BY <2>1, <2>2
<1>6. ASSUME NEW c \in Tabs, NEW m \in Modes, Receive(c, m)  PROVE MemoryInv'
  <2>1. calls + 1 \in Calls /\ UNCHANGED memory
    BY <1>6, AIServiceAssumption DEF Receive, TypeInv, ChatType, Calls
  <2>. QED  BY <1>1, <1>2, <1>3, <1>6, <2>1, CallRead DEF Receive
<1>7. ASSUME NEW c \in Tabs,
             \/ Transcript(c) \/ ClearContext(c) \/ ClearAIContext(c)
             \/ \E m \in Models : ChangeModel(c, m)
      PROVE  MemoryInv'
  BY <1>3, <1>4, <1>7 DEF Transcript, ClearContext, ClearAIContext, DelContext, ChangeModel,
                          aivars
<1>8. CASE Streams
  <2>1. ASSUME NEW t \in Calls, GenStep(t)  PROVE MemoryInv'
    <3>1. CASE Store(t)
      BY <1>1, <3>1, StoreKeeps
    <3>2. CASE ~ Store(t)
      BY <1>1, <1>2, <2>1, <3>2, GenStepRead
    <3>. QED  BY <3>1, <3>2
  <2>2. ASSUME NEW t \in Calls, HearStep(t)  PROVE MemoryInv'
    BY <1>3, <2>2 DEF HearStep, Decode, ProcessChunk, FinalResult
  <2>. QED  BY <1>8, <2>1, <2>2 DEF Streams
<1>9. CASE Service
  <2>1. CASE ExpireContext
    BY <1>4, <2>1 DEF ExpireContext
  <2>2. CASE Restart
    <3>1. ASSUME NEW u \in Calls
          PROVE  gen'[u] = gen[u] \/ (gen'[u].at = "failed" /\ gen'[u].base = <<>>)
      BY <2>2, OverIs DEF Restart
    <3>2. ContextRead
      BY <3>1 DEF ContextRead
    <3>. QED  BY <1>2, <2>2, <3>2 DEF Restart
  <2>. QED  BY <1>9, <2>1, <2>2 DEF Service
<1>10. CASE UNCHANGED vars
  BY <1>3, <1>10 DEF vars, aivars
<1>. QED  BY <1>5, <1>6, <1>7, <1>8, <1>9, <1>10 DEF Next

LEMMA MemoryInit == Init => MemoryInv
<1>. SUFFICES ASSUME Init PROVE MemoryInv
  OBVIOUS
<1>1. conv = <<>> /\ talk = <<>> /\ \A t \in Calls : gen[t] = NoGen
  BY DEF Init, InitAI
<1>2. NoGen \in Gens /\ NoGen.base = <<>> /\ NoGen.at = "none"
  BY EmptyType, AIServiceAssumption DEF NoGen, Gens
<1>3. ToSet(conv) = {} /\ ToSet(talk) = {} /\ \A t \in Calls : ToSet(gen[t].base) = {}
  BY <1>1, <1>2, EmptySet
<1>4. Between = {}
  BY <1>1, <1>2 DEF Between
<1>5. ContextIsTheTalk
  BY <1>1, <1>3 DEF ContextIsTheTalk, IsInjective
<1>. QED  BY <1>3, <1>4, <1>5 DEF MemoryInv

\* As long as no call's context was overwritten by another one, the language
\* model remembers what was talked about, once and in its order.
THEOREM ContextIsRemembered == Spec => []ContextIsTheTalk
<1>1. MemoryInv => ContextIsTheTalk
  BY DEF MemoryInv
<1>. QED  BY <1>1, TypeInit, TypeNext, TextInit, TextNext, MemoryInit, MemoryNext, PTL DEF Spec

-----------------------------------------------------------------------------
(* The recognition of speech.                                              *)

\* The first n chunks of message t.
Message(t, n) == [i \in 1 .. n |-> <<t, i>>]

\* What the calls have sent so far belongs to them and to the calls that they
\* met; one that met no other has sent its message up to what the recogniser
\* still keeps.
OwnHearing(t) ==
  /\ t > calls => hear[t].at = "none"
  /\ hear[t].at \in {"none", "called"} =>
       hear[t].next = 1 /\ hear[t].out = <<>> /\ met[t] = {}
  /\ hear[t].at \in {"accept", "done"} =>
       \A x \in ToSet(FlattenSeq(hear[t].out)) : x[1] \in met[t] \union {t}
  /\ hear[t].at = "done" /\ met[t] = {} =>
       FlattenSeq(hear[t].out) = Message(t, MaxChunks)

Hearing(t) ==
  /\ Recognizing \ {t} \subseteq met[t]
  /\ met[t] = {} => FlattenSeq(hear[t].out) \o rec = Message(t, hear[t].next - 1)

HearInv ==
  /\ \A t \in Calls : OwnHearing(t)
  /\ \A x \in ToSet(rec) : x[1] \in Recognizing
  /\ \A t \in Recognizing : Hearing(t)

LEMMA MessageType ==
  ASSUME NEW t \in Calls, NEW n \in 0 .. MaxChunks
  PROVE  Message(t, n) \in Seq(Chunks) /\ Len(Message(t, n)) = n
<1>. DEFINE m == Message(t, n)
<1>1. n \in Nat /\ 1 .. n \subseteq 1 .. MaxChunks
  BY AIServiceAssumption
<1>2. m \in [1 .. n -> Chunks]
  BY <1>1 DEF Message, Chunks
<1>. HIDE DEF m
<1>3. m \in Seq(Chunks)
  BY <1>1, <1>2, SeqDef
<1>4. Len(m) = n
  BY <1>1, <1>2, <1>3, LenProperties
<1>. QED  BY <1>3, <1>4 DEF m

LEMMA MessageAppend ==
  ASSUME NEW t \in Calls, NEW n \in 1 .. MaxChunks
  PROVE  Append(Message(t, n - 1), <<t, n>>) = Message(t, n)
<1>. DEFINE a == Message(t, n - 1)
            m == Message(t, n)
            x == <<t, n>>
            b == Append(a, x)
<1>1. n - 1 \in 0 .. MaxChunks /\ n \in 0 .. MaxChunks /\ x \in Chunks /\ n \in Nat
  BY AIServiceAssumption DEF Chunks
<1>2. a \in Seq(Chunks) /\ Len(a) = n - 1 /\ m \in Seq(Chunks) /\ Len(m) = n
  <2>. DEFINE k == n - 1
  <2>. HIDE DEF k
  <2>1. Message(t, k) \in Seq(Chunks) /\ Len(Message(t, k)) = k
    BY <1>1, MessageType DEF k
  <2>2. m \in Seq(Chunks) /\ Len(m) = n
    BY <1>1, MessageType
  <2>. QED  BY <2>1, <2>2 DEF k
<1>3. /\ \A i \in 1 .. n - 1 : a[i] = <<t, i>>
      /\ \A i \in 1 .. n : m[i] = <<t, i>>
  BY DEF Message
<1>4. x = <<t, n>>
  OBVIOUS
<1>. HIDE DEF a, m, x
<1>5. /\ b \in Seq(Chunks) /\ Len(b) = Len(a) + 1
      /\ \A i \in 1 .. Len(a) : b[i] = a[i]
      /\ b[Len(a) + 1] = x
  BY <1>1, <1>2, AppendProperties
<1>. HIDE DEF b
<1>6. Len(b) = n /\ Len(a) + 1 = n
  BY <1>1, <1>2, <1>5
<1>7. ASSUME NEW i \in 1 .. n  PROVE b[i] = m[i]
  <2>1. CASE i = n
    BY <1>3, <1>4, <1>5, <1>6, <2>1
  <2>2. CASE i # n
    <3>1. i \in 1 .. n - 1 /\ i \in 1 .. Len(a)
      BY <1>1, <1>2, <2>2
    <3>2. b[i] = a[i] /\ a[i] = <<t, i>> /\ m[i] = <<t, i>>
      BY <1>3, <1>5, <3>1
    <3>. QED  BY <3>2
  <2>. QED  BY <2>1, <2>2
<1>8. b = m
  BY <1>2, <1>5, <1>6, <1>7, SeqEqual
<1>. QED  BY <1>8 DEF a, b, m, x

LEMMA AppendConcat ==
  ASSUME NEW S, NEW s \in Seq(S), NEW r \in Seq(S), NEW x \in S
  PROVE  s \o Append(r, x) = Append(s \o r, x)
<1>1. <<x>> \in Seq(S) /\ s \o r \in Seq(S)
  BY ConcatProperties
<1>2. Append(r, x) = r \o <<x>>
  BY AppendIsConcat
<1>3. Append(s \o r, x) = (s \o r) \o <<x>>
  BY <1>1, AppendIsConcat
<1>4. (s \o r) \o <<x>> = s \o (r \o <<x>>)
  BY <1>1, ConcatAssociative
<1>. QED  BY <1>2, <1>3, <1>4

LEMMA ConcatSet ==
  ASSUME NEW S, NEW s \in Seq(S), NEW r \in Seq(S)
  PROVE  ToSet(s \o r) \subseteq ToSet(s) \union ToSet(r)
<1>. DEFINE c == s \o r
<1>1. /\ c \in Seq(S) /\ Len(c) = Len(s) + Len(r) /\ Len(s) \in Nat /\ Len(r) \in Nat
      /\ \A i \in 1 .. Len(s) + Len(r) : c[i] = IF i <= Len(s) THEN s[i] ELSE r[i - Len(s)]
  BY ConcatProperties, LenProperties
<1>2. DOMAIN c = 1 .. Len(c) /\ DOMAIN s = 1 .. Len(s) /\ DOMAIN r = 1 .. Len(r)
  BY <1>1, LenProperties
<1>. HIDE DEF c
<1>3. ASSUME NEW i \in DOMAIN c  PROVE c[i] \in ToSet(s) \union ToSet(r)
  <2>1. i \in 1 .. Len(s) + Len(r)
    BY <1>1, <1>2
  <2>2. CASE i <= Len(s)
    <3>1. i \in DOMAIN s /\ c[i] = s[i]
      BY <1>1, <1>2, <2>1, <2>2
    <3>. QED  BY <3>1 DEF ToSet
  <2>3. CASE ~ (i <= Len(s))
    <3>1. i - Len(s) \in DOMAIN r /\ c[i] = r[i - Len(s)]
      BY <1>1, <1>2, <2>1, <2>3
    <3>. QED  BY <3>1 DEF ToSet
  <2>. QED  BY <2>2, <2>3
<1>4. ToSet(c) \subseteq ToSet(s) \union ToSet(r)
  BY <1>3 DEF ToSet
<1>. QED  BY <1>4 DEF c

LEMMA HearFacts ==
  ASSUME TypeAI, NEW t \in Calls
  PROVE  /\ hear[t] \in Hears /\ hear[t].next \in 1 .. MaxChunks + 1 /\ hear[t].next \in Nat
         /\ hear[t].out \in Seq(Seq(Chunks)) /\ FlattenSeq(hear[t].out) \in Seq(Chunks)
         /\ rec \in Seq(Chunks) /\ Recognizing \subseteq Calls
<1>1. hear[t] \in Hears /\ rec \in Seq(Chunks) /\ Recognizing \subseteq Calls
  BY DEF TypeAI, Recognizing
<1>2. hear[t].next \in 1 .. MaxChunks + 1 /\ hear[t].out \in Seq(Seq(Chunks))
  BY <1>1 DEF Hears
<1>3. FlattenSeq(hear[t].out) \in Seq(Chunks)
  BY <1>2, FlattenType
<1>. QED  BY <1>1, <1>2, <1>3

\* What a call has sent stays its own as long as it has not moved.
LEMMA OwnHearingKept ==
  ASSUME NEW u \in Calls, OwnHearing(u), hear'[u] = hear[u], met'[u] = met[u],
         calls' >= calls, calls \in Nat, calls' \in Nat
  PROVE  OwnHearing(u)'
<1>1. u > calls' => u > calls
  BY DEF Calls
<1>. QED  BY <1>1 DEF OwnHearing

\* The recogniser and the calls that it serves are left alone.
LEMMA HearKept ==
  ASSUME TypeAI, HearInv, calls \in Nat, calls' \in Nat, calls' >= calls, rec' = rec,
         Recognizing' = Recognizing,
         \A u \in Calls : OwnHearing(u)' \/ (hear'[u] = hear[u] /\ met'[u] = met[u]),
         \A u \in Recognizing : hear'[u] = hear[u] /\ met'[u] = met[u]
  PROVE  HearInv'
<1>1. \A u \in Calls : OwnHearing(u)'
  BY OwnHearingKept DEF HearInv
<1>2. Recognizing \subseteq Calls
  BY DEF Recognizing
<1>3. \A u \in Recognizing : Hearing(u)'
  BY DEF HearInv, Hearing
<1>. QED  BY <1>1, <1>3 DEF HearInv

LEMMA DecodeHear ==
  ASSUME TypeAI, HearInv, calls \in Nat, calls' = calls, NEW t \in Calls, Decode(t)
  PROVE  HearInv'
<1>1. hear \in [Calls -> Hears] /\ met \in [Calls -> SUBSET Calls] /\ hear[t] \in Hears
  BY DEF TypeAI
<1>2. hear[t].at = "called" /\ rec' = rec /\ ~ (t > calls)
      /\ hear[t].next = 1 /\ hear[t].out = <<>> /\ met[t] = {}
  BY DEF Decode, HearInv, OwnHearing
<1>3. CASE hear' = [hear EXCEPT ![t].at = "failed"] /\ met' = met
  <2>1. hear'[t].at = "failed" /\ \A u \in Calls : u # t => hear'[u] = hear[u]
    BY <1>1, <1>3 DEF Hears
  <2>2. Recognizing' = Recognizing /\ t \notin Recognizing
    BY <1>2, <2>1 DEF Recognizing
  <2>3. OwnHearing(t)'
    BY <1>2, <2>1 DEF OwnHearing
  <2>. QED  BY <1>2, <1>3, <2>1, <2>2, <2>3, HearKept DEF Recognizing
<1>4. CASE /\ hear' = [hear EXCEPT ![t].at = "accept"]
           /\ met' = [u \in Calls |->
                     CASE u = t -> met[u] \union Recognizing
                       [] u \in Recognizing -> met[u] \union {t}
                       [] OTHER -> met[u]]
  <2>1. /\ hear'[t].at = "accept" /\ hear'[t].next = 1 /\ hear'[t].out = <<>>
        /\ \A u \in Calls : u # t => hear'[u] = hear[u]
    BY <1>1, <1>2, <1>4 DEF Hears
  <2>2. Recognizing' = Recognizing \union {t} /\ t \notin Recognizing
    BY <1>2, <2>1 DEF Recognizing
  <2>3. /\ met'[t] = Recognizing
        /\ \A u \in Recognizing : met'[u] = met[u] \union {t}
        /\ \A u \in Calls \ Recognizing' : met'[u] = met[u]
    BY <1>2, <1>4, <2>2 DEF Recognizing
  <2>4. FlattenSeq(hear'[t].out) = <<>>
    BY <2>1, FlattenEmpty, Zenon
  <2>5. OwnHearing(t)'
    <3>1. ToSet(FlattenSeq(hear'[t].out)) = {}
      BY <2>4, EmptySet, Zenon
    <3>. HIDE DEF Message
    <3>2. \A x \in ToSet(FlattenSeq(hear'[t].out)) : x[1] \in met'[t] \union {t}
      BY <3>1
    <3>. QED  BY <1>2, <2>1, <3>2 DEF OwnHearing
  <2>6. ASSUME NEW u \in Recognizing  PROVE OwnHearing(u)' /\ Hearing(u)'
    <3>1. u \in Calls /\ u # t /\ hear'[u] = hear[u] /\ met'[u] = met[u] \union {t}
          /\ hear[u].at = "accept"
      BY <2>1, <2>2, <2>3 DEF Recognizing
    <3>2. OwnHearing(u) /\ Hearing(u)
      BY <3>1 DEF HearInv
    <3>3. OwnHearing(u)'
      BY <3>1, <3>2 DEF OwnHearing
    <3>4. Hearing(u)'
      BY <2>2, <3>1, <3>2 DEF Hearing
    <3>. QED  BY <3>3, <3>4
  <2>7. Hearing(t)'
    <3>1. Recognizing' \ {t} \subseteq met'[t]
      BY <2>2, <2>3
    <3>2. ASSUME met'[t] = {}
          PROVE  FlattenSeq(hear'[t].out) \o rec' = Message(t, hear'[t].next - 1)
      <4>1. ToSet(rec) = {}
        BY <2>3, <3>2 DEF HearInv
      <4>2. rec = <<>>
        <5>1. rec \in Seq(Chunks)
          BY DEF TypeAI
        <5>2. ASSUME rec # <<>>  PROVE FALSE
          <6>. DEFINE r == rec
          <6>0. r \in Seq(Chunks) /\ r # <<>>
            BY <5>1, <5>2
          <6>. HIDE DEF r
          <6>1. Len(rec) \in Nat /\ Len(rec) # 0 /\ DOMAIN rec = 1 .. Len(rec)
            <7>1. Len(r) \in Nat /\ Len(r) # 0 /\ DOMAIN r = 1 .. Len(r)
              BY <6>0, EmptySeq, LenProperties
            <7>. QED  BY <7>1 DEF r
          <6>2. 1 \in DOMAIN rec
            BY <6>1
          <6>. QED  BY <4>1, <6>2 DEF ToSet
        <5>. QED  BY <5>2
      <4>3. Message(t, 0) = <<>>
        <5>1. 0 \in 0 .. MaxChunks
          BY AIServiceAssumption
        <5>2. Message(t, 0) \in Seq(Chunks) /\ Len(Message(t, 0)) = 0
          BY <5>1, MessageType
        <5>. QED  BY <5>2, EmptySeq
      <4>4. <<>> \o <<>> = <<>>
        OBVIOUS
      <4>5. FlattenSeq(hear'[t].out) \o rec' = <<>>
        BY <1>2, <2>4, <4>2, <4>4, Zenon
      <4>6. hear'[t].next - 1 = 0
        BY <2>1
      <4>. QED  BY <4>3, <4>5, <4>6, Zenon
    <3>. QED  BY <3>1, <3>2 DEF Hearing
  <2>8. \A u \in Calls : OwnHearing(u)'
    <3>1. ASSUME NEW u \in Calls \ Recognizing'  PROVE OwnHearing(u)'
      <4>1. u # t /\ hear'[u] = hear[u] /\ met'[u] = met[u] /\ OwnHearing(u)
        BY <2>1, <2>2, <2>3, <3>1 DEF HearInv
      <4>. QED  BY <4>1, OwnHearingKept
    <3>. QED  BY <2>2, <2>5, <2>6, <3>1
  <2>9. \A x \in ToSet(rec') : x[1] \in Recognizing'
    BY <1>2, <2>2 DEF HearInv
  <2>. QED  BY <2>2, <2>6, <2>7, <2>8, <2>9 DEF HearInv
<1>. QED  BY <1>3, <1>4 DEF Decode

\* The next chunk of message t: a call that has met no other adds it to its own.
LEMMA NextChunk ==
  ASSUME TypeAI, NEW t \in Recognizing, HearInv, hear[t].next <= MaxChunks, met[t] = {}
  PROVE  FlattenSeq(hear[t].out) \o Append(rec, <<t, hear[t].next>>) = Message(t, hear[t].next)
<1>. DEFINE n == hear[t].next
            s == FlattenSeq(hear[t].out)
            x == <<t, n>>
<1>1. t \in Calls /\ n \in 1 .. MaxChunks /\ s \in Seq(Chunks) /\ rec \in Seq(Chunks)
  <2>1. t \in Calls
    BY DEF Recognizing
  <2>. QED  BY <2>1, HearFacts, AIServiceAssumption
<1>2. x \in Chunks
  BY <1>1 DEF Chunks
<1>3. s \o rec = Message(t, n - 1)
  BY DEF HearInv, Hearing
<1>4. Append(Message(t, n - 1), x) = Message(t, n)
  <2>. HIDE DEF n, s
  <2>. QED  BY <1>1, MessageAppend
<1>. HIDE DEF n, s, x
<1>5. s \o Append(rec, x) = Append(s \o rec, x)
  BY <1>1, <1>2, AppendConcat
<1>6. s \o Append(rec, x) = Message(t, n)
  BY <1>3, <1>4, <1>5, Zenon
<1>. QED  BY <1>6 DEF n, s, x

\* What a call hears belongs to it or to the ones that it met.
LEMMA HeardOfMet ==
  ASSUME HearInv, NEW t \in Recognizing
  PROVE  \A x \in ToSet(rec) : x[1] \in met[t] \union {t}
BY DEF HearInv, Hearing

LEMMA ProcessChunkHear ==
  ASSUME TypeAI, HearInv, calls \in Nat, calls' = calls, NEW t \in Calls, ProcessChunk(t)
  PROVE  HearInv'
<1>. DEFINE n == hear[t].next
            x == <<t, n>>
            heard == Append(rec, x)
<1>1. /\ hear \in [Calls -> Hears] /\ hear[t] \in Hears /\ met' = met
      /\ t \in Recognizing /\ n <= MaxChunks
  BY DEF ProcessChunk, Recognizing, TypeAI
<1>2. n \in 1 .. MaxChunks /\ n \in Nat /\ x \in Chunks /\ rec \in Seq(Chunks)
  BY <1>1, HearFacts, AIServiceAssumption DEF Chunks
<1>3. heard \in Seq(Chunks) /\ ToSet(heard) = ToSet(rec) \union {x}
  <2>. HIDE DEF x
  <2>. QED  BY <1>2, AppendProperties, AppendSet
<1>4. x[1] = t
  OBVIOUS
<1>5. \A y \in ToSet(heard) : y[1] \in Recognizing /\ y[1] \in met[t] \union {t}
  <2>. HIDE DEF x, heard
  <2>. QED  BY <1>1, <1>3, <1>4, HeardOfMet DEF HearInv
<1>6. met[t] = {} => FlattenSeq(hear[t].out) \o heard = Message(t, n)
  BY <1>1, NextChunk
<1>. HIDE DEF x, heard
<1>7. ASSUME /\ hear'[t].at = "accept" /\ hear'[t].next = n + 1
             /\ \A u \in Calls : u # t => hear'[u] = hear[u],
             \A y \in ToSet(rec') : y[1] \in Recognizing,
             \A y \in ToSet(FlattenSeq(hear'[t].out)) : y[1] \in met[t] \union {t},
             met[t] = {} => FlattenSeq(hear'[t].out) \o rec' = Message(t, n)
      PROVE  HearInv'
  <2>1. Recognizing' = Recognizing
    BY <1>1, <1>7 DEF Recognizing
  <2>2. OwnHearing(t)'
    BY <1>1, <1>7 DEF OwnHearing, HearInv, Recognizing
  <2>3. Hearing(t)'
    <3>1. hear'[t].next - 1 = n
      BY <1>2, <1>7
    <3>2. Recognizing \ {t} \subseteq met[t]
      BY <1>1 DEF HearInv, Hearing
    <3>. HIDE DEF n
    <3>. QED  BY <1>1, <1>7, <2>1, <3>1, <3>2 DEF Hearing
  <2>4. ASSUME NEW u \in Calls, u # t  PROVE OwnHearing(u)'
    <3>1. hear'[u] = hear[u] /\ met'[u] = met[u] /\ OwnHearing(u)
      BY <1>1, <1>7, <2>4 DEF HearInv
    <3>. QED  BY <3>1, OwnHearingKept
  <2>5. ASSUME NEW u \in Recognizing, u # t  PROVE Hearing(u)'
    <3>1. Recognizing \ {u} \subseteq met[u] /\ t \in met[u] /\ met'[u] = met[u]
      BY <1>1, <2>5 DEF HearInv, Hearing
    <3>. QED  BY <2>1, <3>1 DEF Hearing
  <2>. QED  BY <1>7, <2>1, <2>2, <2>3, <2>4, <2>5 DEF HearInv
<1>8. CASE rec' = heard /\ hear' = [hear EXCEPT ![t].next = @ + 1]
  <2>1. /\ hear'[t].at = "accept" /\ hear'[t].next = n + 1 /\ hear'[t].out = hear[t].out
        /\ \A u \in Calls : u # t => hear'[u] = hear[u]
    BY <1>1, <1>8 DEF Hears, Recognizing
  <2>2. \A y \in ToSet(FlattenSeq(hear'[t].out)) : y[1] \in met[t] \union {t}
    BY <1>1, <2>1 DEF HearInv, OwnHearing, Recognizing
  <2>3. met[t] = {} => FlattenSeq(hear'[t].out) \o rec' = Message(t, n)
    BY <1>6, <1>8, <2>1
  <2>4. \A y \in ToSet(rec') : y[1] \in Recognizing
    BY <1>5, <1>8
  <2>. QED  BY <1>7, <2>1, <2>2, <2>3, <2>4
<1>9. CASE rec' = <<>> /\ hear' = [hear EXCEPT ![t].next = @ + 1, ![t].out = Append(@, heard)]
  <2>1. /\ hear'[t].at = "accept" /\ hear'[t].next = n + 1
        /\ hear'[t].out = Append(hear[t].out, heard)
        /\ \A u \in Calls : u # t => hear'[u] = hear[u]
    BY <1>1, <1>9 DEF Hears, Recognizing
  <2>2. FlattenSeq(hear'[t].out) = FlattenSeq(hear[t].out) \o heard
    <3>1. FlattenSeq(Append(hear[t].out, heard)) = FlattenSeq(hear[t].out) \o heard
      BY <1>3, HearFacts, FlattenAppend
    <3>. QED  BY <2>1, <3>1, Zenon
  <2>. DEFINE s == FlattenSeq(hear[t].out)
              s2 == FlattenSeq(hear'[t].out)
  <2>3. s \in Seq(Chunks) /\ s \o heard \in Seq(Chunks)
    <3>1. s \in Seq(Chunks)
      BY HearFacts
    <3>. HIDE DEF s
    <3>. QED  BY <1>3, <3>1, ConcatProperties
  <2>4. \A y \in ToSet(s) : y[1] \in met[t] \union {t}
    BY <1>1 DEF HearInv, OwnHearing, Recognizing
  <2>5. s2 = s \o heard
    BY <2>2
  <2>6. met[t] = {} => s \o heard = Message(t, n)
    BY <1>6
  <2>. HIDE DEF s, s2, n
  <2>7. s2 \o rec' = s2
    <3>1. s2 \in Seq(Chunks)
      BY <2>3, <2>5
    <3>. QED  BY <1>9, <3>1, ConcatEmptySeq
  <2>8. \A y \in ToSet(s2) : y[1] \in met[t] \union {t}
    <3>1. s \in Seq(Chunks)
      BY <2>3
    <3>2. ToSet(s2) \subseteq ToSet(s) \union ToSet(heard)
      BY <1>3, <2>5, <3>1, ConcatSet
    <3>. QED  BY <1>5, <2>4, <3>2
  <2>9. met[t] = {} => s2 \o rec' = Message(t, n)
    BY <2>5, <2>6, <2>7, Zenon
  <2>10. \A y \in ToSet(rec') : y[1] \in Recognizing
    BY <1>9, EmptySet
  <2>. QED  BY <1>7, <2>1, <2>8, <2>9, <2>10 DEF s2
<1>. QED  BY <1>8, <1>9 DEF ProcessChunk, heard, x

LEMMA FinalResultHear ==
  ASSUME TypeAI, HearInv, calls \in Nat, calls' = calls, NEW t \in Calls, FinalResult(t)
  PROVE  HearInv'
<1>. DEFINE s == FlattenSeq(hear[t].out)
            s2 == FlattenSeq(hear'[t].out)
<1>1. /\ hear \in [Calls -> Hears] /\ hear[t] \in Hears /\ met' = met /\ rec' = <<>>
      /\ t \in Recognizing /\ hear[t].next > MaxChunks
  BY DEF FinalResult, Recognizing, TypeAI
<1>2. hear[t].next - 1 = MaxChunks
  <2>1. hear[t].next \in 1 .. MaxChunks + 1
    BY HearFacts
  <2>. QED  BY <1>1, <2>1, AIServiceAssumption
<1>3. /\ hear'[t].at = "done"
      /\ hear'[t].out = IF rec = <<>> THEN hear[t].out ELSE Append(hear[t].out, rec)
      /\ \A u \in Calls : u # t => hear'[u] = hear[u]
  BY <1>1 DEF FinalResult, Hears
<1>4. s \in Seq(Chunks) /\ rec \in Seq(Chunks)
  BY HearFacts
<1>5. s2 = s \o rec
  <2>1. CASE rec = <<>>
    <3>1. s2 = s
      BY <1>3, <2>1
    <3>2. s \o <<>> = s
      <4>. HIDE DEF s
      <4>. QED  BY <1>4, ConcatEmptySeq
    <3>. QED  BY <2>1, <3>1, <3>2, Zenon
  <2>2. CASE rec # <<>>
    <3>1. FlattenSeq(Append(hear[t].out, rec)) = s \o rec
      BY <1>4, HearFacts, FlattenAppend
    <3>2. hear'[t].out = Append(hear[t].out, rec)
      BY <1>3, <2>2
    <3>. QED  BY <3>1, <3>2, Zenon
  <2>. QED  BY <2>1, <2>2
<1>6. /\ \A y \in ToSet(s) : y[1] \in met[t] \union {t}
      /\ met[t] = {} => s \o rec = Message(t, MaxChunks)
  BY <1>1, <1>2 DEF HearInv, OwnHearing, Hearing, Recognizing
<1>. HIDE DEF s, s2
<1>7. \A y \in ToSet(s2) : y[1] \in met[t] \union {t}
  <2>1. ToSet(s2) \subseteq ToSet(s) \union ToSet(rec)
    BY <1>4, <1>5, ConcatSet
  <2>. QED  BY <1>1, <1>6, <2>1, HeardOfMet
<1>8. OwnHearing(t)'
  <2>1. ~ (t > calls)
    BY <1>1 DEF HearInv, OwnHearing, Recognizing
  <2>. QED  BY <1>1, <1>3, <1>5, <1>6, <1>7, <2>1 DEF OwnHearing, s2
<1>9. Recognizing' = Recognizing \ {t}
  BY <1>3 DEF Recognizing
<1>10. ASSUME NEW u \in Calls, u # t  PROVE OwnHearing(u)'
  <2>1. hear'[u] = hear[u] /\ met'[u] = met[u] /\ OwnHearing(u)
    BY <1>1, <1>3, <1>10 DEF HearInv
  <2>. QED  BY <2>1, OwnHearingKept
<1>11. ASSUME NEW u \in Recognizing, u # t  PROVE Hearing(u)'
  <2>1. Recognizing \ {u} \subseteq met[u] /\ t \in met[u] /\ met'[u] = met[u]
    BY <1>1, <1>11 DEF HearInv, Hearing
  <2>. QED  BY <1>9, <2>1 DEF Hearing
<1>12. ToSet(rec') = {}
  BY <1>1, EmptySet
<1>. QED  BY <1>8, <1>9, <1>10, <1>11, <1>12 DEF HearInv

LEMMA RestartHear ==
  ASSUME TypeAI, HearInv, calls \in Nat, calls' = calls, Restart
  PROVE  HearInv'
<1>1. rec' = <<>> /\ met' = met
  BY DEF Restart
<1>2. \A u \in Calls :
        IF hear[u].at \in {"none", "done", "taken"} THEN hear'[u] = hear[u]
        ELSE hear'[u].at = "failed"
  BY DEF Restart, TypeAI, Hears
<1>3. Recognizing' = {}
  BY <1>2 DEF Recognizing
<1>4. ASSUME NEW u \in Calls  PROVE OwnHearing(u)'
  <2>1. OwnHearing(u)
    BY DEF HearInv
  <2>2. CASE hear[u].at \in {"none", "done", "taken"}
    BY <1>1, <1>2, <2>1, <2>2, OwnHearingKept
  <2>3. CASE hear[u].at \notin {"none", "done", "taken"}
    <3>1. hear'[u].at = "failed" /\ ~ (u > calls)
      BY <1>2, <2>1, <2>3 DEF OwnHearing
    <3>. QED  BY <3>1 DEF OwnHearing
  <2>. QED  BY <2>2, <2>3
<1>5. ToSet(rec') = {}
  BY <1>1, EmptySet
<1>. QED  BY <1>3, <1>4, <1>5 DEF HearInv

LEMMA TakeResultHear ==
  ASSUME TypeAI, HearInv, calls \in Nat, calls' = calls, rec' = rec,
         NEW t \in Calls, hear[t].at = "done", TakeResult(t)
  PROVE  HearInv'
<1>1. NoHear \in Hears
  BY EmptyType, AIServiceAssumption DEF NoHear, Hears
<1>2. /\ hear'[t].at = "taken" /\ \A u \in Calls : u # t => hear'[u] = hear[u] /\ met'[u] = met[u]
  <2>1. [NoHear EXCEPT !.at = "taken"].at = "taken"
    BY <1>1 DEF Hears
  <2>. QED  BY <2>1 DEF TakeResult, TypeAI
<1>3. Recognizing' = Recognizing /\ t \notin Recognizing /\ Recognizing \subseteq Calls
  BY <1>2 DEF Recognizing
<1>4. OwnHearing(t)'
  <2>1. ~ (t > calls)
    BY DEF HearInv, OwnHearing
  <2>. QED  BY <1>2, <2>1 DEF OwnHearing
<1>. QED  BY <1>2, <1>3, <1>4, HearKept

LEMMA ReceiveHear ==
  ASSUME TypeInv, HearInv, NEW c \in Tabs, NEW m \in Modes, Receive(c, m)
  PROVE  HearInv'
<1>0. calls + 1 \in Calls /\ calls \in Nat /\ calls' = calls + 1
  BY AIServiceAssumption DEF Receive, TypeInv, ChatType, Calls
<1>. PICK t \in Calls : t = calls + 1
  BY <1>0
<1>1. calls' = t /\ calls' >= calls /\ calls' \in Nat /\ calls \in Nat /\ t > calls
  BY <1>0
<1>2. TypeAI /\ rec' = rec /\ met' = met
  BY DEF Receive, TypeInv
<1>3. CASE hear' = hear
  BY <1>1, <1>2, <1>3, HearKept DEF Recognizing
<1>4. CASE CallRecognize(t)
  <2>1. hear[t].at = "none"
    BY <1>1 DEF HearInv, OwnHearing
  <2>2. hear[t].next = 1 /\ hear[t].out = <<>> /\ met[t] = {}
    BY <1>1, <2>1 DEF HearInv, OwnHearing
  <2>3. /\ hear'[t].at = "called" /\ hear'[t].next = 1 /\ hear'[t].out = <<>>
        /\ \A u \in Calls : u # t => hear'[u] = hear[u]
    BY <1>1, <1>2, <1>4, <2>2 DEF CallRecognize, TypeAI, Hears
  <2>4. Recognizing' = Recognizing /\ t \notin Recognizing /\ Recognizing \subseteq Calls
    BY <2>1, <2>3 DEF Recognizing
  <2>5. OwnHearing(t)'
    <3>1. ~ (t > calls')
      BY <1>0, <1>1
    <3>. QED  BY <1>2, <2>2, <2>3, <3>1 DEF OwnHearing
  <2>. QED  BY <1>1, <1>2, <2>3, <2>4, <2>5, HearKept
<1>. QED  BY <1>1, <1>3, <1>4 DEF Receive

LEMMA HearNext == TypeInv /\ HearInv /\ [Next]_vars => HearInv'
<1>. SUFFICES ASSUME TypeInv, HearInv, [Next]_vars PROVE HearInv'
  OBVIOUS
<1>1. TypeAI /\ calls \in Nat
  BY AIServiceAssumption DEF TypeInv, ChatType
<1>2. ASSUME UNCHANGED speech, calls' = calls  PROVE HearInv'
  BY <1>1, <1>2, HearKept DEF speech, Recognizing
<1>3. ASSUME NEW c \in Tabs, Handler(c)  PROVE HearInv'
  <2>1. CASE Heard(c)
    <3>1. call[c] \in Calls /\ hear[call[c]].at = "done" /\ TakeResult(call[c])
          /\ rec' = rec /\ calls' = calls
      BY <2>1 DEF Heard, TypeInv, BusyOK, Busy
    <3>. QED  BY <1>1, <3>1, TakeResultHear
  <2>2. CASE ~ Heard(c)
    BY <1>2, <1>3, <2>2 DEF Handler, Generated, SaveLastMessage, Speak, GiveUp, WriteReply, aivars
  <2>. QED  BY <2>1, <2>2
<1>4. ASSUME NEW c \in Tabs, NEW m \in Modes, Receive(c, m)  PROVE HearInv'
  BY <1>4, ReceiveHear
<1>5. ASSUME NEW c \in Tabs,
             \/ Transcript(c) \/ ClearContext(c) \/ ClearAIContext(c)
             \/ \E m \in Models : ChangeModel(c, m)
      PROVE  HearInv'
  BY <1>2, <1>5 DEF Transcript, ClearContext, ClearAIContext, ChangeModel, aivars
<1>6. CASE Streams
  <2>1. ASSUME NEW t \in Calls, GenStep(t)  PROVE HearInv'
    <3>1. UNCHANGED speech /\ calls' = calls
      BY <1>6, <2>1 DEF Streams, GenStep, ReadContext, Ask, Line, LastLine, Store
    <3>. QED  BY <1>2, <3>1
  <2>2. ASSUME NEW t \in Calls, HearStep(t)  PROVE HearInv'
    <3>1. calls' = calls
      BY <1>6 DEF Streams
    <3>. QED  BY <1>1, <2>2, <3>1, DecodeHear, ProcessChunkHear, FinalResultHear DEF HearStep
  <2>. QED  BY <1>6, <2>1, <2>2 DEF Streams
<1>7. CASE Service
  <2>1. CASE ExpireContext
    BY <1>2, <1>7, <2>1 DEF Service, ExpireContext
  <2>2. CASE Restart
    BY <1>1, <1>7, <2>2, RestartHear DEF Service
  <2>. QED  BY <1>7, <2>1, <2>2 DEF Service
<1>8. CASE UNCHANGED vars
  BY <1>2, <1>8 DEF vars, aivars
<1>. QED  BY <1>3, <1>4, <1>5, <1>6, <1>7, <1>8 DEF Next

LEMMA HearInit == Init => HearInv
<1>. SUFFICES ASSUME Init PROVE HearInv
  OBVIOUS
<1>1. rec = <<>> /\ \A t \in Calls : hear[t] = NoHear /\ met[t] = {}
  BY DEF Init, InitAI
<1>2. NoHear.at = "none" /\ NoHear.next = 1 /\ NoHear.out = <<>>
  BY DEF NoHear
<1>3. ToSet(rec) = {} /\ Recognizing = {}
  BY <1>1, <1>2, EmptySet DEF Recognizing
<1>4. \A t \in Calls : OwnHearing(t)
  BY <1>1, <1>2 DEF OwnHearing
<1>. QED  BY <1>3, <1>4 DEF HearInv

\* A finished recognition has heard its message and nothing else, or at most
\* what it and the calls that it met were given.
THEOREM HearsItsOwn == Spec => []HeardIsOwn
<1>1. HearInv => HeardIsOwn
  BY DEF HearInv, OwnHearing, HeardIsOwn, Message
<1>. QED  BY <1>1, TypeInit, TypeNext, HearInit, HearNext, PTL DEF Spec
=============================================================================
