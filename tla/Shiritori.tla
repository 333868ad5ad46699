----------------------------- MODULE Shiritori -----------------------------
(***************************************************************************)
(* The word game.  The user's word has to be in the words table, to begin  *)
(* with the letter the bot's last word ends with, and to be new; the bot   *)
(* answers with the next row of the table, by serial, for the letter the   *)
(* user's word ends with.  All the gateway knows of a game is the session  *)
(* in the user context, which a handler reads first and writes back whole. *)
(* Leaving the game by another command keeps the session, and coming back  *)
(* goes on with it unless another mode's session took its place.           *)
(***************************************************************************)
EXTENDS UserContext, Sequences, FiniteSets, FiniteSetsExt

CONSTANTS Conns,     \* WebSocket connections
          Spelling,  \* the words, and the letters each is made of
          Texts,     \* the words the user may write
          Initial,   \* the words of the table at first, by serial
          Additions, \* the words an administrator may add
          MaxWords,  \* bound: words counted in a session before the next one
          MaxRows,   \* bound: serials
          MaxFaults  \* bound: failing calls and crashes

Words == DOMAIN Spelling
Commands == {"shiritori", "stop", "/start", "other"}

ASSUME ShiritoriAssumption ==
  /\ IsFiniteSet(Conns)
  /\ \A w \in Words : /\ Len(Spelling[w]) \in Nat \ {0}
                     /\ DOMAIN Spelling[w] = 1 .. Len(Spelling[w])
  /\ Words \intersect Commands = {}
  /\ Texts \subseteq Words /\ Additions \subseteq Words
  /\ Initial \in Seq(Words) /\ Len(Initial) <= MaxRows
  /\ MaxWords \in Nat /\ MaxRows \in Nat /\ MaxFaults \in Nat

VARIABLES ctx,     \* the user context in Redis
          rows,    \* the words table, by serial; deleted rows stay, marked
          pc, msg, uctx,  \* the handlers: where, the text, the context read
          faults   \* history: failing calls and crashes

handlers == <<pc, msg, uctx>>
vars == <<ctx, rows, handlers, faults>>

\* GetLastLetter: the last letter that is none of e, j, q and s.
Mute == {"e", "j", "q", "s"}
Sounding(w) == {i \in DOMAIN Spelling[w] : Spelling[w][i] \notin Mute}

\* A variant of GetLastLetter that skips no letter.
GetLastLetterAny(w) == Spelling[w][Len(Spelling[w])]

GetLastLetter(w) ==
  IF Sounding(w) = {} THEN Empty ELSE Spelling[w][Max(Sounding(w))]

FirstLetter(w) == Spelling[w][1]

Letters == {GetLastLetter(w) : w \in Words} \ {Empty}

\* A ShiritoriSession.  turns is history: the accepted words and the rows the
\* bot answered them with, in order.
NewGame ==
  [kind |-> "shiritori", used |-> {}, last |-> Empty,
   offsets |-> [l \in Letters |-> 0],
   all |-> 0, user |-> 0, correct |-> 0, turns |-> <<>>]

AsGame(data) == IF data.kind = "shiritori" THEN data ELSE NewGame

Init ==
  /\ ctx = NoCtx
  /\ rows = [i \in DOMAIN Initial |-> [word |-> Initial[i], live |-> TRUE]]
  /\ pc = [c \in Conns |-> "idle"]
  /\ msg = [c \in Conns |-> Empty]
  /\ uctx = [c \in Conns |-> NoCtx]
  /\ faults = 0

-----------------------------------------------------------------------------
\* A call is carried out and answered, fails before it had an effect, or has
\* its effect while the caller sees an error.
Outcomes == {"ok", "lost", "unseen"}

Counted(o) ==
  /\ o # "ok" => faults < MaxFaults
  /\ faults' = IF o = "ok" THEN faults ELSE faults + 1

Effect(o, new, old) == IF o = "lost" THEN old ELSE new

Write(o, new) == Counted(o) /\ ctx' = Effect(o, new, ctx)

Finish(c) ==
  /\ pc' = [pc EXCEPT ![c] = "idle"]
  /\ msg' = [msg EXCEPT ![c] = Empty]
  /\ uctx' = [uctx EXCEPT ![c] = NoCtx]

-----------------------------------------------------------------------------
\* GetWordsWithTarget: the serials of the user's word come first, then those
\* beyond the offset for the letter; in each group by serial.
Own(w) == {i \in DOMAIN rows : rows[i].live /\ rows[i].word = w}

\* A variant of NextRows that includes the row of the last answer.
NextFromOffset(letter, offset) ==
  {i \in DOMAIN rows :
     rows[i].live /\ FirstLetter(rows[i].word) = letter /\ i >= offset}

NextRows(letter, offset) ==
  {i \in DOMAIN rows :
     rows[i].live /\ FirstLetter(rows[i].word) = letter /\ i > offset}

Found(w) == Own(w) # {}

\* The bot's row: the gateway drops the first row, which is the user's word.
Rest(w, letter, offset) ==
  IF Cardinality(Own(w)) > 1
  THEN Own(w) \ {Min(Own(w))}
  ELSE NextRows(letter, offset) \ Own(w)

-----------------------------------------------------------------------------
Receive(c, m) ==
  /\ pc[c] = "idle"
  /\ m \in Words => AsGame(ctx.data).all < MaxWords
  /\ pc' = [pc EXCEPT ![c] = "read"]
  /\ msg' = [msg EXCEPT ![c] = m]
  /\ UNCHANGED <<ctx, rows, uctx, faults>>

Route(m, state) ==
  CASE m = "shiritori"                                             -> "begin"
    [] m = "/start" \/ (m = "stop" /\ state = "Shiritori")         -> "stop"
    [] m \in Words /\ state = "Shiritori"                          -> "play"
    [] OTHER                                                       -> "other"

GetUserCtx(c) ==
  /\ pc[c] = "read"
  /\ \/ /\ uctx' = [uctx EXCEPT ![c] = ctx]
        /\ pc' = [pc EXCEPT ![c] = Route(msg[c], ctx.state)]
        /\ UNCHANGED <<msg, faults>>
     \/ Counted("lost") /\ Finish(c)
  /\ UNCHANGED <<ctx, rows>>

\* "shiritori": only the state is set, the session stays.
Begin(c) ==
  /\ pc[c] = "begin"
  /\ \E o \in Outcomes : Write(o, UpdUserStateCtx(ctx, "Shiritori"))
  /\ Finish(c)
  /\ UNCHANGED rows

\* "stop" (and "/start"): state and session are cleared.
Stop(c) ==
  /\ pc[c] = "stop"
  /\ \E o \in Outcomes : Write(o, SetUserCtx("None", NoData))
  /\ Finish(c)
  /\ UNCHANGED rows

\* Any other message: another mode is entered or left, or its session saved.
Other(c) ==
  /\ pc[c] = "other"
  /\ \/ \E o \in Outcomes : Write(o, UpdUserStateCtx(ctx, "None"))
     \/ \E o \in Outcomes :
          Write(o, UpdateUserDataCtx(ctx, TaskSession(Empty, 0, Empty)))
  /\ Finish(c)
  /\ UNCHANGED rows

\* A word: the counters first.
Attempt(c) ==
  [AsGame(uctx[c].data) EXCEPT !.all = @ + 1, !.user = @ + 1]

Letter(c) == GetLastLetter(msg[c])
Answers(c) == Rest(msg[c], Letter(c), Attempt(c).offsets[Letter(c)])

\* GetLastLetter finds no letter, the call to learn-service fails, or the
\* bot's word has no last letter: nothing is saved.
Reject(c) ==
  /\ pc[c] = "play"
  /\ \/ Letter(c) = Empty /\ UNCHANGED faults
     \/ Letter(c) # Empty /\ Counted("lost")
     \/ /\ Letter(c) # Empty /\ Found(msg[c]) /\ Answers(c) # {}
        /\ GetLastLetter(rows[Min(Answers(c))].word) = Empty
        /\ UNCHANGED faults
  /\ Finish(c)
  /\ UNCHANGED <<ctx, rows>>

\* A variant of Miss that counts no attempt of the user.
MissUncounted(c) ==
  /\ pc[c] = "play"
  /\ Letter(c) # Empty
  /\ ~ Found(msg[c]) \/ Answers(c) = {}
  /\ \E o \in Outcomes :
       Write(o, UpdateUserDataCtx(ctx, [Attempt(c) EXCEPT !.user = @ - 1]))
  /\ Finish(c)
  /\ UNCHANGED rows

\* The word is not in the table, or the bot has no answer: only the counters
\* are saved (saveState).
Miss(c) ==
  /\ pc[c] = "play"
  /\ Letter(c) # Empty
  /\ ~ Found(msg[c]) \/ Answers(c) = {}
  /\ \E o \in Outcomes : Write(o, UpdateUserDataCtx(ctx, Attempt(c)))
  /\ Finish(c)
  /\ UNCHANGED rows

\* UpdateUserShiritoriCtx: its two rules, and the session after a good word.
NotMatch(c) == Attempt(c).last \notin {Empty, FirstLetter(msg[c])}
Repeat(c) == msg[c] \in Attempt(c).used

\* A variant of Accepted that does not mark the bot's word as used.
AcceptedBotUnmarked(c, serial) ==
  LET bot == rows[serial].word
  IN [Attempt(c) EXCEPT
        !.all = @ + 1, !.correct = @ + 1,
        !.last = GetLastLetter(bot),
        !.used = @ \union {msg[c]},
        !.offsets = [@ EXCEPT ![Letter(c)] = serial],
        !.turns = Append(@, [user |-> msg[c], bot |-> bot, serial |-> serial])]

\* A variant of Accepted that keeps the letter of the user's word.
AcceptedUserLetter(c, serial) ==
  LET bot == rows[serial].word
  IN [Attempt(c) EXCEPT
        !.all = @ + 1, !.correct = @ + 1,
        !.last = Letter(c),
        !.used = @ \union {msg[c], bot},
        !.offsets = [@ EXCEPT ![Letter(c)] = serial],
        !.turns = Append(@, [user |-> msg[c], bot |-> bot, serial |-> serial])]

Accepted(c, serial) ==
  LET bot == rows[serial].word
  IN [Attempt(c) EXCEPT
        !.all = @ + 1, !.correct = @ + 1,
        !.last = GetLastLetter(bot),
        !.used = @ \union {msg[c], bot},
        !.offsets = [@ EXCEPT ![Letter(c)] = serial],
        !.turns = Append(@, [user |-> msg[c], bot |-> bot, serial |-> serial])]

\* A word that breaks a rule changes nothing, a good one ends with state and
\* session set.
PlayWord(c) ==
  /\ pc[c] = "play"
  /\ Letter(c) # Empty /\ Found(msg[c]) /\ Answers(c) # {}
  /\ LET serial == Min(Answers(c))
     IN /\ GetLastLetter(rows[serial].word) # Empty
        /\ IF NotMatch(c) \/ Repeat(c)
           THEN UNCHANGED <<ctx, faults>>
           ELSE \E o \in Outcomes :
                  Write(o, SetUserCtx("Shiritori", Accepted(c, serial)))
  /\ Finish(c)
  /\ UNCHANGED rows

-----------------------------------------------------------------------------
\* learn-service, the words.

NewWords(w) ==
  /\ Len(rows) < MaxRows
  /\ rows' = Append(rows, [word |-> w, live |-> TRUE])
  /\ UNCHANGED <<ctx, handlers, faults>>

DelWord(i) ==
  /\ rows' = [rows EXCEPT ![i].live = FALSE]
  /\ UNCHANGED <<ctx, handlers, faults>>

Expire ==
  /\ ctx' = NoCtx
  /\ UNCHANGED <<rows, handlers, faults>>

Crash ==
  /\ \E c \in Conns : pc[c] # "idle"
  /\ Counted("lost")
  /\ pc' = [c \in Conns |-> "idle"]
  /\ msg' = [c \in Conns |-> Empty]
  /\ uctx' = [c \in Conns |-> NoCtx]
  /\ UNCHANGED <<ctx, rows>>

Next ==
  \/ \E c \in Conns :
       \/ \E m \in Commands \union Texts : Receive(c, m)
       \/ GetUserCtx(c) \/ Begin(c) \/ Stop(c) \/ Other(c)
       \/ Reject(c) \/ Miss(c) \/ PlayWord(c)
  \/ \E w \in Additions : NewWords(w)
  \/ \E i \in DOMAIN rows : DelWord(i)
  \/ Expire
  \/ Crash

Spec == Init /\ [][Next]_vars

-----------------------------------------------------------------------------
IsGame(data) ==
  /\ DOMAIN data = DOMAIN NewGame
  /\ data.used \subseteq Words
  /\ data.last \in (Letters \ Mute) \union {Empty}
  /\ data.offsets \in [Letters -> 0 .. MaxRows]
  /\ data.all \in Nat /\ data.user \in Nat /\ data.correct \in Nat
  /\ \A i \in DOMAIN data.turns :
       data.turns[i] \in [user : Texts, bot : Words, serial : 1 .. MaxRows]

IsContext(x) ==
  /\ x.state \in UserStates
  /\ x.data.kind = "shiritori" => IsGame(x.data)

\* Every variable has its type; in particular a game waits for a letter that
\* sounds, or for any.
TypeOK ==
  /\ IsContext(ctx)
  /\ \A c \in Conns : IsContext(uctx[c])
  /\ rows \in Seq([word : Words, live : BOOLEAN]) /\ Len(rows) <= MaxRows
  /\ pc \in [Conns -> {"idle", "read", "begin", "stop", "other", "play"}]
  /\ msg \in [Conns -> Commands \union Texts \union {Empty}]
  /\ faults \in Nat

Game == AsGame(ctx.data)

\* No accepted word was said before in the game, by the user or by the bot,
\* through misses, failing calls, other modes in between and restarts.
UserWordsAreNew ==
  \A j \in DOMAIN Game.turns : \A i \in 1 .. j - 1 :
    Game.turns[j].user \notin {Game.turns[i].user, Game.turns[i].bot}

\* The words form a chain: the user goes on with the letter the bot's word
\* ends with, and the bot with the one the user's word ends with, unless the
\* table has the user's word twice and the bot takes the second row.
WordsFormAChain ==
  \A j \in DOMAIN Game.turns :
    LET t == Game.turns[j]
    IN /\ j > 1 => FirstLetter(t.user) = GetLastLetter(Game.turns[j - 1].bot)
       /\ t.bot = t.user \/ FirstLetter(t.bot) = GetLastLetter(t.user)

\* The bot answers with no row twice, whatever is added and deleted while the
\* game goes on, as long as it did not have to take a second row of the
\* user's word, which may throw the offset of a letter back.
BotRowsAreNew ==
  (\E i, j \in DOMAIN Game.turns : i # j /\ Game.turns[i].serial = Game.turns[j].serial)
    => \E i \in DOMAIN Game.turns : Game.turns[i].bot = Game.turns[i].user

\* The match statistics add up: of all words those that are not the user's
\* attempts are the bot's answers, one for each accepted word, and no more
\* words were accepted than attempted.
StatisticsAddUp ==
  /\ Game.correct = Len(Game.turns)
  /\ Game.all = Game.user + Game.correct
  /\ Game.correct <= Game.user

\* No word is said twice in a game, by whomever.
WordsAreUnique ==
  \A i, j \in DOMAIN Game.turns :
    /\ Game.turns[i].bot # Game.turns[j].user
    /\ i # j => /\ Game.turns[i].user # Game.turns[j].user
                /\ Game.turns[i].bot # Game.turns[j].bot
=============================================================================
