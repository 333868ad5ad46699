-------------------------- MODULE Shiritori_proofs --------------------------
(***************************************************************************)
(* The word game, for any words, any number of connections and failures:   *)
(* types, statistics, the chain of letters, and which words and rows are   *)
(* new.  The sessions that handlers have read and may write back satisfy   *)
(* what the session in the user context does.                              *)
(***************************************************************************)
EXTENDS Shiritori, FiniteSetTheorems, WellFoundedInduction, TLAPS

-----------------------------------------------------------------------------
(* Sets of numbers and sequences.                                          *)

LEMMA MinIsMin ==
  ASSUME NEW S \in SUBSET Nat, S # {}
  PROVE  Min(S) \in S /\ \A x \in S : Min(S) <= x
<1> DEFINE Less == {p \in Nat \X Nat : p[1] < p[2]}
<1>1. IsWellFoundedOn(Less, Nat)
  <2>1. Less = OpToRel(<, Nat)
    BY DEF OpToRel
  <2>. QED  BY <2>1, NatLessThanWellFounded
<1>2. \E m \in S : \A x \in S : ~ (<<x, m>> \in Less)
  <2>. HIDE DEF Less
  <2>. QED  BY <1>1, WFMin
<1>3. \E m \in S : \A x \in S : m <= x
  <2>1. ASSUME NEW m \in S, NEW x \in S, <<x, m>> \notin Less  PROVE  m <= x
    <3>1. <<x, m>> \in Nat \X Nat /\ <<x, m>>[1] = x /\ <<x, m>>[2] = m
      OBVIOUS
    <3>2. ~ (x < m)
      BY <3>1, <2>1, Zenon
    <3>. QED  BY <3>2
  <2>. HIDE DEF Less
  <2>. QED  BY <1>2, <2>1
<1>. QED  BY <1>3 DEF Min

LEMMA MaxIsMember ==
  ASSUME NEW n \in Nat, NEW S \in SUBSET (1 .. n), S # {}
  PROVE  Max(S) \in S
<1> DEFINE Gaps == {n - x : x \in S}
<1>1. Gaps \in SUBSET Nat /\ Gaps # {}
  <2>1. \A x \in S : n - x \in Nat
    OBVIOUS
  <2>. QED  BY <2>1
<1>2. \E g \in Gaps : \A h \in Gaps : g <= h
  <2>. HIDE DEF Gaps
  <2>. QED  BY <1>1, MinIsMin
<1>3. PICK m \in S : \A h \in Gaps : n - m <= h
  BY <1>2
<1>4. ASSUME NEW x \in S  PROVE  m >= x
  <2>1. n - x \in Gaps
    OBVIOUS
  <2>2. n - m <= n - x
    BY <2>1, <1>3
  <2>. QED  BY <2>2
<1>. QED  BY <1>4 DEF Max

LEMMA AppendFacts ==
  ASSUME NEW T, NEW s \in Seq(T), NEW t \in T
  PROVE  /\ Append(s, t) \in Seq(T)
         /\ Len(s) \in Nat /\ DOMAIN s = 1 .. Len(s)
         /\ Len(Append(s, t)) = Len(s) + 1
         /\ DOMAIN Append(s, t) = 1 .. Len(s) + 1
         /\ \A i \in 1 .. Len(s) : Append(s, t)[i] = s[i]
         /\ Append(s, t)[Len(s) + 1] = t
OBVIOUS

LEMMA ElementType ==
  ASSUME NEW T, NEW seq \in Seq(T)
  PROVE  DOMAIN seq = 1 .. Len(seq) /\ Len(seq) \in Nat
         /\ \A i \in DOMAIN seq : seq[i] \in T
OBVIOUS

\* The last letter sounds.
LEMMA LastLetterSounds ==
  ASSUME NEW w \in Words, GetLastLetter(w) # Empty
  PROVE  GetLastLetter(w) \in Letters \ Mute
<1>1. PICK n \in Nat \ {0} : DOMAIN Spelling[w] = 1 .. n
  BY ShiritoriAssumption
<1>2. Sounding(w) # {}
  BY DEF GetLastLetter
<1>3. Sounding(w) \in SUBSET (1 .. n)
  BY <1>1 DEF Sounding
<1>4. Max(Sounding(w)) \in Sounding(w)
  BY <1>2, <1>3, MaxIsMember
<1>5. GetLastLetter(w) \notin Mute
  BY <1>2, <1>4 DEF Sounding, GetLastLetter
<1>. QED  BY <1>5 DEF Letters

-----------------------------------------------------------------------------
(* Sessions.                                                               *)

Turns == [user : Texts, bot : Words, serial : 1 .. MaxRows]

Games == [kind : {"shiritori"}, used : SUBSET Words,
          last : (Letters \ Mute) \union {Empty},
          offsets : [Letters -> 0 .. MaxRows],
          all : Nat, user : Nat, correct : Nat, turns : Seq(Turns)]

Contexts ==
  [state : UserStates, data : Games \union {NoData, TaskSession(Empty, 0, Empty)}]

Sums(g) ==
  /\ g.correct = Len(g.turns)
  /\ g.all = g.user + g.correct
  /\ g.correct <= g.user

\* The words said are marked, and so a new word is none of them.
Marked(g) ==
  /\ \A i \in DOMAIN g.turns : g.turns[i].user \in g.used /\ g.turns[i].bot \in g.used
  /\ \A j \in DOMAIN g.turns : \A i \in 1 .. j - 1 :
       g.turns[j].user \notin {g.turns[i].user, g.turns[i].bot}

\* The session has the last letter of the chain.
Chained(g) ==
  /\ Len(g.turns) > 0 =>
       g.last = GetLastLetter(g.turns[Len(g.turns)].bot) /\ g.last # Empty
  /\ \A j \in DOMAIN g.turns :
       /\ j > 1 => FirstLetter(g.turns[j].user) = GetLastLetter(g.turns[j - 1].bot)
       /\ \/ g.turns[j].bot = g.turns[j].user
          \/ FirstLetter(g.turns[j].bot) = GetLastLetter(g.turns[j].user)

\* A turn is a row of the table, and unless the bot once said the user's word
\* again, none beyond the offset of its letter and each in one turn only.
Offsets(g) ==
  /\ \A i \in DOMAIN g.turns :
       /\ GetLastLetter(g.turns[i].user) \in Letters
       /\ \/ \E j \in DOMAIN g.turns : g.turns[j].bot = g.turns[j].user
          \/ g.turns[i].serial <= g.offsets[GetLastLetter(g.turns[i].user)]
  /\ \A i, j \in DOMAIN g.turns :
       \/ i = j
       \/ g.turns[i].serial # g.turns[j].serial
       \/ \E k \in DOMAIN g.turns : g.turns[k].bot = g.turns[k].user

OfTable(g, table) ==
  \A i \in DOMAIN g.turns : /\ g.turns[i].serial \in DOMAIN table
                            /\ table[g.turns[i].serial].word = g.turns[i].bot

GoodGame(g, table) ==
  g \in Games /\ Sums(g) /\ Marked(g) /\ Chained(g) /\ Offsets(g) /\ OfTable(g, table)

GoodContext(x, table) ==
  x \in Contexts /\ (x.data.kind = "shiritori" => GoodGame(x.data, table))

LEMMA NewGameIsGood ==
  ASSUME NEW table
  PROVE  GoodGame(NewGame, table)
<1>1. NewGame \in Games
  BY ShiritoriAssumption DEF NewGame, Games
<1>2. NewGame.turns = <<>> /\ NewGame.all = 0 /\ NewGame.user = 0 /\ NewGame.correct = 0
  BY DEF NewGame
<1>3. Len(<<>>) = 0 /\ DOMAIN <<>> = {}
  OBVIOUS
<1>. QED  BY <1>1, <1>2, <1>3 DEF GoodGame, Sums, Marked, Chained, Offsets, OfTable

LEMMA KindIsGame ==
  ASSUME NEW x \in Contexts
  PROVE  /\ x.data.kind = "shiritori" => x.data \in Games
         /\ x.state \in UserStates
BY DEF Contexts, NoData, TaskSession

LEMMA AsGameIsGood ==
  ASSUME NEW table, NEW x, GoodContext(x, table)
  PROVE  GoodGame(AsGame(x.data), table)
BY NewGameIsGood DEF GoodContext, AsGame

LEMMA NoCtxIsGood ==
  ASSUME NEW table
  PROVE  GoodContext(NoCtx, table)
BY DEF GoodContext, NoCtx, NoData, Contexts, UserStates

\* An attempt is counted on both sides.
LEMMA AttemptIsGood ==
  ASSUME NEW table, NEW g, GoodGame(g, table),
         NEW h, h = [g EXCEPT !.all = @ + 1, !.user = @ + 1]
  PROVE  GoodGame(h, table) /\ h.correct < h.user
<1>1. g \in Games /\ Sums(g)
  BY DEF GoodGame
<1>2. /\ h.used = g.used /\ h.last = g.last /\ h.offsets = g.offsets
      /\ h.turns = g.turns /\ h.correct = g.correct
      /\ h.all = g.all + 1 /\ h.user = g.user + 1
  BY <1>1 DEF Games
<1>3. h \in Games
  <2>1. h = [kind |-> g.kind, used |-> g.used, last |-> g.last, offsets |-> g.offsets,
             all |-> g.all + 1, user |-> g.user + 1, correct |-> g.correct,
             turns |-> g.turns]
    BY <1>1 DEF Games
  <2>2. g.all + 1 \in Nat /\ g.user + 1 \in Nat
    BY <1>1 DEF Games
  <2>. QED  BY <1>1, <2>1, <2>2 DEF Games
<1>4. g.correct \in Nat /\ g.user \in Nat /\ g.all \in Nat
  BY <1>1 DEF Games
<1>5. Sums(h) /\ h.correct < h.user
  BY <1>1, <1>2, <1>4 DEF Sums
<1>6. Marked(h)
  BY <1>2 DEF GoodGame, Marked
<1>7. Chained(h)
  BY <1>2 DEF GoodGame, Chained
<1>8. Offsets(h)
  BY <1>2 DEF GoodGame, Offsets
<1>9. OfTable(h, table)
  BY <1>2 DEF GoodGame, OfTable
<1>. QED  BY <1>3, <1>5, <1>6, <1>7, <1>8, <1>9 DEF GoodGame

\* A turn that respects the rules: the user's word is new and begins with the
\* last letter, and the bot's row is the second one of this word or the first
\* one beyond the offset.
LEMMA AcceptedIsGood ==
  ASSUME NEW table, NEW g, GoodGame(g, table), g.correct < g.user,
         NEW t \in Turns, NEW bot, bot = t.bot,
         t.serial \in DOMAIN table, table[t.serial].word = bot,
         t.user \notin g.used, g.last \in {Empty, FirstLetter(t.user)},
         GetLastLetter(t.user) \in Letters,
         GetLastLetter(bot) # Empty,
         \/ bot = t.user
         \/ /\ FirstLetter(bot) = GetLastLetter(t.user)
            /\ t.serial > g.offsets[GetLastLetter(t.user)],
         NEW h,
         h = [g EXCEPT !.all = @ + 1, !.correct = @ + 1, !.last = GetLastLetter(bot),
                       !.used = @ \union {t.user, bot},
                       !.offsets = [@ EXCEPT ![GetLastLetter(t.user)] = t.serial],
                       !.turns = Append(@, t)]
  PROVE  GoodGame(h, table)
<1>. DEFINE letter == GetLastLetter(t.user)
            n == Len(g.turns)
<1>1. g \in Games /\ Sums(g) /\ Marked(g) /\ Chained(g) /\ Offsets(g) /\ OfTable(g, table)
  BY DEF GoodGame
<1>2. /\ h.used = g.used \union {t.user, bot} /\ h.last = GetLastLetter(bot)
      /\ h.offsets = [g.offsets EXCEPT ![letter] = t.serial]
      /\ h.turns = Append(g.turns, t) /\ h.correct = g.correct + 1
      /\ h.all = g.all + 1 /\ h.user = g.user /\ h.kind = g.kind
  BY <1>1 DEF Games
<1>3. g.turns \in Seq(Turns) /\ g.offsets \in [Letters -> 0 .. MaxRows]
  BY <1>1 DEF Games
<1>4. /\ h.turns \in Seq(Turns) /\ n \in Nat /\ DOMAIN g.turns = 1 .. n
      /\ Len(h.turns) = n + 1 /\ DOMAIN h.turns = 1 .. n + 1
      /\ \A i \in 1 .. n : h.turns[i] = g.turns[i]
      /\ h.turns[n + 1] = t
  BY <1>2, <1>3, AppendFacts
<1>5. t.user \in Words /\ t.user \in Texts /\ bot \in Words /\ t.serial \in 1 .. MaxRows
  BY ShiritoriAssumption DEF Turns
<1>6. /\ g.all \in Nat /\ g.user \in Nat /\ g.correct \in Nat
  BY <1>1 DEF Games
<1>7. h \in Games
  <2>1. GetLastLetter(bot) \in Letters \ Mute
    BY <1>5, LastLetterSounds
  <2>2. h.turns \in Seq(Turns) /\ h.used \in SUBSET Words
    BY <1>1, <1>2, <1>4, <1>5 DEF Games
  <2>3. h.offsets \in [Letters -> 0 .. MaxRows]
    BY <1>2, <1>3, <1>5, ShiritoriAssumption
  <2>4. h.all \in Nat /\ h.user \in Nat /\ h.correct \in Nat
    BY <1>2, <1>6
  <2>5. h = [kind |-> h.kind, used |-> h.used, last |-> h.last, offsets |-> h.offsets,
             all |-> h.all, user |-> h.user, correct |-> h.correct, turns |-> h.turns]
    BY <1>1 DEF Games
  <2>. QED  BY <1>1, <1>2, <2>1, <2>2, <2>3, <2>4, <2>5 DEF Games
<1>. HIDE DEF n
<1>8. Sums(h)
  BY <1>1, <1>2, <1>4, <1>6 DEF Sums, n
<1>9. Marked(h)
  <2>1. \A i \in 1 .. n : g.turns[i].user \in g.used /\ g.turns[i].bot \in g.used
    BY <1>1, <1>4 DEF Marked
  <2>2. \A i \in 1 .. n + 1 : h.turns[i].user \in h.used /\ h.turns[i].bot \in h.used
    BY <2>1, <1>2, <1>4
  <2>3. ASSUME NEW j \in 1 .. n + 1, NEW i \in 1 .. j - 1
        PROVE  h.turns[j].user \notin {h.turns[i].user, h.turns[i].bot}
    <3>1. i \in 1 .. n
      BY <1>4
    <3>2. CASE j = n + 1
      BY <3>1, <3>2, <2>1, <1>4
    <3>3. CASE j \in 1 .. n
      BY <3>1, <3>3, <1>1, <1>4 DEF Marked
    <3>. QED  BY <3>2, <3>3, <1>4
  <2>. QED  BY <2>2, <2>3, <1>4 DEF Marked
<1>10. Chained(h)
  <2>1. h.last = GetLastLetter(h.turns[Len(h.turns)].bot) /\ h.last # Empty
    BY <1>2, <1>4
  <2>2. ASSUME NEW j \in 1 .. n + 1
        PROVE  /\ j > 1 => FirstLetter(h.turns[j].user) = GetLastLetter(h.turns[j - 1].bot)
               /\ \/ h.turns[j].bot = h.turns[j].user
                  \/ FirstLetter(h.turns[j].bot) = GetLastLetter(h.turns[j].user)
    <3>1. CASE j = n + 1
      <4>1. h.turns[j] = t
        BY <3>1, <1>4
      <4>2. ASSUME j > 1  PROVE  FirstLetter(t.user) = GetLastLetter(h.turns[j - 1].bot)
        <5>1. n > 0 /\ j - 1 = n /\ h.turns[j - 1] = g.turns[n]
          BY <4>2, <3>1, <1>4
        <5>2. g.last = GetLastLetter(g.turns[n].bot) /\ g.last # Empty
          BY <5>1, <1>1 DEF Chained, n
        <5>. QED  BY <5>1, <5>2
      <4>3. t.bot = t.user \/ FirstLetter(t.bot) = GetLastLetter(t.user)
        OBVIOUS
      <4>. QED  BY <4>1, <4>2, <4>3
    <3>2. CASE j \in 1 .. n
      <4>1. h.turns[j] = g.turns[j] /\ (j > 1 => h.turns[j - 1] = g.turns[j - 1])
        BY <3>2, <1>4
      <4>. QED  BY <4>1, <3>2, <1>1, <1>4 DEF Chained
    <3>. QED  BY <3>1, <3>2, <1>4
  <2>. QED  BY <2>1, <2>2, <1>4 DEF Chained
<1>11. Offsets(h)
  <2>1. \A i \in 1 .. n + 1 : GetLastLetter(h.turns[i].user) \in Letters
    BY <1>1, <1>4 DEF Offsets
  <2>2. CASE \E k \in 1 .. n + 1 : h.turns[k].bot = h.turns[k].user
    BY <2>1, <2>2, <1>4 DEF Offsets
  <2>3. CASE \A k \in 1 .. n + 1 : h.turns[k].bot # h.turns[k].user
    <3>1. \A k \in 1 .. n : g.turns[k].bot # g.turns[k].user
      BY <2>3, <1>4
    <3>2. t.bot # t.user
      BY <2>3, <1>4
    <3>3. FirstLetter(bot) = letter /\ t.serial > g.offsets[letter]
      BY <3>2
    <3>4. ASSUME NEW i \in 1 .. n
          PROVE  /\ g.turns[i].serial <= g.offsets[GetLastLetter(g.turns[i].user)]
                 /\ g.turns[i].serial \in Nat
                 /\ g.turns[i].serial # t.serial
                 /\ g.turns[i].serial <= h.offsets[GetLastLetter(g.turns[i].user)]
      <4>1. GetLastLetter(g.turns[i].user) \in Letters
        BY <1>1, <1>4 DEF Offsets
      <4>2. g.turns[i].serial <= g.offsets[GetLastLetter(g.turns[i].user)]
        BY <3>1, <1>1, <1>4 DEF Offsets
      <4>3. g.turns[i] \in Turns
        BY <1>3, <1>4, ElementType, Zenon
      <4>4. g.turns[i].serial \in Nat /\ t.serial \in Nat /\ g.offsets[letter] \in Nat
        <5>1. g.turns[i].serial \in 1 .. MaxRows
          BY <4>3 DEF Turns
        <5>2. g.offsets[letter] \in 0 .. MaxRows
          BY <1>3
        <5>. QED  BY <5>1, <5>2, <1>5, ShiritoriAssumption
      <4>5. CASE GetLastLetter(g.turns[i].user) = letter
        <5>1. g.turns[i].serial <= g.offsets[letter]
          BY <4>2, <4>5, Zenon
        <5>2. h.offsets[letter] = t.serial
          BY <1>2, <1>3
        <5>3. g.turns[i].serial <= h.offsets[letter] /\ g.turns[i].serial # t.serial
          BY <3>3, <4>4, <5>1, <5>2
        <5>. QED  BY <4>2, <4>4, <4>5, <5>3, Zenon
      <4>6. CASE GetLastLetter(g.turns[i].user) # letter
        <5>1. g.turns[i].bot # bot
          BY <3>1, <3>3, <4>6, <1>1, <1>4 DEF Chained
        <5>2. table[g.turns[i].serial].word = g.turns[i].bot
          BY <1>1, <1>4 DEF OfTable
        <5>3. g.turns[i].serial # t.serial
          BY <5>1, <5>2, Zenon
        <5>4. h.offsets[GetLastLetter(g.turns[i].user)] = g.offsets[GetLastLetter(g.turns[i].user)]
          BY <1>2, <1>3, <4>1, <4>6
        <5>5. g.turns[i].serial <= h.offsets[GetLastLetter(g.turns[i].user)]
          BY <4>2, <5>4, Zenon
        <5>. QED  BY <4>2, <4>4, <5>3, <5>5
      <4>. QED  BY <4>5, <4>6
    <3>5. \A i \in 1 .. n + 1 : h.turns[i].serial <= h.offsets[GetLastLetter(h.turns[i].user)]
      <4>1. h.offsets[letter] = t.serial /\ t.serial <= t.serial
        BY <1>2, <1>3, <1>5
      <4>. QED  BY <3>4, <4>1, <1>4
    <3>6. \A i, j \in 1 .. n : i # j => g.turns[i].serial # g.turns[j].serial
      BY <3>1, <1>1, <1>4 DEF Offsets
    <3>7. ASSUME NEW i \in 1 .. n + 1, NEW j \in 1 .. n + 1, i # j
          PROVE  h.turns[i].serial # h.turns[j].serial
      <4>1. CASE i \in 1 .. n /\ j \in 1 .. n
        BY <4>1, <3>6, <3>7, <1>4
      <4>2. CASE i = n + 1 /\ j \in 1 .. n
        BY <4>2, <3>4, <1>4
      <4>3. CASE j = n + 1 /\ i \in 1 .. n
        BY <4>3, <3>4, <1>4
      <4>. QED  BY <4>1, <4>2, <4>3, <3>7, <1>4
    <3>. QED  BY <2>1, <3>5, <3>7, <1>4 DEF Offsets
  <2>. QED  BY <2>2, <2>3
<1>12. OfTable(h, table)
  BY <1>1, <1>4 DEF OfTable
<1>. QED  BY <1>7, <1>8, <1>9, <1>10, <1>11, <1>12 DEF GoodGame

-----------------------------------------------------------------------------
(* The steps of the gateway and of the words table.                        *)

HandlersOK ==
  /\ pc \in [Conns -> {"idle", "read", "begin", "stop", "other", "play"}]
  /\ msg \in [Conns -> Commands \union Texts \union {Empty}]
  /\ uctx \in [Conns -> Contexts]
  /\ \A c \in Conns : pc[c] = "read" => msg[c] \in Commands \union Texts
  /\ \A c \in Conns : pc[c] = "play" => msg[c] \in Texts

RowsOK ==
  rows \in Seq([word : Words, live : BOOLEAN]) /\ Len(rows) <= MaxRows

GameInv ==
  /\ GoodContext(ctx, rows)
  /\ \A c \in Conns : GoodContext(uctx[c], rows)
  /\ HandlersOK /\ RowsOK /\ faults \in Nat

LEMMA WriteIsGood ==
  ASSUME GameInv, NEW o, NEW x, GoodContext(x, rows), Write(o, x), rows' = rows
  PROVE  GoodContext(ctx', rows') /\ faults' \in Nat
<1>1. ctx' = x \/ ctx' = ctx
  BY DEF Write, Effect
<1>2. GoodContext(ctx', rows')
  BY <1>1, Zenon DEF GameInv
<1>3. faults' \in Nat
  BY DEF GameInv, Write, Counted
<1>. QED  BY <1>2, <1>3

LEMMA CountedType ==
  ASSUME GameInv, NEW o, Counted(o)
  PROVE  faults' \in Nat
BY DEF GameInv, Counted

\* A handler that is done.
LEMMA FinishIsGood ==
  ASSUME GameInv, NEW c \in Conns, Finish(c), rows' = rows,
         GoodContext(ctx', rows'), faults' \in Nat
  PROVE  GameInv'
<1>1. HandlersOK'
  BY NoCtxIsGood DEF GameInv, HandlersOK, Finish, GoodContext
<1>2. \A d \in Conns : uctx'[d] = uctx[d] \/ uctx'[d] = NoCtx
  BY DEF GameInv, HandlersOK, Finish
<1>3. ASSUME NEW d \in Conns  PROVE  GoodContext(uctx'[d], rows')
  <2>1. GoodContext(uctx[d], rows) /\ GoodContext(NoCtx, rows)
    BY NoCtxIsGood DEF GameInv
  <2>. QED  BY <1>2, <2>1, Zenon
<1>4. RowsOK'
  BY DEF GameInv, RowsOK
<1>. QED  BY <1>1, <1>3, <1>4 DEF GameInv

LEMMA StateIsGood ==
  ASSUME NEW x, NEW table, GoodContext(x, table), NEW s \in UserStates
  PROVE  GoodContext(UpdUserStateCtx(x, s), table)
<1>1. x \in Contexts
  BY DEF GoodContext
<1>2. /\ UpdUserStateCtx(x, s) \in Contexts
      /\ UpdUserStateCtx(x, s).data = x.data
  BY <1>1 DEF UpdUserStateCtx, Contexts
<1>. QED  BY <1>2 DEF GoodContext

LEMMA DataIsGood ==
  ASSUME NEW x, NEW table, GoodContext(x, table), NEW g, GoodGame(g, table)
  PROVE  GoodContext(UpdateUserDataCtx(x, g), table)
<1>1. x \in Contexts /\ g \in Games
  BY DEF GoodContext, GoodGame
<1>2. /\ UpdateUserDataCtx(x, g) \in Contexts
      /\ UpdateUserDataCtx(x, g).data = g
  BY <1>1 DEF UpdateUserDataCtx, Contexts
<1>. QED  BY <1>2 DEF GoodContext

LEMMA OtherDataIsGood ==
  ASSUME NEW x, NEW table, GoodContext(x, table)
  PROVE  GoodContext(UpdateUserDataCtx(x, TaskSession(Empty, 0, Empty)), table)
<1>1. x \in Contexts
  BY DEF GoodContext
<1>2. /\ UpdateUserDataCtx(x, TaskSession(Empty, 0, Empty)) \in Contexts
      /\ UpdateUserDataCtx(x, TaskSession(Empty, 0, Empty)).data = TaskSession(Empty, 0, Empty)
  BY <1>1 DEF UpdateUserDataCtx, Contexts
<1>3. TaskSession(Empty, 0, Empty).kind # "shiritori"
  BY DEF TaskSession
<1>. QED  BY <1>2, <1>3 DEF GoodContext

LEMMA AttemptOfHandler ==
  ASSUME GameInv, NEW c \in Conns
  PROVE  GoodGame(Attempt(c), rows) /\ Attempt(c).correct < Attempt(c).user
<1>1. GoodGame(AsGame(uctx[c].data), rows)
  BY AsGameIsGood DEF GameInv
<1>. QED  BY <1>1, AttemptIsGood DEF Attempt

LEMMA AnswersAreRows ==
  ASSUME RowsOK, NEW c \in Conns, Answers(c) # {}
  PROVE  Min(Answers(c)) \in Answers(c) /\ Answers(c) \subseteq DOMAIN rows
<1>1. DOMAIN rows \subseteq Nat
  BY DEF RowsOK
<1>2. Answers(c) \subseteq DOMAIN rows
  BY DEF Answers, Rest, Own, NextRows
<1>. QED  BY <1>1, <1>2, MinIsMin

LEMMA PlayWordGood ==
  ASSUME GameInv, NEW c \in Conns, PlayWord(c)
  PROVE  GameInv'
<1>. DEFINE serial == Min(Answers(c))
            bot == rows[serial].word
            t == [user |-> msg[c], bot |-> bot, serial |-> serial]
            g == Attempt(c)
<1>1. /\ pc[c] = "play" /\ Letter(c) # Empty /\ Answers(c) # {}
      /\ GetLastLetter(bot) # Empty
      /\ Finish(c) /\ rows' = rows
  BY DEF PlayWord
<1>2. CASE UNCHANGED <<ctx, faults>>
  BY <1>1, <1>2, FinishIsGood DEF GameInv
<1>3. ASSUME NEW o \in Outcomes, ~ NotMatch(c), ~ Repeat(c),
             Write(o, SetUserCtx("Shiritori", Accepted(c, serial)))
      PROVE  GameInv'
  <2>1. msg[c] \in Texts /\ msg[c] \in Words
    BY <1>1, ShiritoriAssumption DEF GameInv, HandlersOK
  <2>2. serial \in Answers(c) /\ serial \in DOMAIN rows
    BY <1>1, AnswersAreRows DEF GameInv
  <2>3. bot \in Words /\ serial \in 1 .. MaxRows
    <3>1. rows \in Seq([word : Words, live : BOOLEAN]) /\ Len(rows) <= MaxRows /\ MaxRows \in Nat
      BY ShiritoriAssumption DEF GameInv, RowsOK
    <3>2. rows[serial] \in [word : Words, live : BOOLEAN]
      BY <3>1, <2>2, ElementType, Zenon
    <3>3. DOMAIN rows = 1 .. Len(rows) /\ Len(rows) \in Nat
      BY <3>1
    <3>. HIDE DEF serial
    <3>. QED  BY <3>1, <3>2, <3>3, <2>2
  <2>4. t \in Turns /\ t.bot = bot /\ t.user = msg[c] /\ t.serial = serial
    BY <2>1, <2>3 DEF Turns
  <2>5. GoodGame(g, rows) /\ g.correct < g.user
    BY AttemptOfHandler
  <2>6. msg[c] \notin g.used /\ g.last \in {Empty, FirstLetter(msg[c])}
    BY <1>3 DEF NotMatch, Repeat
  <2>7. GetLastLetter(msg[c]) \in Letters
    BY <1>1, <2>1 DEF Letter, Letters
  <2>8. \/ bot = msg[c]
        \/ FirstLetter(bot) = GetLastLetter(msg[c]) /\ serial > g.offsets[GetLastLetter(msg[c])]
    <3>1. serial \in Rest(msg[c], GetLastLetter(msg[c]), g.offsets[GetLastLetter(msg[c])])
      BY <2>2 DEF Answers, Letter
    <3>. HIDE DEF serial, g
    <3>. QED  BY <3>1 DEF Rest, Own, NextRows
  <2>9. Accepted(c, serial) =
          [g EXCEPT !.all = @ + 1, !.correct = @ + 1, !.last = GetLastLetter(bot),
                    !.used = @ \union {t.user, bot},
                    !.offsets = [@ EXCEPT ![GetLastLetter(t.user)] = t.serial],
                    !.turns = Append(@, t)]
    BY DEF Accepted, Letter
  <2>10. GoodGame(Accepted(c, serial), rows)
    <3>. HIDE DEF serial, bot, t, g
    <3>1. /\ rows[t.serial].word = bot /\ t.serial \in DOMAIN rows
          /\ bot = t.bot /\ t \in Turns
          /\ t.user \notin g.used /\ g.last \in {Empty, FirstLetter(t.user)}
          /\ GetLastLetter(t.user) \in Letters /\ GetLastLetter(bot) # Empty
          /\ \/ bot = t.user
             \/ FirstLetter(bot) = GetLastLetter(t.user) /\ t.serial > g.offsets[GetLastLetter(t.user)]
      BY <1>1, <2>2, <2>4, <2>6, <2>7, <2>8 DEF bot
    <3>. QED  BY <3>1, <2>5, <2>9, AcceptedIsGood
  <2>11. GoodContext(SetUserCtx("Shiritori", Accepted(c, serial)), rows)
    <3>. HIDE DEF serial
    <3>. QED  BY <2>10 DEF GoodContext, GoodGame, SetUserCtx, Contexts, UserStates
  <2>. QED  BY <1>1, <1>3, <2>11, WriteIsGood, FinishIsGood
<1>. QED  BY <1>2, <1>3 DEF PlayWord

LEMMA FinishingSteps ==
  ASSUME GameInv, NEW c \in Conns,
         Begin(c) \/ Stop(c) \/ Other(c) \/ Reject(c) \/ Miss(c)
  PROVE  GameInv'
<1>1. Finish(c) /\ rows' = rows
  BY DEF Begin, Stop, Other, Reject, Miss
<1>2. GoodContext(ctx, rows)
  BY DEF GameInv
<1>3. ASSUME NEW x, NEW o, GoodContext(x, rows), Write(o, x)
      PROVE  GameInv'
  BY <1>1, <1>3, WriteIsGood, FinishIsGood
<1>4. CASE Begin(c)
  <2>1. GoodContext(UpdUserStateCtx(ctx, "Shiritori"), rows)
    BY <1>2, StateIsGood DEF UserStates
  <2>. QED  BY <1>3, <1>4, <2>1 DEF Begin
<1>5. CASE Stop(c)
  <2>1. GoodContext(SetUserCtx("None", NoData), rows)
    BY DEF GoodContext, SetUserCtx, NoData, Contexts, UserStates
  <2>. QED  BY <1>3, <1>5, <2>1 DEF Stop
<1>6. CASE Other(c)
  <2>1. GoodContext(UpdUserStateCtx(ctx, "None"), rows)
    BY <1>2, StateIsGood DEF UserStates
  <2>2. GoodContext(UpdateUserDataCtx(ctx, TaskSession(Empty, 0, Empty)), rows)
    BY <1>2, OtherDataIsGood
  <2>. QED  BY <1>3, <1>6, <2>1, <2>2 DEF Other
<1>7. CASE Reject(c)
  <2>1. ctx' = ctx /\ faults' \in Nat
    BY <1>7, CountedType DEF Reject, GameInv
  <2>. QED  BY <1>1, <1>2, <2>1, FinishIsGood
<1>8. CASE Miss(c)
  <2>1. GoodContext(UpdateUserDataCtx(ctx, Attempt(c)), rows)
    BY <1>2, AttemptOfHandler, DataIsGood
  <2>. QED  BY <1>3, <1>8, <2>1 DEF Miss
<1>. QED  BY <1>4, <1>5, <1>6, <1>7, <1>8

LEMMA ReceiveGood ==
  ASSUME GameInv, NEW c \in Conns, NEW m \in Commands \union Texts, Receive(c, m)
  PROVE  GameInv'
<1>1. HandlersOK'
  BY DEF Receive, GameInv, HandlersOK
<1>2. UNCHANGED <<ctx, rows, uctx, faults>>
  BY DEF Receive
<1>. QED  BY <1>1, <1>2 DEF GameInv, RowsOK

LEMMA GetUserCtxGood ==
  ASSUME GameInv, NEW c \in Conns, GetUserCtx(c)
  PROVE  GameInv'
<1>1. ctx' = ctx /\ rows' = rows /\ pc[c] = "read" /\ GoodContext(ctx', rows')
  BY DEF GetUserCtx, GameInv
<1>2. CASE Counted("lost") /\ Finish(c)
  BY <1>1, <1>2, CountedType, FinishIsGood
<1>3. CASE /\ uctx' = [uctx EXCEPT ![c] = ctx]
           /\ pc' = [pc EXCEPT ![c] = Route(msg[c], ctx.state)]
           /\ UNCHANGED <<msg, faults>>
  <2>1. msg[c] \in Commands \union Texts /\ ctx \in Contexts
    BY <1>1 DEF GameInv, HandlersOK, GoodContext
  <2>2. /\ Route(msg[c], ctx.state) \in {"begin", "stop", "other", "play"}
        /\ Route(msg[c], ctx.state) = "play" => msg[c] \in Texts
    BY <2>1, ShiritoriAssumption DEF Route, Commands
  <2>3. HandlersOK'
    BY <1>3, <2>1, <2>2 DEF GameInv, HandlersOK
  <2>4. \A d \in Conns : uctx'[d] = uctx[d] \/ uctx'[d] = ctx
    BY <1>3 DEF GameInv, HandlersOK
  <2>5. ASSUME NEW d \in Conns  PROVE  GoodContext(uctx'[d], rows')
    <3>1. GoodContext(uctx[d], rows)
      BY DEF GameInv
    <3>. QED  BY <1>1, <2>4, <3>1, Zenon
  <2>6. RowsOK'
    BY <1>1 DEF GameInv, RowsOK
  <2>7. faults' \in Nat
    BY <1>3 DEF GameInv
  <2>. QED  BY <1>1, <2>3, <2>5, <2>6, <2>7 DEF GameInv
<1>. QED  BY <1>2, <1>3 DEF GetUserCtx

\* Rows are only added and marked: every session keeps its words.
LEMMA RowsGrow ==
  ASSUME GameInv, RowsOK',
         \A i \in DOMAIN rows : i \in DOMAIN rows' /\ rows'[i].word = rows[i].word,
         UNCHANGED <<ctx, handlers, faults>>
  PROVE  GameInv'
<1>1. ASSUME NEW g, GoodGame(g, rows)  PROVE  GoodGame(g, rows')
  BY <1>1 DEF GoodGame, OfTable
<1>2. ASSUME NEW x, GoodContext(x, rows)  PROVE  GoodContext(x, rows')
  BY <1>1, <1>2 DEF GoodContext
<1>3. GoodContext(ctx, rows') /\ \A c \in Conns : GoodContext(uctx[c], rows')
  BY <1>2 DEF GameInv
<1>4. HandlersOK'
  BY DEF GameInv, HandlersOK, handlers
<1>. QED  BY <1>3, <1>4 DEF GameInv, handlers

LEMMA NewWordsGood ==
  ASSUME GameInv, NEW w \in Additions, NewWords(w)
  PROVE  GameInv'
<1>. DEFINE T == [word : Words, live : BOOLEAN]
            row == [word |-> w, live |-> TRUE]
<1>1. rows \in Seq(T) /\ row \in T /\ rows' = Append(rows, row)
  BY ShiritoriAssumption DEF GameInv, RowsOK, NewWords
<1>2. /\ rows' \in Seq(T) /\ Len(rows) \in Nat /\ DOMAIN rows = 1 .. Len(rows)
      /\ Len(rows') = Len(rows) + 1 /\ DOMAIN rows' = 1 .. Len(rows) + 1
      /\ \A i \in 1 .. Len(rows) : rows'[i] = rows[i]
  <2>. HIDE DEF T, row
  <2>. QED  BY <1>1, AppendFacts
<1>3. Len(rows') <= MaxRows
  BY <1>2, ShiritoriAssumption DEF NewWords
<1>. QED  BY <1>2, <1>3, RowsGrow DEF RowsOK, NewWords

LEMMA DelWordGood ==
  ASSUME GameInv, NEW i \in DOMAIN rows, DelWord(i)
  PROVE  GameInv'
<1>. DEFINE T == [word : Words, live : BOOLEAN]
<1>1. rows \in Seq(T) /\ Len(rows) <= MaxRows /\ rows' = [rows EXCEPT ![i].live = FALSE]
  BY DEF GameInv, RowsOK, DelWord
<1>2. Len(rows) \in Nat /\ DOMAIN rows = 1 .. Len(rows)
  BY <1>1
<1>3. rows[i] \in T
  BY <1>1, ElementType, Zenon
<1>4. rows' = [rows EXCEPT ![i] = [rows[i] EXCEPT !.live = FALSE]]
  BY <1>1
<1>5. [rows[i] EXCEPT !.live = FALSE] \in T /\ [rows[i] EXCEPT !.live = FALSE].word = rows[i].word
  BY <1>3
<1>6. rows' \in Seq(T) /\ Len(rows') = Len(rows) /\ DOMAIN rows' = DOMAIN rows
  <2>. HIDE DEF T
  <2>. QED  BY <1>1, <1>4, <1>5
<1>7. \A j \in DOMAIN rows : rows'[j].word = rows[j].word
  BY <1>4, <1>5
<1>. QED  BY <1>1, <1>6, <1>7, RowsGrow DEF RowsOK, DelWord

LEMMA GameNext == GameInv /\ [Next]_vars => GameInv'
<1>. SUFFICES ASSUME GameInv, [Next]_vars PROVE GameInv'
  OBVIOUS
<1>1. ASSUME NEW c \in Conns, NEW m \in Commands \union Texts, Receive(c, m)
      PROVE  GameInv'
  BY <1>1, ReceiveGood
<1>2. ASSUME NEW c \in Conns,
             \/ GetUserCtx(c) \/ Begin(c) \/ Stop(c) \/ Other(c)
             \/ Reject(c) \/ Miss(c) \/ PlayWord(c)
      PROVE  GameInv'
  BY <1>2, GetUserCtxGood, FinishingSteps, PlayWordGood
<1>3. ASSUME NEW w \in Additions, NewWords(w)
      PROVE  GameInv'
  BY <1>3, NewWordsGood
<1>4. ASSUME NEW i \in DOMAIN rows, DelWord(i)
      PROVE  GameInv'
  BY <1>4, DelWordGood
<1>5. CASE Expire
  BY <1>5, NoCtxIsGood DEF Expire, GameInv, HandlersOK, RowsOK, handlers
<1>6. CASE Crash
  <2>1. faults' \in Nat
    BY <1>6, CountedType DEF Crash
  <2>2. HandlersOK' /\ \A c \in Conns : uctx'[c] = NoCtx
    BY <1>6, NoCtxIsGood DEF Crash, HandlersOK, GoodContext
  <2>3. GoodContext(NoCtx, rows')
    BY NoCtxIsGood
  <2>. QED  BY <1>6, <2>1, <2>2, <2>3 DEF Crash, GameInv, RowsOK
<1>7. CASE UNCHANGED vars
  BY <1>7 DEF vars, handlers, GameInv, HandlersOK, RowsOK
<1>. QED  BY <1>1, <1>2, <1>3, <1>4, <1>5, <1>6, <1>7 DEF Next

LEMMA GameInit == Init => GameInv
<1>. SUFFICES ASSUME Init PROVE GameInv
  OBVIOUS
<1>1. GoodContext(NoCtx, rows)
  BY NoCtxIsGood
<1>2. HandlersOK
  BY <1>1 DEF Init, HandlersOK, GoodContext
<1>3. RowsOK
  <2>1. /\ Initial \in Seq(Words) /\ Len(Initial) <= MaxRows
        /\ DOMAIN Initial = 1 .. Len(Initial) /\ Len(Initial) \in Nat
    BY ShiritoriAssumption
  <2>2. \A i \in DOMAIN Initial : Initial[i] \in Words
    BY <2>1, ElementType, Zenon
  <2>3. \A i \in DOMAIN Initial :
          [word |-> Initial[i], live |-> TRUE] \in [word : Words, live : BOOLEAN]
    BY <2>2
  <2>4. rows \in Seq([word : Words, live : BOOLEAN]) /\ Len(rows) = Len(Initial)
    BY <2>1, <2>3 DEF Init
  <2>. QED  BY <2>1, <2>4 DEF RowsOK
<1>. QED  BY <1>1, <1>2, <1>3 DEF Init, GameInv

-----------------------------------------------------------------------------
(* What the game promises.                                                 *)

LEMMA ContextType ==
  ASSUME NEW x \in Contexts
  PROVE  IsContext(x)
<1>1. x.data.kind = "shiritori" => x.data \in Games
  BY KindIsGame
<1>2. ASSUME NEW g \in Games  PROVE  IsGame(g)
  <2>1. DOMAIN g = DOMAIN NewGame
    BY DEF Games, NewGame
  <2>2. /\ g.used \subseteq Words
        /\ g.last \in (Letters \ Mute) \union {Empty}
        /\ g.offsets \in [Letters -> 0 .. MaxRows]
        /\ g.all \in Nat /\ g.user \in Nat /\ g.correct \in Nat
        /\ g.turns \in Seq(Turns)
    BY DEF Games
  <2>3. \A i \in DOMAIN g.turns : g.turns[i] \in Turns
    BY <2>2, ElementType, Zenon
  <2>. QED  BY <2>1, <2>2, <2>3 DEF IsGame, Turns
<1>. QED  BY <1>1, <1>2, KindIsGame DEF IsContext

\* The variables of the game have their types.
THEOREM TypeCorrect == Spec => []TypeOK
<1>1. GameInv => TypeOK
  BY ContextType DEF GameInv, HandlersOK, RowsOK, GoodContext, TypeOK
<1>. QED  BY <1>1, GameInit, GameNext, PTL DEF Spec

LEMMA GameIsGood == GameInv => GoodGame(Game, rows)
BY AsGameIsGood DEF GameInv, Game

\* No word that was accepted had been said before in the game.
THEOREM WordsAreNew == Spec => []UserWordsAreNew
<1>1. GameInv => UserWordsAreNew
  BY GameIsGood DEF GoodGame, Marked, UserWordsAreNew
<1>. QED  BY <1>1, GameInit, GameNext, PTL DEF Spec

\* The words of a game form a chain.
THEOREM WordsChain == Spec => []WordsFormAChain
<1>1. GameInv => WordsFormAChain
  BY GameIsGood DEF GoodGame, Chained, WordsFormAChain
<1>. QED  BY <1>1, GameInit, GameNext, PTL DEF Spec

\* The bot answers with no row twice, unless it said the user's word again.
THEOREM RowsAreNew == Spec => []BotRowsAreNew
<1>1. GameInv => BotRowsAreNew
  BY GameIsGood DEF GoodGame, Offsets, BotRowsAreNew
<1>. QED  BY <1>1, GameInit, GameNext, PTL DEF Spec

\* The statistics of a game add up.
THEOREM Statistics == Spec => []StatisticsAddUp
<1>1. GameInv => StatisticsAddUp
  BY GameIsGood DEF GoodGame, Sums, StatisticsAddUp
<1>. QED  BY <1>1, GameInit, GameNext, PTL DEF Spec
=============================================================================
