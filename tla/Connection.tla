----------------------------- MODULE Connection -----------------------------
(***************************************************************************)
(* The pages the user has open in the browser and the WebSocket side of    *)
(* the gateway: HandleChatWS with the chat history, one goroutine per      *)
(* page, and the scheduler, which sends reminders.  The goroutines share   *)
(* h.conn, the connection opened last: the history, the first parts of an  *)
(* answer and reminders are written to it, and only the answer itself to   *)
(* the connection that asked.  (What a page shows of reminders is left     *)
(* out.)                                                                   *)
(*                                                                         *)
(* A WebSocket must not be written by two goroutines at a time.  A         *)
(* goroutine is in the middle of a write as long as tgt names its target;  *)
(* of two that overlap each may go through, fail or panic.                 *)
(***************************************************************************)
EXTENDS ReminderClock, FiniteSets, SequencesExt

CONSTANTS Cap,       \* the history is trimmed to its last messages (100)
          FirstTime, \* when the gateway is first started
          MaxConns,  \* bound: pages opened or reloaded
          MaxTime,   \* bound: the last hour
          MaxSent,   \* bound: messages of the user
          MaxFaults  \* bound: failing calls, clashing writes and crashes

ASSUME ConnectionAssumption ==
  /\ Cap \in Nat \ {0}
  /\ FirstTime \in Nat /\ MaxTime \in Nat /\ FirstTime <= MaxTime
  /\ MaxConns \in Nat /\ MaxSent \in Nat /\ MaxFaults \in Nat

\* The connections in the order in which they are opened.
Conns == 1 .. MaxConns

\* The nil connection.
NoConn == 0

\* The goroutine of the scheduler.
Notifier == MaxConns + 1

VARIABLES hconn,    \* h.conn
          open,     \* whether the page of each connection is there and connected
          inbox,    \* the messages a page has sent and nobody has read yet
          pc,       \* where each connection's goroutine is
          tgt,      \* the connection a goroutine is writing to
          pending,  \* what loadHistory has still to push
          msg,      \* the message a goroutine handles
          history,  \* the list chat:history:1 in Redis
          up,       \* whether the gateway runs
          spc,      \* where the scheduler is
          nextRun,  \* when its timer fires
          time,     \* the clock, in hours
          shown,    \* the messages each page shows, in order
          loaded,   \* history: what loadHistory read
          sent,     \* history: how many messages the user has written
          askedOn,  \* history: the page each of them was written on
          saved,    \* history: the messages pushed to the list since it expired
          checked,  \* history: how often the scheduler woke up at each time
          started,  \* history: when the gateway was last started
          faults    \* history: failing calls, clashing writes and crashes

pages == <<open, inbox, shown, sent, askedOn>>
handlers == <<pc, pending, msg, loaded>>
store == <<history, saved>>
scheduler == <<spc, nextRun, checked>>
world == <<up, time, started>>
vars == <<hconn, pages, handlers, tgt, store, scheduler, world, faults>>

Goroutines == Conns \union {Notifier}

\* A message of the user, the answer to it and what is written of the answer
\* before it is complete; the last two have the same req_trace.
Mine(n) == [from |-> "user", n |-> n]
Answer(n) == [from |-> "bot", n |-> n]
Part(n) == [from |-> "part", n |-> n]

Init ==
  /\ hconn = NoConn
  /\ open = [c \in Conns |-> FALSE]
  /\ inbox = [c \in Conns |-> <<>>]
  /\ pc = [c \in Conns |-> "new"]
  /\ tgt = [g \in Goroutines |-> NoConn]
  /\ pending = [c \in Conns |-> <<>>]
  /\ msg = [c \in Conns |-> 0]
  /\ history = <<>>
  /\ up = TRUE
  /\ spc = "asleep" /\ nextRun = NextSlot(FirstTime)
  /\ time = FirstTime /\ started = FirstTime
  /\ shown = [c \in Conns |-> <<>>]
  /\ loaded = [c \in Conns |-> <<>>]
  /\ sent = 0 /\ askedOn = [n \in 1 .. MaxSent |-> NoConn]
  /\ saved = <<>>
  /\ checked = [t \in FirstTime .. MaxTime |-> 0]
  /\ faults = 0

Counted(o) ==
  /\ o # "ok" => faults < MaxFaults
  /\ faults' = IF o = "ok" THEN faults ELSE faults + 1

-----------------------------------------------------------------------------
(* The page in the browser.                                                *)

\* The page's messages after one has arrived: it replaces the one of the bot
\* with the same req_trace, or comes last.
Merged(list, entry) ==
  LET same == {i \in DOMAIN list : list[i].n = entry.n /\ list[i].from # "user"} IN
    IF entry.from = "user" \/ same = {} THEN Append(list, entry)
    ELSE [i \in DOMAIN list |-> IF i \in same THEN entry ELSE list[i]]

\* Page c shows an entry that arrives, if it is still there.
Show(c, entry) ==
  /\ shown' = IF open[c] THEN [shown EXCEPT ![c] = Merged(@, entry)] ELSE shown
  /\ UNCHANGED <<open, inbox, sent, askedOn>>

\* The pages of C are gone, or have lost their connection: a page does not
\* connect again, and what it shows from now on is left out.
Gone(C) ==
  /\ open' = [c \in Conns |-> open[c] /\ c \notin C]
  /\ shown' = [c \in Conns |-> IF c \in C THEN <<>> ELSE shown[c]]
  /\ UNCHANGED <<sent, askedOn>>

\* The user writes a message.  The page shows it at once, before the history
\* if that is still to come, and sends it.
Send(c) ==
  /\ open[c] /\ sent < MaxSent
  /\ sent' = sent + 1
  /\ askedOn' = [askedOn EXCEPT ![sent + 1] = c]
  /\ shown' = [shown EXCEPT ![c] = Append(@, Mine(sent + 1))]
  /\ inbox' = [inbox EXCEPT ![c] = Append(@, sent + 1)]
  /\ UNCHANGED <<hconn, open, handlers, tgt, store, scheduler, world, faults>>

\* The page is closed or reloaded; what it has sent is still on its way.
ClosePage(c) ==
  /\ open[c]
  /\ Gone({c})
  /\ UNCHANGED <<hconn, inbox, handlers, tgt, store, scheduler, world, faults>>

-----------------------------------------------------------------------------
(* Writes to a WebSocket.                                                  *)

Begin(g, conn) == tgt' = [tgt EXCEPT ![g] = conn]
End(g) == tgt' = [tgt EXCEPT ![g] = NoConn]

Clash(g) == \E other \in Goroutines \ {g} : tgt[other] = tgt[g]

\* How the write of g may end; a write to a page that is gone may go
\* unnoticed.
WriteEnds(g, o) ==
  /\ \/ o = "ok"    /\ UNCHANGED faults
     \/ o = "error" /\ ~ open[tgt[g]] /\ UNCHANGED faults
     \/ o \in {"error", "panic"} /\ Clash(g) /\ Counted(o)

\* What has been written is shown, if it went through.
Arrives(g, o, entry) ==
  IF o = "ok" THEN Show(tgt[g], entry) ELSE UNCHANGED pages

-----------------------------------------------------------------------------
(* The goroutine of a connection.                                          *)

Goto(c, label) == pc' = [pc EXCEPT ![c] = label]

\* HandleChatWS returns, or panics: the connection is closed, and nobody reads
\* what the page has sent.
Return(c) ==
  /\ Goto(c, "closed")
  /\ pending' = [pending EXCEPT ![c] = <<>>]
  /\ msg' = [msg EXCEPT ![c] = 0]
  /\ loaded' = [loaded EXCEPT ![c] = <<>>]
  /\ inbox' = [inbox EXCEPT ![c] = <<>>]
  /\ End(c)
  /\ Gone({c})

\* c is the next connection to be opened.
IsNext(c) == pc[c] = "new" /\ \A d \in 1 .. c - 1 : pc[d] # "new"

\* A variant of Upgrade that publishes the connection only to what is begun
\* later: the history is still pushed to the one before.
UpgradeLate(c) ==
  /\ up /\ IsNext(c)
  /\ open' = [open EXCEPT ![c] = TRUE]
  /\ hconn' = IF hconn = NoConn THEN c ELSE hconn
  /\ Goto(c, "load")
  /\ UNCHANGED <<inbox, shown, sent, askedOn, pending, msg, loaded, tgt, store, scheduler, world, faults>>

\* A page is opened.
Upgrade(c) ==
  /\ up /\ IsNext(c)
  /\ open' = [open EXCEPT ![c] = TRUE]
  /\ hconn' = c
  /\ Goto(c, "load")
  /\ UNCHANGED <<inbox, shown, sent, askedOn, pending, msg, loaded, tgt, store, scheduler, world, faults>>

\* loadHistory reads the whole list and pushes it entry by entry.
LoadHistory(c) ==
  /\ pc[c] = "load"
  /\ \/ /\ history # <<>>
        /\ pending' = [pending EXCEPT ![c] = history]
        /\ loaded' = [loaded EXCEPT ![c] = history]
        /\ Goto(c, "push") /\ Begin(c, hconn)
        /\ UNCHANGED faults
     \/ /\ history = <<>> \/ faults < MaxFaults
        /\ Counted(IF history = <<>> THEN "ok" ELSE "lost")
        /\ Goto(c, "idle")
        /\ UNCHANGED <<pending, loaded, tgt>>
  /\ UNCHANGED <<hconn, pages, msg, store, scheduler, world>>

\* One entry is pushed to h.conn; the first error ends the push.
PushEntry(c) ==
  /\ pc[c] = "push"
  /\ \E o \in {"ok", "error", "panic"} :
       /\ WriteEnds(c, o)
       /\ IF o = "panic" THEN Return(c)
          ELSE /\ Arrives(c, o, Head(pending[c]))
               /\ IF o = "error" \/ Len(pending[c]) = 1
                  THEN /\ Goto(c, "idle") /\ End(c)
                       /\ pending' = [pending EXCEPT ![c] = <<>>]
                  ELSE /\ Begin(c, hconn)
                       /\ pending' = [pending EXCEPT ![c] = Tail(@)]
                       /\ UNCHANGED pc
               /\ UNCHANGED <<msg, loaded>>
  /\ UNCHANGED <<hconn, store, scheduler, world>>

\* ReadJSON: the next message of the page.
Receive(c) ==
  /\ pc[c] = "idle" /\ inbox[c] # <<>>
  /\ msg' = [msg EXCEPT ![c] = Head(inbox[c])]
  /\ inbox' = [inbox EXCEPT ![c] = Tail(@)]
  /\ Goto(c, "save")
  /\ UNCHANGED <<hconn, open, shown, sent, askedOn, pending, loaded, tgt, store, scheduler, world, faults>>

\* ReadJSON fails, for the page is gone.
ReadFails(c) ==
  /\ pc[c] = "idle" /\ ~ open[c]
  /\ Return(c)
  /\ UNCHANGED <<hconn, store, scheduler, world, faults>>

\* A variant of Entry that numbers by the last message of any page.
EntryOfLast(c) == IF pc[c] = "save" THEN Mine(sent + 1) ELSE Answer(sent + 1)

\* What saveMessage saves before and after the message is handled.
Entry(c) == IF pc[c] = "save" THEN Mine(msg[c]) ELSE Answer(msg[c])

\* After saveMessage, whether it failed or not.
AfterSave(c) ==
  IF pc[c] \in {"save", "trim"}
  THEN Goto(c, "handle") /\ UNCHANGED tgt
  ELSE Goto(c, "reply") /\ Begin(c, c)

\* RPUSH of AddMessage.
RPush(c) ==
  /\ pc[c] \in {"save", "saveReply"}
  /\ \/ /\ history' = Append(history, Entry(c))
        /\ saved' = Append(saved, Entry(c))
        /\ Goto(c, IF pc[c] = "save" THEN "trim" ELSE "trimReply")
        /\ UNCHANGED <<tgt, faults>>
     \/ Counted("lost") /\ AfterSave(c) /\ UNCHANGED store
  /\ UNCHANGED <<hconn, pages, pending, msg, loaded, scheduler, world>>

\* A variant of Newest that keeps the wrong end of the list.
Oldest(list) == SubSeq(list, 1, IF Len(list) > Cap THEN Cap ELSE Len(list))

\* LTRIM to the last Cap entries.
Newest(list) ==
  IF Len(list) > Cap THEN SubSeq(list, Len(list) - Cap + 1, Len(list)) ELSE list

\* LTRIM of AddMessage; the pipeline may break off before it.
LTrim(c) ==
  /\ pc[c] \in {"trim", "trimReply"}
  /\ \/ history' = Newest(history) /\ UNCHANGED faults
     \/ Counted("lost") /\ UNCHANGED history
  /\ AfterSave(c)
  /\ UNCHANGED <<hconn, pages, pending, msg, loaded, saved, scheduler, world>>

\* handleMessage, which writes parts of an answer to h.conn in some modes.
Handle(c) ==
  /\ pc[c] = "handle"
  /\ \/ Goto(c, "saveReply") /\ UNCHANGED tgt
     \/ Goto(c, "part") /\ Begin(c, hconn)
  /\ UNCHANGED <<hconn, pages, pending, msg, loaded, store, scheduler, world, faults>>

\* An error of such a write is ignored.
WritePart(c) ==
  /\ pc[c] = "part"
  /\ \E o \in {"ok", "error", "panic"} :
       /\ WriteEnds(c, o)
       /\ IF o = "panic" THEN Return(c)
          ELSE /\ Arrives(c, o, Part(msg[c]))
               /\ Goto(c, "saveReply") /\ End(c)
               /\ UNCHANGED <<pending, msg, loaded>>
  /\ UNCHANGED <<hconn, store, scheduler, world>>

\* A variant of Reply that answers on h.conn, as the parts of the answer do.
ReplyToLast(c) ==
  /\ pc[c] = "reply"
  /\ \E o \in {"ok", "error", "panic"} :
       /\ WriteEnds(c, o)
       /\ IF o = "ok"
          THEN /\ Show(hconn, Answer(msg[c]))
               /\ Goto(c, "idle") /\ End(c)
               /\ msg' = [msg EXCEPT ![c] = 0]
               /\ UNCHANGED <<pending, loaded>>
          ELSE Return(c)
  /\ UNCHANGED <<hconn, store, scheduler, world>>

\* The answer is written to the connection itself.
Reply(c) ==
  /\ pc[c] = "reply"
  /\ \E o \in {"ok", "error", "panic"} :
       /\ WriteEnds(c, o)
       /\ IF o = "ok"
          THEN /\ Show(c, Answer(msg[c]))
               /\ Goto(c, "idle") /\ End(c)
               /\ msg' = [msg EXCEPT ![c] = 0]
               /\ UNCHANGED <<pending, loaded>>
          ELSE Return(c)
  /\ UNCHANGED <<hconn, store, scheduler, world>>

\* An hour after the last message; not between RPUSH and the end of its
\* pipeline, which contains EXPIRE.
ExpireHistory ==
  /\ \A c \in Conns : pc[c] \notin {"trim", "trimReply"}
  /\ history' = <<>> /\ saved' = <<>>
  /\ UNCHANGED <<hconn, pages, handlers, tgt, scheduler, world, faults>>

-----------------------------------------------------------------------------
(* The scheduler.                                                          *)

Sleep == spc' = "asleep" /\ nextRun' = NextSlot(time)

Wake ==
  /\ up /\ spc = "asleep" /\ time >= nextRun
  /\ spc' = "ask"
  /\ checked' = [checked EXCEPT ![time] = @ + 1]
  /\ UNCHANGED <<hconn, pages, handlers, tgt, store, nextRun, world, faults>>

\* notify: nothing to do if users-service says that a task was done today, or
\* fails to say, or no page was ever opened.
Notify ==
  /\ spc = "ask"
  /\ \/ Sleep /\ UNCHANGED <<tgt, faults>>
     \/ /\ hconn # NoConn
        /\ spc' = "send" /\ Begin(Notifier, hconn)
        /\ UNCHANGED <<nextRun, faults>>
  /\ UNCHANGED <<hconn, pages, handlers, store, checked, world>>

\* The gateway goes down with all its goroutines.
Down ==
  /\ up' = FALSE
  /\ hconn' = NoConn
  /\ pc' = [c \in Conns |-> IF pc[c] = "new" THEN "new" ELSE "closed"]
  /\ Gone(Conns)
  /\ inbox' = [c \in Conns |-> <<>>]
  /\ pending' = [c \in Conns |-> <<>>]
  /\ msg' = [c \in Conns |-> 0]
  /\ loaded' = [c \in Conns |-> <<>>]
  /\ tgt' = [g \in Goroutines |-> NoConn]
  /\ spc' = "asleep"
  /\ UNCHANGED <<store, nextRun, checked, time, started>>

\* A panic in the scheduler ends the process: nobody recovers from it.
SendNotification ==
  /\ spc = "send"
  /\ \E o \in {"ok", "error", "panic"} :
       /\ WriteEnds(Notifier, o)
       /\ IF o = "panic" THEN Down
          ELSE /\ Sleep /\ End(Notifier)
               /\ UNCHANGED <<hconn, pages, handlers, store, checked, world>>

Crash == up /\ Counted("lost") /\ Down

\* NewWSH starts the scheduler.
Restart ==
  /\ ~ up
  /\ up' = TRUE /\ started' = time /\ Sleep
  /\ UNCHANGED <<hconn, pages, handlers, tgt, store, checked, time, faults>>

\* A check takes seconds: the clock does not reach the next hour before it is
\* over.
Tick ==
  /\ time < MaxTime
  /\ up => spc = "asleep" /\ time < nextRun
  /\ time' = time + 1
  /\ UNCHANGED <<hconn, pages, handlers, tgt, store, scheduler, up, started, faults>>

-----------------------------------------------------------------------------
Handler(c) ==
  \/ LoadHistory(c) \/ PushEntry(c) \/ Receive(c) \/ ReadFails(c)
  \/ RPush(c) \/ LTrim(c) \/ Handle(c) \/ WritePart(c) \/ Reply(c)

Scheduler == Wake \/ Notify \/ SendNotification

Next ==
  \/ \E c \in Conns : Upgrade(c) \/ Send(c) \/ ClosePage(c) \/ Handler(c)
  \/ Scheduler
  \/ ExpireHistory \/ Crash \/ Restart \/ Tick

Spec == Init /\ [][Next]_vars

-----------------------------------------------------------------------------
Labels == {"new", "load", "push", "idle", "save", "trim", "handle", "part",
           "saveReply", "trimReply", "reply", "closed"}

Messages == {Mine(n) : n \in 1 .. MaxSent} \union {Answer(n) : n \in 1 .. MaxSent}
Shown == Messages \union {Part(n) : n \in 1 .. MaxSent}

\* Every variable has its type.
TypeOK ==
  /\ hconn \in Conns \union {NoConn}
  /\ open \in [Conns -> BOOLEAN] /\ pc \in [Conns -> Labels]
  /\ tgt \in [Goroutines -> Conns \union {NoConn}]
  /\ inbox \in [Conns -> Seq(1 .. MaxSent)] /\ shown \in [Conns -> Seq(Shown)]
  /\ pending \in [Conns -> Seq(Messages)] /\ loaded \in [Conns -> Seq(Messages)]
  /\ msg \in [Conns -> 0 .. MaxSent] /\ sent \in 0 .. MaxSent
  /\ askedOn \in [1 .. MaxSent -> Conns \union {NoConn}]
  /\ history \in Seq(Messages) /\ saved \in Seq(Messages)
  /\ up \in BOOLEAN /\ spc \in {"asleep", "ask", "send"}
  /\ nextRun \in Nat /\ time \in FirstTime .. MaxTime
  /\ started \in FirstTime .. MaxTime
  /\ checked \in [FirstTime .. MaxTime -> Nat]
  /\ faults \in 0 .. MaxFaults

\* The history consists of the newest messages saved, without a gap, and of as
\* many of them as fit; it is longer only while a pipeline is at work or after
\* one broke off, whatever the order of the pipelines of several pages.
HistoryIsRecent ==
  /\ IsSuffix(history, saved)
  /\ Len(history) >= (IF Len(saved) < Cap THEN Len(saved) ELSE Cap)
  /\ Len(history) <=
       Cap + Cardinality({c \in Conns : pc[c] \in {"trim", "trimReply"}})
           + faults * Cardinality(Conns)

\* The page opened last shows all that it loaded of the history, and the
\* user's messages in their order, although the user may write before the
\* history is there, other goroutines write to the page as well, and what they
\* write of an answer is merged with it.  (No failure.)
PageIsHydrated ==
  \A c \in Conns :
    /\ open[c] /\ \A d \in Conns : d > c => pc[d] = "new"
    /\ pc[c] \notin {"load", "push"} /\ faults = 0
    => /\ ToSet(loaded[c]) \subseteq ToSet(shown[c])
       /\ \A i, j \in DOMAIN loaded[c] :
            i < j /\ loaded[c][i].from = "user" /\ loaded[c][j].from = "user" =>
              \E p, q \in DOMAIN shown[c] :
                p < q /\ shown[c][p] = loaded[c][i] /\ shown[c][q] = loaded[c][j]

\* The scheduler wakes up at the beginning of a slot only, and once, however
\* often the gateway is restarted.
OneCheckPerSlot ==
  \A t \in FirstTime .. MaxTime :
    checked[t] <= 1 /\ (checked[t] > 0 => IsSlot(t))

\* No slot since the start of the gateway was skipped, overnight and across
\* failing checks.
EverySlotChecked ==
  up => \A t \in started + 1 .. time :
          IsSlot(t) => \/ checked[t] = 1
                       \/ t = time /\ spc = "asleep" /\ nextRun = t

\* No question goes unanswered, and none is answered elsewhere only: a message
\* written on a page that is still connected is on its way, is being handled, or
\* has its whole answer on this page, and keeps it.  Parts of answers go to the
\* page opened last, other goroutines push copies of the history there, and
\* calls and writes fail; none of this takes an answer away again.
AnsweredWhereAsked ==
  \A n \in 1 .. sent :
    LET c == askedOn[n]
    IN open[c] => \/ msg[c] = n \/ n \in ToSet(inbox[c])
                  \/ Answer(n) \in ToSet(shown[c])
=============================================================================
