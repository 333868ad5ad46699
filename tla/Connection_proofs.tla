-------------------------- MODULE Connection_proofs --------------------------
(***************************************************************************)
(* The scheduler: that NextSlot finds the next slot, and what follows,     *)
(* whatever the hours of the slots.  The pages: the types, what AddMessage *)
(* keeps of the history, what a page shows of it, and that a question gets *)
(* its answer.  All for any number of pages, messages, restarts and        *)
(* failures.                                                               *)
(***************************************************************************)
EXTENDS Connection, SequenceTheorems, FiniteSetTheorems, WellFoundedInduction, TLAPS

\* A set of natural numbers has a smallest member.
LEMMA FirstOfIsFirst ==
  ASSUME NEW I \in SUBSET Nat, I # {}
  PROVE  FirstOf(I) \in I /\ \A j \in I : FirstOf(I) <= j
<1> DEFINE Less == {p \in Nat \X Nat : p[1] < p[2]}
<1>1. IsWellFoundedOn(Less, Nat)
  <2>1. Less = OpToRel(<, Nat)
    BY DEF OpToRel
  <2>. QED  BY <2>1, NatLessThanWellFounded
<1>2. \E i \in I : \A j \in I : ~ (<<j, i>> \in Less)
  <2>. HIDE DEF Less
  <2>. QED  BY <1>1, WFMin
<1>3. \E i \in I : \A j \in I : i <= j
  <2>1. ASSUME NEW i \in I, NEW j \in I, <<j, i>> \notin Less  PROVE  i <= j
    <3>1. <<j, i>> \in Nat \X Nat /\ <<j, i>>[1] = j /\ <<j, i>>[2] = i
      OBVIOUS
    <3>2. ~ (j < i)
      BY <3>1, <2>1, Zenon
    <3>. QED  BY <3>2
  <2>. HIDE DEF Less
  <2>. QED  BY <1>2, <2>1
<1>. QED  BY <1>3 DEF FirstOf

\* Division with a remainder, and that there is one way to do it.
LEMMA Division ==
  ASSUME NEW t \in Nat
  PROVE  /\ Day(t) \in Nat /\ Hour(t) \in 0 .. DayHours - 1
         /\ t = Day(t) * DayHours + Hour(t)
BY SlotsAssumption DEF Day, Hour

LEMMA DivisionIsUnique ==
  ASSUME NEW t \in Nat, NEW d \in Nat, NEW h \in 0 .. DayHours - 1,
         t = d * DayHours + h
  PROVE  Day(t) = d /\ Hour(t) = h
BY SlotsAssumption DEF Day, Hour

-----------------------------------------------------------------------------
LEMMA SlotType ==
  /\ Len(Slots) \in Nat \ {0} /\ DOMAIN Slots = 1 .. Len(Slots)
  /\ \A i \in DOMAIN Slots : Slots[i] \in 0 .. DayHours - 1
  /\ \A i \in DOMAIN Slots : Slots[1] <= Slots[i]
<1>1. Len(Slots) \in Nat \ {0} /\ DOMAIN Slots = 1 .. Len(Slots)
  BY SlotsAssumption
<1>2. \A i \in DOMAIN Slots : Slots[i] \in 0 .. DayHours - 1
  BY SlotsAssumption
<1>3. ASSUME NEW i \in DOMAIN Slots  PROVE  Slots[1] <= Slots[i]
  <2>1. i = 1 \/ Slots[1] < Slots[i]
    BY <1>1, SlotsAssumption
  <2>. QED  BY <2>1, <1>1, <1>2, SlotsAssumption
<1>. QED  BY <1>1, <1>2, <1>3

\* Of two times on the same day the later one has the later hour, and a time
\* on a later day is at least a day's hours away.
LEMMA LaterTime ==
  ASSUME NEW t \in Nat, NEW u \in Nat, t < u
  PROVE  \/ Day(u) = Day(t) /\ Hour(u) > Hour(t)
         \/ Day(u) > Day(t) /\ u >= (Day(t) + 1) * DayHours
<1>1. PICK d \in Nat : d = Day(t)
  BY Division
<1>2. PICK e \in Nat : e = Day(u)
  BY Division
<1>3. PICK h \in 0 .. DayHours - 1 : h = Hour(t) /\ t = d * DayHours + h
  BY <1>1, Division
<1>4. PICK k \in 0 .. DayHours - 1 : k = Hour(u) /\ u = e * DayHours + k
  BY <1>2, Division
<1>5. DayHours \in Nat \ {0}
  BY SlotsAssumption
<1>6. CASE e = d
  BY <1>1, <1>2, <1>3, <1>4, <1>5, <1>6
<1>7. CASE e < d
  <2>1. (e + 1) * DayHours <= d * DayHours
    BY <1>5, <1>7
  <2>. QED  BY <2>1, <1>3, <1>4, <1>5
<1>8. CASE e > d
  <2>1. (d + 1) * DayHours <= e * DayHours
    BY <1>5, <1>8
  <2>. QED  BY <2>1, <1>1, <1>2, <1>4, <1>5, <1>8
<1>. QED  BY <1>6, <1>7, <1>8

\* NextSlot is the next time at which a slot begins.
LEMMA NextSlotIsNext ==
  ASSUME NEW t \in Nat
  PROVE  /\ NextSlot(t) \in Nat /\ NextSlot(t) > t
         /\ IsSlot(NextSlot(t))
         /\ \A u \in Nat : t < u /\ u < NextSlot(t) => ~ IsSlot(u)
<1>1. PICK d \in Nat : d = Day(t)
  BY Division
<1>2. PICK h \in 0 .. DayHours - 1 : h = Hour(t) /\ t = d * DayHours + h
  BY <1>1, Division
<1>3. DayHours \in Nat \ {0} /\ d * DayHours \in Nat /\ (d + 1) * DayHours = d * DayHours + DayHours
  BY SlotsAssumption
<1>4. CASE LaterSlots(t) # {}
  <2>1. PICK i \in LaterSlots(t) :
          i = FirstOf(LaterSlots(t)) /\ \A j \in LaterSlots(t) : i <= j
    <3>1. LaterSlots(t) \in SUBSET Nat
      BY SlotType DEF LaterSlots
    <3>. QED  BY <3>1, <1>4, FirstOfIsFirst
  <2>2. i \in DOMAIN Slots /\ Slots[i] \in 0 .. DayHours - 1 /\ Slots[i] > h
    BY <2>1, <1>2, SlotType DEF LaterSlots
  <2>3. PICK n \in Nat : n = NextSlot(t) /\ n = d * DayHours + Slots[i]
    BY <2>1, <2>2, <1>1, <1>3, <1>4 DEF NextSlot
  <2>4. Day(n) = d /\ Hour(n) = Slots[i]
    BY <2>2, <2>3, DivisionIsUnique
  <2>5. ASSUME NEW u \in Nat, t < u, u < n  PROVE  ~ IsSlot(u)
    <3>0. Day(u) \in Nat /\ Hour(u) \in Nat
      BY Division
    <3>1. Day(u) = d /\ Hour(u) > h /\ Hour(u) < Slots[i]
      <4>1. (Day(u) = d /\ Hour(u) > h) \/ Day(u) > d
        BY <2>5, <1>1, <1>2, LaterTime
      <4>2. (Day(n) = Day(u) /\ Hour(n) > Hour(u)) \/ Day(n) > Day(u)
        BY <2>5, LaterTime
      <4>. QED  BY <4>1, <4>2, <3>0, <2>2, <2>4
    <3>2. ASSUME NEW j \in DOMAIN Slots, Slots[j] = Hour(u)  PROVE  FALSE
      <4>1. j \in LaterSlots(t)
        BY <3>1, <3>2, <1>2 DEF LaterSlots
      <4>2. i = j \/ i < j
        BY <4>1, <2>1, <2>2, SlotType
      <4>3. Slots[i] <= Slots[j]
        BY <4>2, <2>2, SlotsAssumption, SlotType
      <4>. QED  BY <4>3, <3>1, <3>2, <2>2, SlotType
    <3>. QED  BY <3>2 DEF IsSlot
  <2>. QED  BY <2>2, <2>3, <2>4, <2>5, <1>2, <1>3 DEF IsSlot
<1>5. CASE LaterSlots(t) = {}
  <2>1. 1 \in DOMAIN Slots /\ Slots[1] \in 0 .. DayHours - 1
    BY SlotType
  <2>2. PICK n \in Nat : n = NextSlot(t) /\ n = (d + 1) * DayHours + Slots[1]
    BY <2>1, <1>1, <1>3, <1>5 DEF NextSlot
  <2>3. Day(n) = d + 1 /\ Hour(n) = Slots[1]
    BY <2>1, <2>2, DivisionIsUnique
  <2>4. ASSUME NEW u \in Nat, t < u, u < n  PROVE  ~ IsSlot(u)
    <3>1. ASSUME NEW j \in DOMAIN Slots, Slots[j] = Hour(u)  PROVE  FALSE
      <4>1. ~ (Slots[j] > h)
        BY <1>2, <1>5 DEF LaterSlots
      <4>2. ~ (Hour(u) > h)
        BY <4>1, <3>1
      <4>3. Day(u) > d
        BY <4>2, <2>4, <1>1, <1>2, LaterTime
      <4>4. Hour(u) < Slots[1]
        <5>1. \/ Day(n) = Day(u) /\ Hour(n) > Hour(u)
              \/ Day(n) > Day(u)
          BY <2>4, LaterTime
        <5>2. Day(u) \in Nat /\ Hour(u) \in Nat
          BY Division
        <5>. QED  BY <5>1, <5>2, <4>3, <2>1, <2>3
      <4>5. Slots[1] <= Slots[j] /\ Slots[1] \in Int /\ Slots[j] \in Int
        BY <3>1, <2>1, SlotType
      <4>. QED  BY <4>4, <4>5, <3>1
    <3>. QED  BY <3>1 DEF IsSlot
  <2>. QED  BY <2>1, <2>2, <2>3, <2>4, <1>2, <1>3 DEF IsSlot
<1>. QED  BY <1>4, <1>5

-----------------------------------------------------------------------------
(* The scheduler.  What it depends on is held by these variables only; of  *)
(* the pages it matters no more than that they leave them alone.           *)

Times == FirstTime .. MaxTime

SchedulerType ==
  /\ up \in BOOLEAN /\ spc \in {"asleep", "ask", "send"}
  /\ nextRun \in Nat /\ time \in Times /\ started \in Times
  /\ checked \in [Times -> Nat]

\* While the gateway is down nobody wakes up; while the scheduler sleeps, its
\* timer stands at the next slot; and while it checks, the slot has just begun.
TimerIsNext ==
  /\ ~ up => spc = "asleep"
  /\ up /\ spc = "asleep" =>
       /\ time <= nextRun /\ IsSlot(nextRun)
       /\ \A t \in Nat : time < t /\ t < nextRun => ~ IsSlot(t)
       /\ \A t \in Times : checked[t] > 0 => t < nextRun
  /\ spc # "asleep" => IsSlot(time) /\ checked[time] = 1

\* Nothing is checked twice, between the slots or before its time.
Checks ==
  \A t \in Times :
    checked[t] <= 1 /\ (checked[t] > 0 => t <= time /\ IsSlot(t))

SchedulerInv == SchedulerType /\ TimerIsNext /\ Checks /\ EverySlotChecked

LEMMA TimesType == Times \subseteq Nat /\ FirstTime \in Times
BY ConnectionAssumption DEF Times

LEMMA SchedulerInit == Init => SchedulerInv
<1>. SUFFICES ASSUME Init  PROVE SchedulerInv
  OBVIOUS
<1>1. SchedulerType
  BY TimesType, NextSlotIsNext DEF Init, SchedulerType, Times
<1>2. TimerIsNext
  BY TimesType, NextSlotIsNext DEF Init, TimerIsNext, Times
<1>3. Checks
  BY TimesType DEF Init, Checks, Times
<1>4. EverySlotChecked
  <2>1. \A t \in FirstTime + 1 .. FirstTime : FALSE
    BY TimesType
  <2>. QED  BY <2>1 DEF Init, EverySlotChecked
<1>. QED  BY <1>1, <1>2, <1>3, <1>4 DEF SchedulerInv

\* What SchedulerInv says of the next state when the variables are unchanged.
LEMMA SchedulerKept ==
  ASSUME SchedulerInv, UNCHANGED <<scheduler, world>>
  PROVE  SchedulerInv'
BY DEF SchedulerInv, SchedulerType, TimerIsNext, Checks, EverySlotChecked, scheduler, world

LEMMA SleepKeeps ==
  ASSUME SchedulerInv, up, spc # "asleep", Sleep, UNCHANGED <<checked, world>>
  PROVE  SchedulerInv'
<1>. USE DEF SchedulerInv
<1>1. time \in Nat /\ nextRun' = NextSlot(time) /\ spc' = "asleep"
  BY TimesType DEF SchedulerType, Sleep
<1>2. nextRun' \in Nat /\ nextRun' > time /\ IsSlot(nextRun')
      /\ \A t \in Nat : time < t /\ t < nextRun' => ~ IsSlot(t)
  BY <1>1, NextSlotIsNext
<1>3. SchedulerType'
  BY <1>1, <1>2 DEF SchedulerType, world
<1>4. TimerIsNext'
  <2>1. \A t \in Times : checked[t] > 0 => t < nextRun'
    BY <1>1, <1>2, TimesType DEF Checks
  <2>. QED  BY <1>1, <1>2, <2>1 DEF TimerIsNext, world
<1>5. Checks'
  BY DEF Checks, world
<1>6. EverySlotChecked'
  <2>1. \A t \in started + 1 .. time : IsSlot(t) => checked[t] = 1
    BY DEF EverySlotChecked
  <2>. QED  BY <2>1 DEF EverySlotChecked, world
<1>. QED  BY <1>3, <1>4, <1>5, <1>6

LEMMA WakeKeeps ==
  ASSUME SchedulerInv, Wake
  PROVE  SchedulerInv'
<1>. USE DEF SchedulerInv
<1>1. /\ up /\ spc = "asleep" /\ spc' = "ask" /\ time = nextRun /\ IsSlot(time)
      /\ checked' = [checked EXCEPT ![time] = @ + 1]
      /\ UNCHANGED <<nextRun, up, time, started>>
  BY TimesType DEF Wake, TimerIsNext, SchedulerType, world
<1>2. time \in Times /\ time \in Nat /\ checked[time] = 0
  BY <1>1, TimesType DEF TimerIsNext, SchedulerType
<1>3. /\ checked'[time] = 1
      /\ \A t \in Times \ {time} : checked'[t] = checked[t]
  BY <1>1, <1>2 DEF SchedulerType
<1>4. SchedulerType'
  BY <1>1, <1>2 DEF SchedulerType
<1>5. TimerIsNext'
  BY <1>1, <1>3 DEF TimerIsNext, SchedulerType
<1>6. Checks'
  BY <1>1, <1>2, <1>3 DEF Checks
<1>7. EverySlotChecked'
  <2>1. ASSUME NEW t \in started + 1 .. time, IsSlot(t)  PROVE  checked'[t] = 1
    <3>1. t \in Times
      BY TimesType, ConnectionAssumption DEF SchedulerType, Times
    <3>2. t # time => checked[t] = 1
      BY <1>1, <2>1 DEF EverySlotChecked
    <3>. QED  BY <3>1, <3>2, <1>3
  <2>. QED  BY <2>1, <1>1 DEF EverySlotChecked
<1>. QED  BY <1>4, <1>5, <1>6, <1>7

LEMMA DownKeeps ==
  ASSUME SchedulerInv, Down
  PROVE  SchedulerInv'
<1>. USE DEF SchedulerInv
<1>1. up' = FALSE /\ spc' = "asleep" /\ UNCHANGED <<nextRun, checked, time, started>>
  BY DEF Down
<1>2. SchedulerType'
  BY <1>1 DEF SchedulerType
<1>3. TimerIsNext'
  BY <1>1 DEF TimerIsNext
<1>4. Checks'
  BY <1>1 DEF Checks
<1>5. EverySlotChecked'
  BY <1>1 DEF EverySlotChecked
<1>. QED  BY <1>2, <1>3, <1>4, <1>5

LEMMA RestartKeeps ==
  ASSUME SchedulerInv, Restart
  PROVE  SchedulerInv'
<1>. USE DEF SchedulerInv
<1>1. /\ up' /\ started' = time /\ spc' = "asleep" /\ nextRun' = NextSlot(time)
      /\ UNCHANGED <<checked, time>>
  BY DEF Restart, Sleep
<1>2. time \in Times /\ time \in Nat
  BY TimesType DEF SchedulerType
<1>3. nextRun' \in Nat /\ nextRun' > time /\ IsSlot(nextRun')
      /\ \A t \in Nat : time < t /\ t < nextRun' => ~ IsSlot(t)
  BY <1>1, <1>2, NextSlotIsNext
<1>4. SchedulerType'
  BY <1>1, <1>2, <1>3 DEF SchedulerType, Restart
<1>5. TimerIsNext'
  <2>1. \A t \in Times : checked[t] > 0 => t < nextRun'
    BY <1>2, <1>3, TimesType DEF Checks
  <2>. QED  BY <1>1, <1>2, <1>3, <2>1 DEF TimerIsNext
<1>6. Checks'
  BY <1>1 DEF Checks
<1>7. EverySlotChecked'
  <2>1. \A t \in time + 1 .. time : FALSE
    BY <1>2
  <2>. QED  BY <2>1, <1>1 DEF EverySlotChecked
<1>. QED  BY <1>4, <1>5, <1>6, <1>7

LEMMA TickKeeps ==
  ASSUME SchedulerInv, Tick
  PROVE  SchedulerInv'
<1>. USE DEF SchedulerInv
<1>1. /\ time < MaxTime /\ time' = time + 1
      /\ up => spc = "asleep" /\ time < nextRun
      /\ UNCHANGED <<spc, nextRun, checked, up, started>>
  BY DEF Tick, scheduler
<1>2. time \in Times /\ time \in Nat /\ time' \in Times /\ nextRun \in Nat /\ started \in Nat
  BY <1>1, TimesType, ConnectionAssumption DEF SchedulerType, Times
<1>3. SchedulerType'
  BY <1>1, <1>2 DEF SchedulerType
<1>4. TimerIsNext'
  BY <1>1, <1>2 DEF TimerIsNext
<1>5. Checks'
  BY <1>1, <1>2, TimesType DEF Checks
<1>6. EverySlotChecked'
  <2>1. ASSUME up, NEW t \in started + 1 .. time + 1, IsSlot(t)
        PROVE  checked[t] = 1 \/ (t = time + 1 /\ spc = "asleep" /\ nextRun = t)
    <3>1. CASE t = time + 1
      <4>1. t \in Nat /\ time < t /\ ~ (t < nextRun)
        BY <3>1, <2>1, <1>1, <1>2 DEF TimerIsNext
      <4>. QED  BY <4>1, <3>1, <2>1, <1>1, <1>2
    <3>2. CASE t # time + 1
      <4>1. t \in started + 1 .. time
        BY <3>2, <1>2
      <4>2. \A u \in started + 1 .. time : IsSlot(u) => checked[u] = 1 \/ nextRun = time
        BY <2>1 DEF EverySlotChecked
      <4>3. checked[t] = 1 \/ nextRun = time
        BY <4>1, <4>2, <2>1
      <4>4. nextRun # time
        BY <2>1, <1>1, <1>2
      <4>. QED  BY <4>3, <4>4
    <3>. QED  BY <3>1, <3>2
  <2>. QED  BY <2>1, <1>1 DEF EverySlotChecked
<1>. QED  BY <1>3, <1>4, <1>5, <1>6

LEMMA SchedulerNext ==
  ASSUME SchedulerInv, Next
  PROVE  SchedulerInv'
<1>1. ASSUME NEW c \in Conns, Upgrade(c) \/ Send(c) \/ ClosePage(c)
      PROVE  SchedulerInv'
  BY <1>1, SchedulerKept DEF Upgrade, Send, ClosePage
<1>2. ASSUME NEW c \in Conns, Handler(c)
      PROVE  SchedulerInv'
  <2>1. UNCHANGED <<scheduler, world>>
    BY <1>2 DEF Handler, LoadHistory, PushEntry, Receive, ReadFails, RPush, LTrim, Handle,
                WritePart, Reply
  <2>. QED  BY <2>1, SchedulerKept
<1>3. CASE Wake
  BY <1>3, WakeKeeps
<1>4. CASE Notify
  <2>1. up /\ spc # "asleep"
    BY <1>4 DEF Notify, SchedulerInv, TimerIsNext
  <2>2. CASE Sleep
    BY <2>1, <2>2, <1>4, SleepKeeps DEF Notify
  <2>3. CASE spc' = "send" /\ UNCHANGED nextRun
    <3>1. spc = "ask" /\ UNCHANGED <<nextRun, checked, up, time, started>>
      BY <2>3, <1>4 DEF Notify, world
    <3>. QED  BY <2>1, <2>3, <3>1 DEF SchedulerInv, SchedulerType, TimerIsNext, Checks,
                 EverySlotChecked
  <2>. QED  BY <2>2, <2>3, <1>4 DEF Notify
<1>5. CASE SendNotification
  <2>1. CASE Down
    BY <2>1, DownKeeps
  <2>2. CASE Sleep /\ UNCHANGED <<checked, world>>
    <3>1. up /\ spc # "asleep"
      BY <1>5 DEF SendNotification, SchedulerInv, TimerIsNext
    <3>. QED  BY <2>2, <3>1, SleepKeeps
  <2>. QED  BY <2>1, <2>2, <1>5 DEF SendNotification
<1>6. CASE ExpireHistory
  BY <1>6, SchedulerKept DEF ExpireHistory
<1>7. CASE Crash
  BY <1>7, DownKeeps DEF Crash
<1>8. CASE Restart
  BY <1>8, RestartKeeps
<1>9. CASE Tick
  BY <1>9, TickKeeps
<1>. QED  BY <1>1, <1>2, <1>3, <1>4, <1>5, <1>6, <1>7, <1>8, <1>9 DEF Next, Scheduler

LEMMA SchedulerInductive == SchedulerInv /\ [Next]_vars => SchedulerInv'
BY SchedulerNext, SchedulerKept DEF vars

\* Scheduler and getNextSlotTime look at a slot once, whatever the slots, the
\* restarts and the failures.
THEOREM ChecksAreSlots == Spec => []OneCheckPerSlot
<1>1. SchedulerInv => OneCheckPerSlot
  BY DEF SchedulerInv, Checks, OneCheckPerSlot, Times
<1>. QED  BY <1>1, SchedulerInit, SchedulerInductive, PTL DEF Spec

\* Scheduler and getNextSlotTime skip no slot as long as the gateway runs,
\* overnight and across failing checks.
THEOREM SlotsAreChecked == Spec => []EverySlotChecked
<1>1. SchedulerInv => EverySlotChecked
  BY DEF SchedulerInv
<1>. QED  BY <1>1, SchedulerInit, SchedulerInductive, PTL DEF Spec
-----------------------------------------------------------------------------
(* The pages and their goroutines.                                         *)

Busy == {"save", "trim", "handle", "part", "saveReply", "trimReply", "reply"}

\* A goroutine that handles a message has one, and one that pushes the history
\* has something to push; nobody else does.
BusyOK ==
  \A c \in Conns :
    /\ pc[c] \in Busy => msg[c] # 0
    /\ pc[c] = "push" <=> pending[c] # <<>>
    /\ pc[c] \in {"new", "load"} => loaded[c] = <<>>
    /\ open[c] => pc[c] \notin {"new", "closed"}

\* A goroutine that writes has a connection to write to.
TargetsOK ==
  /\ \A c \in Conns :
       /\ pc[c] \notin {"new", "closed"} => hconn # NoConn
       /\ pc[c] \in {"push", "part", "reply"} => tgt[c] # NoConn
  /\ spc = "send" => tgt[Notifier] # NoConn

-----------------------------------------------------------------------------
(* The types.                                                              *)

PagesType ==
  /\ open \in [Conns -> BOOLEAN] /\ sent \in 0 .. MaxSent
  /\ inbox \in [Conns -> Seq(1 .. MaxSent)] /\ shown \in [Conns -> Seq(Shown)]
  /\ askedOn \in [1 .. MaxSent -> Conns \union {NoConn}]

HandlersType ==
  /\ pc \in [Conns -> Labels] /\ msg \in [Conns -> 0 .. MaxSent]
  /\ pending \in [Conns -> Seq(Messages)] /\ loaded \in [Conns -> Seq(Messages)]

StoreType == history \in Seq(Messages) /\ saved \in Seq(Messages)

SharedType ==
  /\ hconn \in Conns \union {NoConn}
  /\ tgt \in [Goroutines -> Conns \union {NoConn}]
  /\ faults \in 0 .. MaxFaults

LEMMA TypeParts ==
  TypeOK <=> PagesType /\ HandlersType /\ StoreType /\ SharedType /\ SchedulerType
BY DEF TypeOK, PagesType, HandlersType, StoreType, SharedType, SchedulerType, Times

LEMMA EntryTypes ==
  ASSUME NEW n \in 1 .. MaxSent
  PROVE  /\ Mine(n) \in Messages /\ Answer(n) \in Messages
         /\ Mine(n) \in Shown /\ Answer(n) \in Shown /\ Part(n) \in Shown
BY DEF Messages, Shown

LEMMA MessagesShown == Messages \subseteq Shown
BY DEF Shown

LEMMA HeadTailType ==
  ASSUME NEW S, NEW s \in Seq(S), s # <<>>
  PROVE  Head(s) \in S /\ Tail(s) \in Seq(S) /\ Len(s) \in Nat \ {0}
BY HeadTailProperties, EmptySeq

LEMMA HeadInSet ==
  ASSUME NEW S, NEW s \in Seq(S), s # <<>>
  PROVE  Head(s) \in ToSet(s) /\ ToSet(s) = {Head(s)} \union ToSet(Tail(s))
<1>1. /\ Len(s) \in Nat \ {0} /\ Head(s) = s[1] /\ DOMAIN s = 1 .. Len(s)
      /\ Tail(s) \in Seq(S) /\ Len(Tail(s)) = Len(s) - 1
      /\ \A i \in 1 .. Len(s) - 1 : Tail(s)[i] = s[i + 1]
  BY HeadTailProperties, EmptySeq, LenProperties
<1>2. DOMAIN Tail(s) = 1 .. Len(s) - 1
  BY <1>1, LenProperties
<1>3. ASSUME NEW x \in ToSet(s), x # Head(s)  PROVE x \in ToSet(Tail(s))
  <2>1. PICK i \in 1 .. Len(s) : s[i] = x
    BY <1>1 DEF ToSet
  <2>2. i - 1 \in 1 .. Len(s) - 1 /\ (i - 1) + 1 = i
    BY <1>1, <1>3, <2>1
  <2>3. Tail(s)[i - 1] = x
    BY <1>1, <2>1, <2>2
  <2>. QED  BY <1>2, <2>2, <2>3 DEF ToSet
<1>4. \A i \in 1 .. Len(s) - 1 : i + 1 \in 1 .. Len(s)
  BY <1>1
<1>5. 1 \in 1 .. Len(s)
  BY <1>1
<1>6. Head(s) \in ToSet(s)
  BY <1>1, <1>5 DEF ToSet
<1>7. ToSet(Tail(s)) \subseteq ToSet(s)
  BY <1>1, <1>2, <1>4 DEF ToSet
<1>. QED  BY <1>3, <1>6, <1>7

LEMMA MergedType ==
  ASSUME NEW list \in Seq(Shown), NEW entry \in Shown
  PROVE  Merged(list, entry) \in Seq(Shown)
<1>. DEFINE same == {i \in DOMAIN list : list[i].n = entry.n /\ list[i].from # "user"}
            new == [i \in DOMAIN list |-> IF i \in same THEN entry ELSE list[i]]
<1>1. Append(list, entry) \in Seq(Shown)
  OBVIOUS
<1>2. new \in Seq(Shown)
  <2>1. Len(list) \in Nat /\ DOMAIN list = 1 .. Len(list)
    OBVIOUS
  <2>2. \A i \in 1 .. Len(list) : list[i] \in Shown
    OBVIOUS
  <2>. HIDE DEF same
  <2>3. new \in [1 .. Len(list) -> Shown]
    BY <2>1, <2>2
  <2>. QED  BY <2>1, <2>3, SeqDef, Zenon
<1>3. Merged(list, entry) \in {Append(list, entry), new}
  BY Zenon DEF Merged
<1>. QED  BY <1>1, <1>2, <1>3

LEMMA ShowType ==
  ASSUME PagesType, NEW c \in Conns, NEW entry \in Shown, Show(c, entry)
  PROVE  PagesType'
<1>1. Merged(shown[c], entry) \in Seq(Shown)
  BY MergedType DEF PagesType
<1>2. shown' \in [Conns -> Seq(Shown)]
  BY <1>1 DEF Show, PagesType
<1>. QED  BY <1>2 DEF Show, PagesType

LEMMA GoneType ==
  ASSUME PagesType, NEW C, Gone(C)
  PROVE  /\ open' \in [Conns -> BOOLEAN] /\ sent' \in 0 .. MaxSent
         /\ shown' \in [Conns -> Seq(Shown)] /\ askedOn' = askedOn
BY DEF PagesType, Gone

LEMMA CountedType ==
  ASSUME faults \in 0 .. MaxFaults, NEW o, Counted(o)
  PROVE  faults' \in 0 .. MaxFaults
BY ConnectionAssumption DEF Counted

LEMMA BeginType ==
  ASSUME NEW g \in Goroutines, NEW c \in Conns \union {NoConn}, Begin(g, c) \/ End(g),
         tgt \in [Goroutines -> Conns \union {NoConn}]
  PROVE  tgt' \in [Goroutines -> Conns \union {NoConn}]
BY DEF Begin, End

LEMMA WriteEndsType ==
  ASSUME faults \in 0 .. MaxFaults, NEW g, NEW o, WriteEnds(g, o)
  PROVE  faults' \in 0 .. MaxFaults
BY CountedType DEF WriteEnds

LEMMA ConnsType ==
  /\ Conns \subseteq Nat /\ NoConn \notin Conns /\ Conns \subseteq Goroutines
  /\ Notifier \in Goroutines /\ Notifier \notin Conns
BY ConnectionAssumption DEF Conns, NoConn, Goroutines, Notifier

\* All types but those of the scheduler, which are SchedulerInv's.
PagesInv == PagesType /\ HandlersType /\ StoreType /\ SharedType /\ BusyOK /\ TargetsOK

LEMMA ReturnType ==
  ASSUME PagesInv, NEW c \in Conns, Return(c), UNCHANGED <<hconn, store, spc>>,
         faults' \in 0 .. MaxFaults
  PROVE  PagesInv'
<1>. USE DEF PagesInv
<1>1. PagesType'
  BY GoneType DEF Return, PagesType
<1>2. HandlersType'
  BY ConnectionAssumption DEF Return, Goto, HandlersType, Labels
<1>3. StoreType' /\ SharedType'
  BY BeginType, ConnsType DEF Return, SharedType, StoreType, store
<1>4. BusyOK'
  BY DEF Return, Goto, Gone, BusyOK, Busy, HandlersType, PagesType
<1>5. TargetsOK'
  BY ConnsType DEF Return, Goto, End, TargetsOK, HandlersType, SharedType
<1>. QED  BY <1>1, <1>2, <1>3, <1>4, <1>5

LEMMA TypeKept ==
  ASSUME PagesInv, UNCHANGED <<hconn, pages, handlers, tgt, store, spc, faults>>
  PROVE  PagesInv'
BY DEF PagesInv, PagesType, HandlersType, StoreType, SharedType, BusyOK, TargetsOK, pages,
       handlers, store

LEMMA DownType ==
  ASSUME PagesInv, Down, faults' \in 0 .. MaxFaults
  PROVE  PagesInv'
<1>. USE DEF PagesInv
<1>1. PagesType'
  BY GoneType DEF Down, PagesType
<1>2. HandlersType'
  BY ConnectionAssumption DEF Down, HandlersType, Labels
<1>3. StoreType' /\ SharedType'
  BY ConnsType DEF Down, StoreType, SharedType, store
<1>4. BusyOK' /\ TargetsOK'
  <2>1. \A c \in Conns : /\ open'[c] = FALSE /\ pending'[c] = <<>> /\ loaded'[c] = <<>>
                         /\ pc'[c] \in {"new", "closed"}
    BY DEF Down, Gone
  <2>2. spc' = "asleep"
    BY DEF Down
  <2>. QED  BY <2>1, <2>2 DEF BusyOK, Busy, TargetsOK
<1>. QED  BY <1>1, <1>2, <1>3, <1>4

LEMMA UpgradeType ==
  ASSUME PagesInv, NEW c \in Conns, Upgrade(c)
  PROVE  PagesInv'
<1>. USE DEF PagesInv
<1>1. PagesType'
  BY DEF Upgrade, PagesType
<1>2. HandlersType' /\ StoreType' /\ SharedType'
  BY DEF Upgrade, HandlersType, StoreType, SharedType, Goto, store, Labels
<1>3. BusyOK'
  BY DEF Upgrade, IsNext, Goto, HandlersType, PagesType, BusyOK, Busy
<1>4. TargetsOK'
  BY ConnsType DEF Upgrade, Goto, HandlersType, TargetsOK, scheduler
<1>. QED  BY <1>1, <1>2, <1>3, <1>4

LEMMA SendType ==
  ASSUME PagesInv, NEW c \in Conns, Send(c)
  PROVE  PagesInv'
<1>. USE DEF PagesInv
<1>1. sent + 1 \in 1 .. MaxSent /\ Mine(sent + 1) \in Shown
  BY EntryTypes, ConnectionAssumption DEF Send, PagesType
<1>2. PagesType'
  <2>1. /\ Append(inbox[c], sent + 1) \in Seq(1 .. MaxSent)
        /\ Append(shown[c], Mine(sent + 1)) \in Seq(Shown)
    BY <1>1, AppendProperties DEF PagesType
  <2>. QED  BY <1>1, <2>1 DEF Send, PagesType
<1>3. HandlersType' /\ StoreType' /\ SharedType' /\ BusyOK' /\ TargetsOK'
  BY DEF Send, HandlersType, StoreType, SharedType, BusyOK, TargetsOK, handlers, store, scheduler
<1>. QED  BY <1>2, <1>3

LEMMA CloseType ==
  ASSUME PagesInv, NEW c \in Conns, ClosePage(c)
  PROVE  PagesInv'
<1>. USE DEF PagesInv
<1>1. PagesType'
  BY GoneType DEF ClosePage, PagesType
<1>2. HandlersType' /\ StoreType' /\ SharedType' /\ TargetsOK'
  BY DEF ClosePage, HandlersType, StoreType, SharedType, TargetsOK, handlers, store, scheduler
<1>3. BusyOK'
  BY DEF ClosePage, Gone, BusyOK, handlers, PagesType
<1>. QED  BY <1>1, <1>2, <1>3

\* What is written is shown, or nothing changes on the pages.
LEMMA ArrivesType ==
  ASSUME PagesInv, NEW g \in Goroutines, tgt[g] # NoConn, NEW o, NEW entry \in Shown,
         Arrives(g, o, entry)
  PROVE  PagesType' /\ UNCHANGED <<open, inbox, sent>>
<1>1. CASE o = "ok"
  <2>1. tgt[g] \in Conns
    BY DEF PagesInv, SharedType
  <2>. QED  BY <1>1, <2>1, ShowType DEF Arrives, PagesInv, Show
<1>2. CASE o # "ok"
  BY <1>2 DEF Arrives, pages, PagesInv, PagesType
<1>. QED  BY <1>1, <1>2

LEMMA LoadHistoryType ==
  ASSUME PagesInv, NEW c \in Conns, LoadHistory(c)
  PROVE  PagesInv'
<1>. USE DEF PagesInv
<1>0. pc[c] = "load" /\ hconn \in Conns /\ c \in Goroutines
      /\ UNCHANGED <<hconn, pages, msg, store, spc>>
  BY ConnsType DEF LoadHistory, SharedType, TargetsOK, scheduler
<1>1. PagesType' /\ StoreType'
  BY <1>0 DEF PagesType, StoreType, pages, store
<1>2. CASE history # <<>> /\ pending' = [pending EXCEPT ![c] = history]
           /\ loaded' = [loaded EXCEPT ![c] = history]
           /\ Goto(c, "push") /\ Begin(c, hconn) /\ UNCHANGED faults
  <2>1. HandlersType' /\ SharedType'
    BY <1>0, <1>2, BeginType DEF HandlersType, StoreType, SharedType, Goto, Labels
  <2>2. BusyOK'
    BY <1>0, <1>2 DEF Goto, HandlersType, BusyOK, Busy, pages
  <2>3. TargetsOK'
    BY <1>0, <1>2, ConnsType DEF Goto, Begin, HandlersType, SharedType, TargetsOK
  <2>. QED  BY <1>1, <2>1, <2>2, <2>3
<1>3. CASE Counted(IF history = <<>> THEN "ok" ELSE "lost") /\ Goto(c, "idle")
           /\ UNCHANGED <<pending, loaded, tgt>>
  <2>1. HandlersType' /\ SharedType'
    BY <1>0, <1>3, CountedType DEF HandlersType, SharedType, Goto, Labels
  <2>2. BusyOK' /\ TargetsOK'
    BY <1>0, <1>3 DEF Goto, HandlersType, BusyOK, Busy, TargetsOK, pages
  <2>. QED  BY <1>1, <2>1, <2>2
<1>. QED  BY <1>2, <1>3 DEF LoadHistory

LEMMA PushEntryType ==
  ASSUME PagesInv, NEW c \in Conns, PushEntry(c)
  PROVE  PagesInv'
<1>. USE DEF PagesInv
<1>0. /\ pc[c] = "push" /\ hconn \in Conns /\ c \in Goroutines /\ tgt[c] # NoConn
      /\ UNCHANGED <<hconn, store, spc>>
  BY ConnsType DEF PushEntry, SharedType, TargetsOK, scheduler
<1>1. PICK o \in {"ok", "error", "panic"} :
        /\ WriteEnds(c, o)
        /\ IF o = "panic" THEN Return(c)
           ELSE /\ Arrives(c, o, Head(pending[c]))
                /\ IF o = "error" \/ Len(pending[c]) = 1
                   THEN /\ Goto(c, "idle") /\ End(c)
                        /\ pending' = [pending EXCEPT ![c] = <<>>]
                   ELSE /\ Begin(c, hconn)
                        /\ pending' = [pending EXCEPT ![c] = Tail(@)]
                        /\ UNCHANGED pc
                /\ UNCHANGED <<msg, loaded>>
  BY DEF PushEntry
<1>2. faults' \in 0 .. MaxFaults
  BY <1>1, WriteEndsType DEF SharedType
<1>3. CASE o = "panic"
  BY <1>0, <1>1, <1>2, <1>3, ReturnType
<1>4. CASE o # "panic"
  <2>1. pending[c] \in Seq(Messages) /\ pending[c] # <<>>
    BY <1>0 DEF HandlersType, BusyOK
  <2>2. /\ Head(pending[c]) \in Shown /\ Tail(pending[c]) \in Seq(Messages)
        /\ Len(pending[c]) # 1 => Tail(pending[c]) # <<>>
    <3>1. /\ Head(pending[c]) \in Messages /\ Tail(pending[c]) \in Seq(Messages)
          /\ Len(Tail(pending[c])) = Len(pending[c]) - 1
      BY <2>1, HeadTailProperties
    <3>2. Len(pending[c]) \in Nat /\ Len(<<>>) = 0
      BY <2>1
    <3>3. Tail(pending[c]) = <<>> => Len(Tail(pending[c])) = 0
      BY <3>2, Zenon
    <3>. QED  BY <3>1, <3>2, <3>3, MessagesShown
  <2>3. PagesType' /\ UNCHANGED <<open, inbox, sent>>
    BY <1>0, <1>1, <1>4, <2>2, ArrivesType
  <2>4. CASE o = "error" \/ Len(pending[c]) = 1
    <3>1. /\ pc' = [pc EXCEPT ![c] = "idle"] /\ tgt' = [tgt EXCEPT ![c] = NoConn]
          /\ pending' = [pending EXCEPT ![c] = <<>>] /\ UNCHANGED <<msg, loaded>>
      BY <1>1, <1>4, <2>4 DEF Goto, End
    <3>2. HandlersType' /\ StoreType' /\ SharedType'
      BY <1>0, <1>2, <3>1 DEF HandlersType, StoreType, SharedType, Labels, store
    <3>3. BusyOK' /\ TargetsOK'
      BY <1>0, <2>3, <3>1, ConnsType DEF HandlersType, SharedType, BusyOK, Busy, TargetsOK
    <3>. QED  BY <2>3, <3>2, <3>3
  <2>5. CASE ~ (o = "error" \/ Len(pending[c]) = 1)
    <3>1. /\ tgt' = [tgt EXCEPT ![c] = hconn]
          /\ pending' = [pending EXCEPT ![c] = Tail(@)] /\ UNCHANGED <<pc, msg, loaded>>
      BY <1>1, <1>4, <2>5 DEF Begin
    <3>2. HandlersType' /\ StoreType' /\ SharedType'
      BY <1>0, <1>2, <2>2, <3>1 DEF HandlersType, StoreType, SharedType, store
    <3>3. BusyOK'
      BY <1>0, <2>2, <2>3, <2>5, <3>1 DEF HandlersType, BusyOK, Busy
    <3>4. TargetsOK'
      BY <1>0, <3>1, ConnsType DEF HandlersType, SharedType, TargetsOK
    <3>. QED  BY <2>3, <3>2, <3>3, <3>4
  <2>. QED  BY <2>4, <2>5
<1>. QED  BY <1>3, <1>4

LEMMA ReceiveType ==
  ASSUME PagesInv, NEW c \in Conns, Receive(c)
  PROVE  PagesInv'
<1>. USE DEF PagesInv
<1>1. /\ pc[c] = "idle" /\ inbox[c] \in Seq(1 .. MaxSent) /\ inbox[c] # <<>>
      /\ UNCHANGED <<hconn, open, shown, sent, pending, loaded, tgt, store, spc, faults>>
  BY DEF Receive, PagesType, scheduler
<1>2. Head(inbox[c]) \in 1 .. MaxSent /\ Tail(inbox[c]) \in Seq(1 .. MaxSent)
  BY <1>1, HeadTailProperties
<1>3. PagesType' /\ HandlersType' /\ StoreType' /\ SharedType'
  BY <1>1, <1>2 DEF Receive, PagesType, HandlersType, StoreType, SharedType, Goto, Labels, store
<1>4. BusyOK' /\ TargetsOK'
  BY <1>1, <1>2 DEF Receive, Goto, HandlersType, BusyOK, Busy, TargetsOK
<1>. QED  BY <1>3, <1>4

\* A step that only moves the goroutine on.
LEMMA AfterSaveType ==
  ASSUME PagesInv, NEW c \in Conns, pc[c] \in {"save", "trim", "saveReply", "trimReply"},
         AfterSave(c), UNCHANGED <<hconn, pages, pending, msg, loaded, spc>>,
         StoreType', faults' \in 0 .. MaxFaults
  PROVE  PagesInv'
<1>. USE DEF PagesInv
<1>0. c \in Goroutines /\ c # NoConn /\ Notifier # c
  BY ConnsType
<1>1. \/ Goto(c, "handle") /\ UNCHANGED tgt
      \/ Goto(c, "reply") /\ Begin(c, c)
  BY DEF AfterSave
<1>2. PagesType' /\ HandlersType' /\ SharedType'
  BY <1>0, <1>1, BeginType DEF PagesType, HandlersType, SharedType, Goto, Labels, pages
<1>3. BusyOK'
  BY <1>1 DEF Goto, HandlersType, BusyOK, Busy, pages
<1>4. TargetsOK'
  BY <1>0, <1>1, ConnsType DEF Goto, Begin, HandlersType, SharedType, TargetsOK
<1>. QED  BY <1>2, <1>3, <1>4

LEMMA SaveTypes ==
  ASSUME PagesInv, NEW c \in Conns, RPush(c) \/ LTrim(c)
  PROVE  PagesInv'
<1>. USE DEF PagesInv
<1>1. CASE RPush(c)
  <2>1. CASE history' = Append(history, Entry(c)) /\ saved' = Append(saved, Entry(c))
             /\ Goto(c, IF pc[c] = "save" THEN "trim" ELSE "trimReply")
             /\ UNCHANGED <<tgt, faults>>
    <3>1. Entry(c) \in Messages
      <4>1. msg[c] \in 1 .. MaxSent
        BY <1>1 DEF RPush, BusyOK, Busy, HandlersType
      <4>. QED  BY <4>1, EntryTypes DEF Entry
    <3>2. StoreType'
      BY <2>1, <3>1, AppendProperties DEF StoreType
    <3>3. pc[c] \in {"save", "saveReply"} /\ UNCHANGED <<hconn, pages, pending, msg, loaded, spc>>
      BY <1>1 DEF RPush, scheduler
    <3>4. PagesType' /\ HandlersType' /\ SharedType'
      BY <2>1, <3>3 DEF Goto, PagesType, HandlersType, SharedType, Labels, pages
    <3>5. BusyOK' /\ TargetsOK'
      BY <2>1, <3>3 DEF Goto, HandlersType, BusyOK, Busy, TargetsOK, pages
    <3>. QED  BY <3>2, <3>4, <3>5
  <2>2. CASE Counted("lost") /\ AfterSave(c) /\ UNCHANGED store
    BY <1>1, <2>2, AfterSaveType, CountedType DEF RPush, StoreType, SharedType, store, scheduler
  <2>. QED  BY <1>1, <2>1, <2>2 DEF RPush
<1>2. CASE LTrim(c)
  <2>1. StoreType'
    <3>1. Newest(history) \in Seq(Messages)
      <4>1. Len(history) \in Nat /\ \A i \in 1 .. Len(history) : history[i] \in Messages
        BY LenProperties, ElementOfSeq DEF StoreType
      <4>2. Len(history) > Cap =>
              SubSeq(history, Len(history) - Cap + 1, Len(history)) \in Seq(Messages)
        BY <4>1, ConnectionAssumption, SubSeqProperties
      <4>. QED  BY <4>2 DEF Newest, StoreType
    <3>. QED  BY <1>2, <3>1 DEF LTrim, StoreType
  <2>2. faults' \in 0 .. MaxFaults
    BY <1>2, CountedType DEF LTrim, SharedType
  <2>. QED  BY <1>2, <2>1, <2>2, AfterSaveType DEF LTrim, scheduler
<1>. QED  BY <1>1, <1>2

LEMMA HandleType ==
  ASSUME PagesInv, NEW c \in Conns, Handle(c)
  PROVE  PagesInv'
<1>. USE DEF PagesInv
<1>0. /\ pc[c] = "handle" /\ hconn \in Conns /\ c \in Goroutines /\ Notifier # c
      /\ UNCHANGED <<hconn, pages, pending, msg, loaded, store, spc, faults>>
      /\ \/ Goto(c, "saveReply") /\ UNCHANGED tgt
         \/ Goto(c, "part") /\ Begin(c, hconn)
  BY ConnsType DEF Handle, SharedType, TargetsOK, scheduler
<1>1. PagesType' /\ HandlersType' /\ StoreType' /\ SharedType'
  BY <1>0, BeginType DEF PagesType, HandlersType, StoreType, SharedType, Goto, Labels, pages, store
<1>2. BusyOK'
  BY <1>0 DEF Goto, HandlersType, BusyOK, Busy, pages
<1>3. TargetsOK'
  BY <1>0, ConnsType DEF Goto, Begin, HandlersType, SharedType, TargetsOK
<1>. QED  BY <1>1, <1>2, <1>3

LEMMA WritePartType ==
  ASSUME PagesInv, NEW c \in Conns, WritePart(c)
  PROVE  PagesInv'
<1>. USE DEF PagesInv
<1>0. /\ pc[c] = "part" /\ c \in Goroutines /\ tgt[c] # NoConn /\ Notifier # c
      /\ UNCHANGED <<hconn, store, spc>>
  BY ConnsType DEF WritePart, TargetsOK, scheduler
<1>1. PICK o \in {"ok", "error", "panic"} :
        /\ WriteEnds(c, o)
        /\ IF o = "panic" THEN Return(c)
           ELSE /\ Arrives(c, o, Part(msg[c]))
                /\ Goto(c, "saveReply") /\ End(c)
                /\ UNCHANGED <<pending, msg, loaded>>
  BY DEF WritePart
<1>2. faults' \in 0 .. MaxFaults
  BY <1>1, WriteEndsType DEF SharedType
<1>3. CASE o = "panic"
  BY <1>0, <1>1, <1>2, <1>3, ReturnType
<1>4. CASE o # "panic"
  <2>1. Part(msg[c]) \in Shown
    BY <1>0, EntryTypes DEF BusyOK, Busy, HandlersType
  <2>2. PagesType' /\ UNCHANGED <<open, inbox, sent>>
    BY <1>0, <1>1, <1>4, <2>1, ArrivesType
  <2>3. /\ pc' = [pc EXCEPT ![c] = "saveReply"] /\ tgt' = [tgt EXCEPT ![c] = NoConn]
        /\ UNCHANGED <<pending, msg, loaded>>
    BY <1>1, <1>4 DEF Goto, End
  <2>4. HandlersType' /\ StoreType' /\ SharedType'
    BY <1>0, <1>2, <2>3 DEF HandlersType, StoreType, SharedType, Labels, store
  <2>5. BusyOK' /\ TargetsOK'
    BY <1>0, <2>2, <2>3, ConnsType DEF HandlersType, SharedType, BusyOK, Busy, TargetsOK
  <2>. QED  BY <2>2, <2>4, <2>5
<1>. QED  BY <1>3, <1>4

LEMMA ReplyType ==
  ASSUME PagesInv, NEW c \in Conns, Reply(c)
  PROVE  PagesInv'
<1>. USE DEF PagesInv
<1>0. /\ pc[c] = "reply" /\ c \in Goroutines /\ tgt[c] \in Conns /\ Notifier # c
      /\ UNCHANGED <<hconn, store, spc>>
  BY ConnsType DEF Reply, TargetsOK, SharedType, scheduler
<1>1. PICK o \in {"ok", "error", "panic"} :
        /\ WriteEnds(c, o)
        /\ IF o = "ok"
           THEN /\ Show(c, Answer(msg[c]))
                /\ Goto(c, "idle") /\ End(c)
                /\ msg' = [msg EXCEPT ![c] = 0]
                /\ UNCHANGED <<pending, loaded>>
           ELSE Return(c)
  BY DEF Reply
<1>2. faults' \in 0 .. MaxFaults
  BY <1>1, WriteEndsType DEF SharedType
<1>3. CASE o # "ok"
  BY <1>0, <1>1, <1>2, <1>3, ReturnType
<1>4. CASE o = "ok"
  <2>1. Answer(msg[c]) \in Shown
    BY <1>0, EntryTypes DEF BusyOK, Busy, HandlersType
  <2>2. PagesType' /\ UNCHANGED <<open, inbox, sent>>
    BY <1>1, <1>4, <2>1, ShowType DEF Show
  <2>3. /\ pc' = [pc EXCEPT ![c] = "idle"] /\ tgt' = [tgt EXCEPT ![c] = NoConn]
        /\ msg' = [msg EXCEPT ![c] = 0] /\ UNCHANGED <<pending, loaded>>
    BY <1>1, <1>4 DEF Goto, End
  <2>4. HandlersType' /\ StoreType' /\ SharedType'
    BY <1>0, <1>2, <2>3, ConnectionAssumption DEF HandlersType, StoreType, SharedType, Labels, store
  <2>5. BusyOK' /\ TargetsOK'
    BY <1>0, <2>2, <2>3, ConnsType DEF HandlersType, SharedType, BusyOK, Busy, TargetsOK
  <2>. QED  BY <2>2, <2>4, <2>5
<1>. QED  BY <1>3, <1>4

LEMMA HandlerType ==
  ASSUME PagesInv, NEW c \in Conns, Handler(c)
  PROVE  PagesInv'
<1>1. CASE ReadFails(c)
  <2>1. Return(c) /\ UNCHANGED <<hconn, store, spc>> /\ faults' \in 0 .. MaxFaults
    BY <1>1 DEF ReadFails, scheduler, PagesInv, SharedType
  <2>. QED  BY <2>1, ReturnType
<1>. QED  BY <1>1, LoadHistoryType, PushEntryType, ReceiveType, SaveTypes, HandleType,
             WritePartType, ReplyType DEF Handler

LEMMA SchedulerTypes ==
  ASSUME PagesInv, Scheduler
  PROVE  PagesInv'
<1>. USE DEF PagesInv
<1>0. Notifier \in Goroutines /\ \A c \in Conns : c \in Goroutines /\ c # Notifier
  BY ConnsType
<1>1. CASE Wake
  BY <1>1 DEF Wake, PagesType, HandlersType, StoreType, SharedType, BusyOK, TargetsOK, pages,
     handlers, store
<1>2. CASE Notify
  <2>1. /\ UNCHANGED <<hconn, pages, handlers, store>> /\ faults' = faults
        /\ \/ spc' = "asleep" /\ tgt' = tgt
           \/ hconn # NoConn /\ Begin(Notifier, hconn)
    BY <1>2 DEF Notify, Sleep
  <2>2. PagesType' /\ HandlersType' /\ StoreType' /\ SharedType' /\ BusyOK'
    BY <1>0, <2>1, BeginType DEF PagesType, HandlersType, StoreType, SharedType, BusyOK, pages,
       handlers, store
  <2>3. TargetsOK'
    BY <1>0, <2>1 DEF TargetsOK, SharedType, Begin, handlers
  <2>. QED  BY <2>2, <2>3
<1>3. CASE SendNotification
  <2>1. PICK o \in {"ok", "error", "panic"} :
          /\ WriteEnds(Notifier, o)
          /\ IF o = "panic" THEN Down
             ELSE /\ Sleep /\ End(Notifier)
                  /\ UNCHANGED <<hconn, pages, handlers, store, checked, world>>
    BY <1>3 DEF SendNotification
  <2>2. faults' \in 0 .. MaxFaults
    BY <2>1, WriteEndsType DEF SharedType
  <2>3. CASE o = "panic"
    BY <2>1, <2>2, <2>3, DownType
  <2>4. CASE o # "panic"
    <3>1. /\ UNCHANGED <<hconn, pages, handlers, store>> /\ spc' = "asleep"
          /\ tgt' = [tgt EXCEPT ![Notifier] = NoConn]
      BY <2>1, <2>4 DEF Sleep, End
    <3>2. PagesType' /\ HandlersType' /\ StoreType' /\ SharedType' /\ BusyOK'
      BY <1>0, <2>2, <3>1 DEF PagesType, HandlersType, StoreType, SharedType, BusyOK, pages,
         handlers, store
    <3>3. TargetsOK'
      BY <1>0, <3>1 DEF TargetsOK, SharedType, handlers
    <3>. QED  BY <3>2, <3>3
  <2>. QED  BY <2>3, <2>4
<1>. QED  BY <1>1, <1>2, <1>3 DEF Scheduler

LEMMA PagesNext ==
  ASSUME PagesInv, Next
  PROVE  PagesInv'
<1>1. CASE ExpireHistory
  <2>1. UNCHANGED <<hconn, pages, handlers, tgt, spc, faults>> /\ history' = <<>> /\ saved' = <<>>
    BY <1>1 DEF ExpireHistory, scheduler
  <2>. QED  BY <2>1 DEF PagesInv, PagesType, HandlersType, StoreType, SharedType, BusyOK,
            TargetsOK, pages, handlers
<1>2. CASE Crash
  BY <1>2, DownType, CountedType DEF Crash, PagesInv, SharedType
<1>3. CASE Restart
  <2>1. UNCHANGED <<hconn, pages, handlers, tgt, store, faults>> /\ spc' = "asleep"
    BY <1>3 DEF Restart, Sleep
  <2>. QED  BY <2>1 DEF PagesInv, PagesType, HandlersType, StoreType, SharedType, BusyOK,
            TargetsOK, pages, handlers, store
<1>4. CASE Tick
  BY <1>4, TypeKept DEF Tick, scheduler
<1>. QED  BY <1>1, <1>2, <1>3, <1>4, UpgradeType, SendType, CloseType, HandlerType, SchedulerTypes
          DEF Next

LEMMA PagesInit == Init => PagesInv
<1>. SUFFICES ASSUME Init  PROVE PagesInv
  OBVIOUS
<1>1. PagesType
  BY ConnectionAssumption DEF Init, PagesType
<1>2. HandlersType /\ StoreType /\ SharedType
  BY ConnectionAssumption DEF Init, HandlersType, StoreType, SharedType, Labels
<1>3. BusyOK /\ TargetsOK
  BY DEF Init, BusyOK, Busy, TargetsOK
<1>. QED  BY <1>1, <1>2, <1>3 DEF PagesInv

LEMMA PagesInductive == PagesInv /\ [Next]_vars => PagesInv'
<1>1. PagesInv /\ UNCHANGED vars => PagesInv'
  BY TypeKept DEF vars, scheduler
<1>. QED  BY <1>1, PagesNext

\* The variables have their types, for any number of pages, messages and
\* failures.
THEOREM TypeCorrect == Spec => []TypeOK
<1>1. PagesInv /\ SchedulerInv => TypeOK
  BY TypeParts DEF PagesInv, SchedulerInv
<1>. QED  BY <1>1, PagesInit, PagesInductive, SchedulerInit, SchedulerInductive, PTL DEF Spec
-----------------------------------------------------------------------------
(* The history: what is left of it, and how long it is.                    *)

\* The goroutines between RPUSH and LTRIM.
Trimming == {c \in Conns : pc[c] \in {"trim", "trimReply"}}

\* s is what t ends with.
Tails(s, t) ==
  Len(s) <= Len(t) /\ \A i \in 1 .. Len(s) : s[i] = t[Len(t) - Len(s) + i]

RecentInv ==
  /\ Tails(history, saved)
  /\ Len(history) >= (IF Len(saved) < Cap THEN Len(saved) ELSE Cap)
  /\ Len(history) <= Cap + Cardinality(Trimming) + faults * Cardinality(Conns)

LEMMA TailIsSuffix ==
  ASSUME NEW S, NEW s \in Seq(S), NEW t \in Seq(S), Tails(s, t)
  PROVE  IsSuffix(s, t)
<1>. DEFINE m == Len(s)
            n == Len(t)
            rs == Reverse(s)
            rt == Reverse(t)
<1>1. m \in Nat /\ n \in Nat /\ m <= n
  BY LenProperties DEF Tails
<1>2. /\ \A i \in 1 .. m : s[i] \in S
      /\ \A i \in 1 .. n : t[i] \in S
  BY ElementOfSeq
<1>3. rs = [i \in 1 .. m |-> s[(m - i) + 1]] /\ rt = [i \in 1 .. n |-> t[(n - i) + 1]]
  BY Zenon DEF Reverse
<1>4. rs \in Seq(S) /\ rt \in Seq(S) /\ Len(rs) = m /\ Len(rt) = n
  <2>. HIDE DEF rs, rt, m, n
  <2>1. rs \in [1 .. m -> S] /\ rt \in [1 .. n -> S]
    <3>1. \A i \in 1 .. m : (m - i) + 1 \in 1 .. m
      BY <1>1
    <3>2. \A i \in 1 .. n : (n - i) + 1 \in 1 .. n
      BY <1>1
    <3>. QED  BY <1>2, <1>3, <3>1, <3>2 DEF m, n
  <2>2. /\ rs \in Seq(S)
        /\ rt \in Seq(S)
    <3>1. rs \in Seq(S)
      BY <1>1, <2>1, SeqDef, Zenon
    <3>2. n \in Nat /\ rt \in [1 .. n -> S]
      BY <1>1, <2>1
    <3>3. rt \in Seq(S)
      BY <3>2, SeqDef, Zenon
    <3>. QED  BY <3>1, <3>3
  <2>3. DOMAIN rs = 1 .. m /\ DOMAIN rt = 1 .. n
    BY <1>3
  <2>. QED  BY <1>1, <2>2, <2>3, LenProperties
<1>5. \A i \in 1 .. m : rs[i] = rt[i]
  <2>1. TAKE i \in 1 .. m
  <2>2. /\ m - i + 1 \in 1 .. m /\ n - m + (m - i + 1) = n - i + 1
        /\ i \in 1 .. n
    BY <1>1
  <2>3. s[m - i + 1] = t[n - m + (m - i + 1)]
    BY <2>2 DEF Tails
  <2>. QED  BY <1>3, <2>2, <2>3
<1>6. SubSeq(rs, 1, m) = SubSeq(rt, 1, m)
  <2>. HIDE DEF rs, rt, m, n
  <2>1. \A i \in 1 .. m : rs[i] \in S /\ rt[i] \in S
    BY <1>1, <1>4, ElementOfSeq
  <2>2. /\ SubSeq(rs, 1, m) = [i \in 1 .. m |-> rs[i]]
        /\ SubSeq(rt, 1, m) = [i \in 1 .. m |-> rt[i]]
    BY <1>1, <1>4, <2>1
  <2>. QED  BY <1>5, <2>2
<1>7. IsPrefix(rs, rt)
  <2>. HIDE DEF rs, rt, m, n
  <2>. QED  BY <1>1, <1>4, <1>6 DEF IsPrefix
<1>. QED  BY <1>7, Zenon DEF IsSuffix

LEMMA TailGrows ==
  ASSUME NEW S, NEW s \in Seq(S), NEW t \in Seq(S), NEW x \in S, Tails(s, t)
  PROVE  Tails(Append(s, x), Append(t, x))
<1>1. /\ Len(s) \in Nat /\ Len(t) \in Nat /\ Len(s) <= Len(t)
      /\ Len(Append(s, x)) = Len(s) + 1 /\ Len(Append(t, x)) = Len(t) + 1
  BY AppendProperties, LenProperties DEF Tails
<1>2. ASSUME NEW i \in 1 .. Len(s) + 1
      PROVE  Append(s, x)[i] = Append(t, x)[Len(t) + 1 - (Len(s) + 1) + i]
  <2>1. CASE i = Len(s) + 1
    BY <1>1, <2>1, AppendProperties
  <2>2. CASE i # Len(s) + 1
    <3>1. i \in 1 .. Len(s) /\ Len(t) - Len(s) + i \in 1 .. Len(t)
          /\ Len(t) + 1 - (Len(s) + 1) + i = Len(t) - Len(s) + i
      BY <1>1, <2>2
    <3>2. s[i] = t[Len(t) - Len(s) + i]
      BY <3>1 DEF Tails
    <3>3. Append(s, x)[i] = s[i]
      BY <3>1, AppendProperties
    <3>4. Append(t, x)[Len(t) - Len(s) + i] = t[Len(t) - Len(s) + i]
      BY <3>1, AppendProperties
    <3>. QED  BY <3>1, <3>2, <3>3, <3>4
  <2>. QED  BY <2>1, <2>2
<1>. QED  BY <1>1, <1>2 DEF Tails

LEMMA TailOfTail ==
  ASSUME NEW S, NEW s \in Seq(S), NEW t \in Seq(S), Tails(s, t)
  PROVE  /\ Newest(s) \in Seq(S) /\ Tails(Newest(s), t)
         /\ Len(Newest(s)) = IF Len(s) > Cap THEN Cap ELSE Len(s)
<1>1. Len(s) \in Nat /\ Len(t) \in Nat /\ Len(s) <= Len(t) /\ Cap \in Nat \ {0}
  BY LenProperties, ConnectionAssumption DEF Tails
<1>2. CASE Len(s) <= Cap
  BY <1>1, <1>2 DEF Newest
<1>3. CASE Len(s) > Cap
  <2>. DEFINE k == Len(s) - Cap
              r == SubSeq(s, k + 1, Len(s))
  <2>1. k \in Nat /\ k + Cap = Len(s) /\ Len(s) - (k + 1) + 1 = Cap
    BY <1>1, <1>3
  <2>2. \A i \in 1 .. Len(s) : s[i] \in S
    BY ElementOfSeq
  <2>3. r \in Seq(S) /\ Len(r) = Cap /\ \A i \in 1 .. Cap : r[i] = s[k + i]
    <3>. HIDE DEF k
    <3>1. r \in Seq(S)
      BY <1>1, <2>1, <2>2, SubSeqProperties
    <3>2. Len(r) = Cap
      BY <1>1, <2>1, <2>2, SubSeqProperties
    <3>3. r = [i \in 1 .. Cap |-> s[k + i]]
      <4>1. r = [i \in 1 .. (1 + Len(s) - (k + 1)) |-> s[k + 1 + i - 1]]
        BY <1>1, <2>1, <2>2
      <4>2. 1 + Len(s) - (k + 1) = Cap /\ \A i \in 1 .. Cap : k + 1 + i - 1 = k + i
        BY <1>1, <2>1
      <4>. QED  BY <4>1, <4>2
    <3>. QED  BY <3>1, <3>2, <3>3
  <2>4. ASSUME NEW i \in 1 .. Cap  PROVE r[i] = t[Len(t) - Cap + i]
    <3>1. k + i \in 1 .. Len(s) /\ Len(t) - Len(s) + (k + i) = Len(t) - Cap + i
      BY <1>1, <2>1
    <3>2. s[k + i] = t[Len(t) - Len(s) + (k + i)]
      BY <3>1 DEF Tails
    <3>. QED  BY <2>3, <3>1, <3>2
  <2>5. Newest(s) = r
    BY <1>1, <1>3 DEF Newest
  <2>. HIDE DEF r, k
  <2>. QED  BY <1>1, <1>3, <2>3, <2>4, <2>5 DEF Tails
<1>. QED  BY <1>1, <1>2, <1>3

LEMMA ConnsFinite ==
  /\ IsFiniteSet(Conns) /\ Cardinality(Conns) \in Nat
  /\ \A T \in SUBSET Conns : IsFiniteSet(T) /\ Cardinality(T) \in Nat
                             /\ Cardinality(T) <= Cardinality(Conns)
<1>1. MaxConns \in Int /\ 1 \in Int
  BY ConnectionAssumption
<1>2. IsFiniteSet(Conns)
  BY <1>1, FS_Interval DEF Conns
<1>. QED  BY <1>2, FS_Subset, FS_CardinalityType

\* A goroutine that neither comes to LTRIM nor leaves it.
LEMMA TrimmingKept ==
  ASSUME NEW c \in Conns, HandlersType,
         NEW label, label \notin {"trim", "trimReply"}, pc[c] \notin {"trim", "trimReply"},
         Goto(c, label)
  PROVE  Trimming' = Trimming
BY DEF Goto, Trimming, HandlersType

\* What the steps of a goroutine other than RPUSH and LTRIM do to the store.
Aside ==
  /\ UNCHANGED store
  /\ (faults' = faults /\ Trimming' = Trimming) \/ faults' = faults + 1

LEMMA ReturnAside ==
  ASSUME NEW c \in Conns, HandlersType, pc[c] \notin {"trim", "trimReply"}, Return(c)
  PROVE  Trimming' = Trimming
BY TrimmingKept DEF Return

LEMMA WriteCounts ==
  ASSUME NEW g, NEW o, WriteEnds(g, o)
  PROVE  faults' = faults \/ faults' = faults + 1
BY DEF WriteEnds, Counted

LEMMA HandlerAside ==
  ASSUME PagesInv, NEW c \in Conns, Handler(c)
  PROVE  Aside \/ RPush(c) \/ LTrim(c)
<1>. USE DEF PagesInv
<1>1. CASE LoadHistory(c)
  BY <1>1, TrimmingKept DEF LoadHistory, Counted, Aside
<1>2. CASE PushEntry(c)
  <2>1. PICK o \in {"ok", "error", "panic"} :
          /\ WriteEnds(c, o)
          /\ Return(c) \/ Goto(c, "idle") \/ UNCHANGED pc
    BY <1>2 DEF PushEntry
  <2>2. pc[c] = "push" /\ UNCHANGED store
    BY <1>2 DEF PushEntry
  <2>3. Trimming' = Trimming
    BY <2>1, <2>2, TrimmingKept, ReturnAside DEF Trimming
  <2>. QED  BY <2>1, <2>2, <2>3, WriteCounts DEF Aside
<1>3. CASE Receive(c)
  BY <1>3, TrimmingKept DEF Receive, Aside
<1>4. CASE ReadFails(c)
  BY <1>4, ReturnAside DEF ReadFails, Aside
<1>5. CASE Handle(c)
  BY <1>5, TrimmingKept DEF Handle, Aside
<1>6. CASE WritePart(c)
  <2>1. PICK o \in {"ok", "error", "panic"} :
          /\ WriteEnds(c, o)
          /\ Return(c) \/ Goto(c, "saveReply")
    BY <1>6 DEF WritePart
  <2>2. pc[c] = "part" /\ UNCHANGED store
    BY <1>6 DEF WritePart
  <2>. QED  BY <2>1, <2>2, TrimmingKept, ReturnAside, WriteCounts DEF Aside
<1>7. CASE Reply(c)
  <2>1. PICK o \in {"ok", "error", "panic"} :
          /\ WriteEnds(c, o)
          /\ Return(c) \/ Goto(c, "idle")
    BY <1>7 DEF Reply
  <2>2. pc[c] = "reply" /\ UNCHANGED store
    BY <1>7 DEF Reply
  <2>. QED  BY <2>1, <2>2, TrimmingKept, ReturnAside, WriteCounts DEF Aside
<1>. QED  BY <1>1, <1>2, <1>3, <1>4, <1>5, <1>6, <1>7 DEF Handler

LEMMA NextAside ==
  ASSUME PagesInv, Next
  PROVE  Aside \/ ExpireHistory \/ \E c \in Conns : RPush(c) \/ LTrim(c)
<1>. USE DEF PagesInv
<1>1. ASSUME NEW c \in Conns, Upgrade(c)  PROVE Aside
  BY <1>1, TrimmingKept DEF Upgrade, IsNext, Aside
<1>2. ASSUME NEW c \in Conns, Send(c) \/ ClosePage(c)  PROVE Aside
  BY <1>2 DEF Send, ClosePage, handlers, Trimming, Aside
<1>3. CASE Scheduler
  <2>1. CASE Wake \/ Notify
    BY <2>1 DEF Wake, Notify, handlers, Trimming, Aside
  <2>2. CASE SendNotification
    <3>1. PICK o \in {"ok", "error", "panic"} :
            /\ WriteEnds(Notifier, o)
            /\ IF o = "panic" THEN Down ELSE UNCHANGED <<store, handlers>>
      BY <2>2 DEF SendNotification
    <3>2. CASE o = "panic"
      BY <3>1, <3>2 DEF WriteEnds, Counted, Down, Aside
    <3>3. CASE o # "panic"
      BY <3>1, <3>3, WriteCounts DEF handlers, Trimming, Aside
    <3>. QED  BY <3>2, <3>3
  <2>. QED  BY <1>3, <2>1, <2>2 DEF Scheduler
<1>4. CASE Crash
  BY <1>4 DEF Crash, Counted, Down, Aside
<1>5. CASE Restart \/ Tick
  BY <1>5 DEF Restart, Tick, handlers, Trimming, Aside
<1>. QED  BY <1>1, <1>2, <1>3, <1>4, <1>5, HandlerAside DEF Next

LEMMA TrimmingCounts ==
  PagesInv => /\ Trimming \in SUBSET Conns /\ IsFiniteSet(Trimming)
              /\ Cardinality(Trimming) \in Nat /\ Cardinality(Trimming) <= Cardinality(Conns)
BY ConnsFinite DEF Trimming

\* A longer history, or a broken pipeline, is paid for by one more fault.
LEMMA AsideKeeps ==
  ASSUME PagesInv, RecentInv, Aside, PagesInv'
  PROVE  RecentInv'
<1>. DEFINE n == Cardinality(Conns)
<1>1. /\ n \in Nat /\ faults \in Nat /\ Len(history) \in Nat /\ Cap \in Nat
      /\ Cardinality(Trimming) \in Nat /\ Cardinality(Trimming) <= n
      /\ Cardinality(Trimming') \in Nat
  <2>1. n \in Nat /\ faults \in Nat /\ Len(history) \in Nat /\ Cap \in Nat
    BY ConnsFinite, ConnectionAssumption, LenProperties DEF PagesInv, SharedType, StoreType
  <2>2. Trimming' \in SUBSET Conns
    BY DEF Trimming
  <2>. QED  BY <2>1, <2>2, ConnsFinite, TrimmingCounts
<1>2. faults * n \in Nat /\ (faults + 1) * n = faults * n + n
  BY <1>1
<1>3. Len(history) <= Cap + Cardinality(Trimming') + faults' * n
  <2>. DEFINE k == faults * n
              a == Cardinality(Trimming)
              b == Cardinality(Trimming')
  <2>1. k \in Nat /\ Len(history) <= Cap + a + k
    BY <1>2 DEF RecentInv
  <2>2. (b = a /\ faults' * n = k) \/ faults' * n = k + n
    BY <1>2 DEF Aside
  <2>. HIDE DEF k, a, b, n
  <2>. QED  BY <1>1, <2>1, <2>2 DEF a, b
<1>4. history' = history /\ saved' = saved
  BY DEF Aside, store
<1>. QED  BY <1>3, <1>4 DEF RecentInv, Tails

LEMMA RPushKeeps ==
  ASSUME PagesInv, RecentInv, PagesInv', NEW c \in Conns, RPush(c)
  PROVE  RecentInv'
<1>1. CASE UNCHANGED store /\ Counted("lost")
  BY <1>1, AsideKeeps DEF Aside, Counted
<1>2. CASE /\ history' = Append(history, Entry(c)) /\ saved' = Append(saved, Entry(c))
           /\ Goto(c, IF pc[c] = "save" THEN "trim" ELSE "trimReply")
           /\ UNCHANGED faults
  <2>1. Entry(c) \in Messages
    <3>1. msg[c] \in 1 .. MaxSent
      BY DEF RPush, PagesInv, BusyOK, Busy, HandlersType
    <3>. QED  BY <3>1, EntryTypes DEF Entry
  <2>2. /\ history \in Seq(Messages) /\ saved \in Seq(Messages)
        /\ Len(history) \in Nat /\ Len(saved) \in Nat
        /\ Len(history') = Len(history) + 1 /\ Len(saved') = Len(saved) + 1
    BY <1>2, <2>1, AppendProperties, LenProperties DEF PagesInv, StoreType
  <2>3. Tails(history', saved')
    <3>1. Tails(Append(history, Entry(c)), Append(saved, Entry(c)))
      BY <2>1, <2>2, TailGrows DEF RecentInv
    <3>. QED  BY <1>2, <3>1, Zenon
  <2>4. Cardinality(Trimming') = Cardinality(Trimming) + 1
    <3>1. Trimming' = Trimming \union {c} /\ c \notin Trimming
      BY <1>2 DEF RPush, Goto, Trimming, PagesInv, HandlersType
    <3>. QED  BY <3>1, TrimmingCounts, FS_AddElement
  <2>5. faults' * Cardinality(Conns) = faults * Cardinality(Conns)
    BY <1>2
  <2>6. faults * Cardinality(Conns) \in Nat /\ Cardinality(Trimming) \in Nat /\ Cap \in Nat
    BY ConnsFinite, TrimmingCounts, ConnectionAssumption DEF PagesInv, SharedType
  <2>7. Len(history') <= Cap + Cardinality(Trimming') + faults' * Cardinality(Conns)
    BY <2>2, <2>4, <2>5, <2>6 DEF RecentInv
  <2>8. Len(history') >= (IF Len(saved') < Cap THEN Len(saved') ELSE Cap)
    BY <2>2, <2>6 DEF RecentInv
  <2>. QED  BY <2>3, <2>7, <2>8 DEF RecentInv, Tails
<1>. QED  BY <1>1, <1>2 DEF RPush

LEMMA LTrimKeeps ==
  ASSUME PagesInv, RecentInv, PagesInv', NEW c \in Conns, LTrim(c)
  PROVE  RecentInv'
<1>1. CASE UNCHANGED history /\ Counted("lost")
  BY <1>1, AsideKeeps DEF LTrim, Aside, Counted, store
<1>2. CASE history' = Newest(history) /\ UNCHANGED faults
  <2>1. /\ history \in Seq(Messages) /\ saved \in Seq(Messages) /\ saved' = saved
        /\ Len(history) \in Nat /\ Len(saved) \in Nat /\ Tails(history, saved)
    BY LenProperties DEF PagesInv, StoreType, RecentInv, LTrim
  <2>2. /\ Tails(Newest(history), saved)
        /\ Len(Newest(history)) = IF Len(history) > Cap THEN Cap ELSE Len(history)
    BY <2>1, TailOfTail
  <2>3. Tails(history', saved') /\ Len(history') = IF Len(history) > Cap THEN Cap ELSE Len(history)
    BY <1>2, <2>1, <2>2, Zenon
  <2>4. faults' * Cardinality(Conns) \in Nat /\ Cardinality(Trimming') \in Nat /\ Cap \in Nat
    <3>1. faults' \in Nat /\ Trimming' \in SUBSET Conns
      BY DEF PagesInv, SharedType, Trimming
    <3>. QED  BY <3>1, ConnsFinite, ConnectionAssumption
  <2>5. Len(history') <= Cap + Cardinality(Trimming') + faults' * Cardinality(Conns)
    BY <2>1, <2>3, <2>4
  <2>6. Len(history') >= (IF Len(saved') < Cap THEN Len(saved') ELSE Cap)
    BY <2>1, <2>3, <2>4 DEF RecentInv
  <2>. QED  BY <2>3, <2>5, <2>6 DEF RecentInv, Tails
<1>. QED  BY <1>1, <1>2 DEF LTrim

LEMMA RecentInductive == PagesInv /\ RecentInv /\ PagesInv' /\ [Next]_vars => RecentInv'
<1>. SUFFICES ASSUME PagesInv, RecentInv, PagesInv', [Next]_vars  PROVE RecentInv'
  OBVIOUS
<1>1. CASE UNCHANGED vars
  BY <1>1, AsideKeeps DEF vars, handlers, Trimming, Aside
<1>2. CASE ExpireHistory
  <2>1. history' = <<>> /\ saved' = <<>>
    BY <1>2 DEF ExpireHistory
  <2>2. faults' \in Nat /\ Trimming' \in SUBSET Conns /\ Len(<<>>) = 0
    BY DEF PagesInv, SharedType, Trimming
  <2>3. faults' * Cardinality(Conns) \in Nat /\ Cardinality(Trimming') \in Nat /\ Cap \in Nat \ {0}
    BY <2>2, ConnsFinite, ConnectionAssumption
  <2>. QED  BY <2>1, <2>2, <2>3 DEF RecentInv, Tails
<1>. QED  BY <1>1, <1>2, NextAside, AsideKeeps, RPushKeeps, LTrimKeeps

LEMMA RecentInit == Init => RecentInv
<1>. SUFFICES ASSUME Init  PROVE RecentInv
  OBVIOUS
<1>1. history = <<>> /\ saved = <<>> /\ faults = 0 /\ Len(<<>>) = 0
  BY DEF Init
<1>2. Trimming \in SUBSET Conns
  BY DEF Trimming
<1>3. faults * Cardinality(Conns) \in Nat /\ Cardinality(Trimming) \in Nat /\ Cap \in Nat \ {0}
  BY <1>1, <1>2, ConnsFinite, ConnectionAssumption
<1>. QED  BY <1>1, <1>3 DEF RecentInv, Tails

\* AddMessage keeps the newest messages of the history, whatever the order in
\* which the pipelines of several pages come to RPUSH and LTRIM, and however
\* many of them break off.
THEOREM HistoryKeepsNewest == Spec => []HistoryIsRecent
<1>1. PagesInv /\ RecentInv => HistoryIsRecent
  <2>. SUFFICES ASSUME PagesInv, RecentInv  PROVE HistoryIsRecent
    OBVIOUS
  <2>1. IsSuffix(history, saved)
    BY TailIsSuffix DEF PagesInv, StoreType, RecentInv
  <2>. QED  BY <2>1 DEF RecentInv, HistoryIsRecent, Trimming
<1>. QED  BY <1>1, PagesInit, PagesInductive, RecentInit, RecentInductive, PTL DEF Spec
-----------------------------------------------------------------------------
(* What a page shows of the history.                                       *)

Holds(c, n) == msg[c] = n \/ n \in ToSet(inbox[c])

\* A message is on its way to one goroutine only, and once.
OneBearer ==
  /\ \A c \in Conns, n \in 1 .. MaxSent : Holds(c, n) => n <= sent
  /\ \A c, d \in Conns, n \in 1 .. MaxSent : Holds(c, n) /\ Holds(d, n) => c = d
  /\ \A c \in Conns :
       /\ msg[c] \notin ToSet(inbox[c])
       /\ \A i, j \in DOMAIN inbox[c] : inbox[c][i] = inbox[c][j] => i = j

\* Nothing more is written of the answer to message n but the answer itself.
Settled(n) ==
  /\ n <= sent
  /\ \A c \in Conns : /\ n \notin ToSet(inbox[c])
                      /\ msg[c] = n => pc[c] \in {"trimReply", "reply"}

AnswersSettled ==
  \A n \in 1 .. MaxSent :
    \/ Answer(n) \in ToSet(history)
    \/ \E c \in Conns : Answer(n) \in ToSet(loaded[c])
    => Settled(n)

\* list shows the first k entries of l, and the user's among them in order.
Covers(list, l, k) ==
  /\ \A i \in 1 .. k : l[i] \in ToSet(list)
  /\ \A i, j \in 1 .. k :
       i < j /\ l[i].from = "user" /\ l[j].from = "user" =>
         \E p, q \in DOMAIN list : p < q /\ list[p] = l[i] /\ list[q] = l[j]

\* What goroutine c has pushed so far.
Pushed(c) == Len(loaded[c]) - Len(pending[c])

InOrder ==
  \A c, d \in Conns : c < d /\ pc[c] = "new" => pc[d] = "new"

Newer(c) == {d \in Conns : d > c /\ pc[d] # "new"}

\* The page opened last is h.conn, and shows what was pushed of the history.
Hydrating(c) ==
  open[c] /\ Newer(c) = {} =>
    /\ hconn = c
    /\ faults = 0 =>
         /\ pc[c] = "push" => tgt[c] = c
         /\ Pushed(c) \in Nat
         /\ \A i \in DOMAIN pending[c] : pending[c][i] = loaded[c][Pushed(c) + i]
         /\ Covers(shown[c], loaded[c], Pushed(c))

PageInv ==
  /\ OneBearer /\ AnswersSettled /\ InOrder
  /\ \A c \in Conns : Hydrating(c)

LEMMA CoversAppend ==
  ASSUME NEW list \in Seq(Shown), NEW x \in Shown, NEW l, NEW k \in Nat, Covers(list, l, k)
  PROVE  Covers(Append(list, x), l, k)
<1>1. /\ Len(list) \in Nat /\ DOMAIN list = 1 .. Len(list)
      /\ DOMAIN Append(list, x) = 1 .. Len(list) + 1
      /\ \A i \in 1 .. Len(list) : Append(list, x)[i] = list[i]
  BY AppendProperties, LenProperties
<1>2. \A i \in DOMAIN list : i \in DOMAIN Append(list, x) /\ Append(list, x)[i] = list[i]
  BY <1>1
<1>. DEFINE new == Append(list, x)
<1>. HIDE DEF new
<1>3. \A i \in DOMAIN list : i \in DOMAIN new /\ new[i] = list[i]
  BY <1>2 DEF new
<1>4. \A i \in 1 .. k : l[i] \in ToSet(new)
  BY <1>3 DEF Covers, ToSet
<1>5. ASSUME NEW i \in 1 .. k, NEW j \in 1 .. k, i < j, l[i].from = "user", l[j].from = "user"
      PROVE  \E p, q \in DOMAIN new : p < q /\ new[p] = l[i] /\ new[q] = l[j]
  <2>1. PICK p \in DOMAIN list, q \in DOMAIN list :
          p < q /\ list[p] = l[i] /\ list[q] = l[j]
    BY <1>5 DEF Covers
  <2>. QED  BY <1>3, <2>1
<1>. QED  BY <1>4, <1>5 DEF Covers, new

\* An entry that arrives keeps its place, and every other one too, but for the
\* entries it replaces.
LEMMA MergedShape ==
  ASSUME NEW list \in Seq(Shown), NEW entry \in Shown
  PROVE  LET new == Merged(list, entry) IN
         /\ \A i \in DOMAIN list :
              /\ i \in DOMAIN new
              /\ \/ new[i] = list[i]
                 \/ /\ entry.from # "user" /\ list[i].from # "user" /\ list[i].n = entry.n
                    /\ new[i] = entry
         /\ \E i \in DOMAIN new : new[i] = entry
         /\ entry.from = "user" =>
              \E q \in DOMAIN new : new[q] = entry /\ \A p \in DOMAIN list : p < q
<1>1. Len(list) \in Nat /\ DOMAIN list = 1 .. Len(list)
  BY LenProperties
<1>. DEFINE same == {i \in DOMAIN list : list[i].n = entry.n /\ list[i].from # "user"}
            new == Merged(list, entry)
<1>2. CASE entry.from = "user" \/ same = {}
  <2>1. new = Append(list, entry)
    BY <1>2, Zenon DEF Merged
  <2>2. /\ DOMAIN Append(list, entry) = 1 .. Len(list) + 1
        /\ \A i \in 1 .. Len(list) : Append(list, entry)[i] = list[i]
        /\ Append(list, entry)[Len(list) + 1] = entry
    BY AppendProperties, LenProperties
  <2>3. /\ DOMAIN new = 1 .. Len(list) + 1
        /\ \A i \in 1 .. Len(list) : new[i] = list[i]
        /\ new[Len(list) + 1] = entry
    BY <2>1, <2>2, Zenon
  <2>. HIDE DEF new
  <2>4. Len(list) + 1 \in DOMAIN new /\ \A p \in DOMAIN list : p < Len(list) + 1
    BY <1>1, <2>3
  <2>5. \A i \in DOMAIN list : i \in DOMAIN new /\ new[i] = list[i]
    BY <1>1, <2>3
  <2>. QED  BY <2>3, <2>4, <2>5 DEF new
<1>3. CASE ~ (entry.from = "user" \/ same = {})
  <2>1. new = [i \in DOMAIN list |-> IF i \in same THEN entry ELSE list[i]]
    BY <1>3, Zenon DEF Merged
  <2>2. PICK i \in DOMAIN list : i \in same
    BY <1>3
  <2>. HIDE DEF new
  <2>3. DOMAIN new = DOMAIN list /\ new[i] = entry
    BY <2>1, <2>2
  <2>4. \A j \in DOMAIN list : new[j] = list[j] \/ (j \in same /\ new[j] = entry)
    BY <2>1
  <2>. QED  BY <1>3, <2>3, <2>4 DEF new
<1>. QED  BY <1>2, <1>3

\* What arrives and is no part of an answer in l leaves the others of l.
LEMMA CoversMerged ==
  ASSUME NEW list \in Seq(Shown), NEW entry \in Shown, NEW l, NEW k \in Nat,
         Covers(list, l, k),
         \A i \in 1 .. k : l[i].from # "user" /\ entry.from # "user" /\ l[i].n = entry.n
                             => l[i] = entry
  PROVE  Covers(Merged(list, entry), l, k)
<1>. DEFINE new == Merged(list, entry)
<1>1. \A i \in DOMAIN list :
        /\ i \in DOMAIN new
        /\ \/ new[i] = list[i]
           \/ /\ entry.from # "user" /\ list[i].from # "user" /\ list[i].n = entry.n
              /\ new[i] = entry
  BY MergedShape, Zenon
<1>. HIDE DEF new
<1>2. ASSUME NEW i \in 1 .. k  PROVE l[i] \in ToSet(new)
  <2>1. PICK p \in DOMAIN list : list[p] = l[i]
    BY DEF Covers, ToSet
  <2>2. p \in DOMAIN new /\ new[p] = l[i]
    BY <1>1, <2>1
  <2>. QED  BY <2>2 DEF ToSet
<1>3. ASSUME NEW i \in 1 .. k, NEW j \in 1 .. k, i < j, l[i].from = "user", l[j].from = "user"
      PROVE  \E p, q \in DOMAIN new : p < q /\ new[p] = l[i] /\ new[q] = l[j]
  <2>1. PICK p \in DOMAIN list, q \in DOMAIN list :
          p < q /\ list[p] = l[i] /\ list[q] = l[j]
    BY <1>3 DEF Covers
  <2>2. p \in DOMAIN new /\ new[p] = l[i] /\ q \in DOMAIN new /\ new[q] = l[j]
    BY <1>1, <1>3, <2>1
  <2>. QED  BY <2>1, <2>2
<1>. QED  BY <1>2, <1>3 DEF Covers, new

\* The next entry of l arrives.
LEMMA CoversNext ==
  ASSUME NEW list \in Seq(Shown), NEW l \in Seq(Messages), NEW k \in Nat,
         k + 1 \in 1 .. Len(l), Covers(list, l, k)
  PROVE  Covers(Merged(list, l[k + 1]), l, k + 1)
<1>. DEFINE entry == l[k + 1]
            new == Merged(list, entry)
<1>1. /\ \A i \in 1 .. k + 1 : l[i] \in Messages
      /\ entry \in Messages /\ entry \in Shown
  <2>1. \A i \in 1 .. Len(l) : l[i] \in Messages
    BY ElementOfSeq
  <2>. QED  BY <2>1, MessagesShown
<1>2. Covers(new, l, k)
  <2>1. \A i \in 1 .. k : l[i].from # "user" /\ entry.from # "user" /\ l[i].n = entry.n
                            => l[i] = entry
    <3>1. \A a, b \in Messages : a.from # "user" /\ b.from # "user" /\ a.n = b.n => a = b
      BY DEF Messages, Mine, Answer
    <3>. QED  BY <1>1, <3>1
  <2>. HIDE DEF entry
  <2>. QED  BY <1>1, <2>1, CoversMerged
<1>3. /\ \E i \in DOMAIN new : new[i] = entry
      /\ entry.from = "user" =>
           \E q \in DOMAIN new : new[q] = entry /\ \A p \in DOMAIN list : p < q
      /\ \A i \in DOMAIN list :
           /\ i \in DOMAIN new
           /\ list[i].from = "user" => new[i] = list[i]
  <2>. HIDE DEF entry
  <2>1. LET m == Merged(list, entry) IN
         /\ \A i \in DOMAIN list :
              /\ i \in DOMAIN m
              /\ \/ m[i] = list[i]
                 \/ /\ entry.from # "user" /\ list[i].from # "user" /\ list[i].n = entry.n
                    /\ m[i] = entry
         /\ \E i \in DOMAIN m : m[i] = entry
         /\ entry.from = "user" =>
              \E q \in DOMAIN m : m[q] = entry /\ \A p \in DOMAIN list : p < q
    BY <1>1, MergedShape, Zenon
  <2>. QED  BY <2>1, Zenon
<1>. HIDE DEF new
<1>4. \A i \in 1 .. k + 1 : i \in 1 .. k \/ i = k + 1
  OBVIOUS
<1>5. \A i \in 1 .. k + 1 : l[i] \in ToSet(new)
  BY <1>2, <1>3, <1>4 DEF Covers, ToSet
<1>6. ASSUME NEW i \in 1 .. k + 1, NEW j \in 1 .. k + 1, i < j,
             l[i].from = "user", l[j].from = "user"
      PROVE  \E p, q \in DOMAIN new : p < q /\ new[p] = l[i] /\ new[q] = l[j]
  <2>1. i \in 1 .. k
    BY <1>6
  <2>2. CASE j \in 1 .. k
    BY <1>2, <1>6, <2>1, <2>2 DEF Covers
  <2>3. CASE j = k + 1
    <3>1. PICK q \in DOMAIN new : new[q] = entry /\ \A p \in DOMAIN list : p < q
      BY <1>3, <1>6, <2>3
    <3>2. PICK p \in DOMAIN list : list[p] = l[i]
      BY <2>1 DEF Covers, ToSet
    <3>3. p \in DOMAIN new /\ new[p] = l[i]
      BY <1>3, <1>6, <3>2
    <3>. QED  BY <2>3, <3>1, <3>2, <3>3
  <2>. QED  BY <1>4, <2>2, <2>3
<1>. QED  BY <1>5, <1>6 DEF Covers, new

-----------------------------------------------------------------------------
(* What a step of a goroutine leaves alone.                                *)

\* Goroutine c has done something to itself only.
Local(c) ==
  /\ hconn' = hconn /\ sent' = sent
  /\ faults' \in {faults, faults + 1}
  /\ pc[c] # "new" /\ pc'[c] # "new"
  /\ \A d \in Conns : open'[d] => open[d]
  /\ \A d \in Conns \ {c} :
       /\ pc'[d] = pc[d] /\ pending'[d] = pending[d] /\ loaded'[d] = loaded[d]
       /\ msg'[d] = msg[d] /\ inbox'[d] = inbox[d] /\ tgt'[d] = tgt[d]

LEMMA ReturnLocal ==
  ASSUME PagesInv, NEW c \in Conns, pc[c] # "new", Return(c), hconn' = hconn,
         faults' \in {faults, faults + 1}
  PROVE  Local(c)
BY ConnsType DEF Return, Goto, End, Gone, Local, PagesInv, PagesType, HandlersType, SharedType

LEMMA ArrivesLocal ==
  ASSUME NEW g, NEW o, NEW entry, Arrives(g, o, entry)
  PROVE  UNCHANGED <<open, inbox, sent>>
BY DEF Arrives, Show, pages

LEMMA AfterSaveLocal ==
  ASSUME PagesInv, NEW c \in Conns, pc[c] # "new", AfterSave(c),
         UNCHANGED <<hconn, pages, pending, msg, loaded>>, faults' \in {faults, faults + 1}
  PROVE  Local(c)
BY ConnsType DEF AfterSave, Goto, Begin, Local, PagesInv, PagesType, HandlersType, SharedType, pages

LEMMA HandlerLocal ==
  ASSUME PagesInv, NEW c \in Conns, Handler(c)
  PROVE  Local(c)
<1>. USE DEF PagesInv, SharedType, HandlersType, PagesType
<1>. USE ConnsType
<1>1. CASE LoadHistory(c)
  BY <1>1 DEF LoadHistory, Goto, Begin, Counted, Local, pages
<1>2. CASE PushEntry(c)
  <2>1. PICK o \in {"ok", "error", "panic"} :
          /\ WriteEnds(c, o)
          /\ IF o = "panic" THEN Return(c)
             ELSE /\ Arrives(c, o, Head(pending[c]))
                  /\ IF o = "error" \/ Len(pending[c]) = 1
                     THEN /\ Goto(c, "idle") /\ End(c)
                          /\ pending' = [pending EXCEPT ![c] = <<>>]
                     ELSE /\ Begin(c, hconn)
                          /\ pending' = [pending EXCEPT ![c] = Tail(@)]
                          /\ UNCHANGED pc
                  /\ UNCHANGED <<msg, loaded>>
    BY <1>2 DEF PushEntry
  <2>2. pc[c] = "push" /\ hconn' = hconn /\ faults' \in {faults, faults + 1}
    BY <1>2, <2>1, WriteCounts DEF PushEntry
  <2>3. CASE o = "panic"
    BY <2>1, <2>2, <2>3, ReturnLocal
  <2>4. CASE o # "panic"
    <3>1. UNCHANGED <<open, inbox, sent>>
      BY <2>1, <2>4, ArrivesLocal
    <3>. QED  BY <2>1, <2>2, <2>4, <3>1 DEF Goto, Begin, End, Local
  <2>. QED  BY <2>3, <2>4
<1>3. CASE Receive(c)
  BY <1>3 DEF Receive, Goto, Local
<1>4. CASE ReadFails(c)
  BY <1>4, ReturnLocal DEF ReadFails
<1>5. CASE RPush(c)
  <2>1. CASE Counted("lost") /\ AfterSave(c)
    BY <1>5, <2>1, AfterSaveLocal DEF RPush, Counted
  <2>2. CASE Goto(c, IF pc[c] = "save" THEN "trim" ELSE "trimReply") /\ UNCHANGED <<tgt, faults>>
    BY <1>5, <2>2 DEF RPush, Goto, Local, pages
  <2>. QED  BY <1>5, <2>1, <2>2 DEF RPush
<1>6. CASE LTrim(c)
  BY <1>6, AfterSaveLocal DEF LTrim, Counted
<1>7. CASE Handle(c)
  BY <1>7 DEF Handle, Goto, Begin, Local, pages
<1>8. CASE WritePart(c)
  <2>1. PICK o \in {"ok", "error", "panic"} :
          /\ WriteEnds(c, o)
          /\ IF o = "panic" THEN Return(c)
             ELSE /\ Arrives(c, o, Part(msg[c]))
                  /\ Goto(c, "saveReply") /\ End(c)
                  /\ UNCHANGED <<pending, msg, loaded>>
    BY <1>8 DEF WritePart
  <2>2. pc[c] = "part" /\ hconn' = hconn /\ faults' \in {faults, faults + 1}
    BY <1>8, <2>1, WriteCounts DEF WritePart
  <2>3. CASE o = "panic"
    BY <2>1, <2>2, <2>3, ReturnLocal
  <2>4. CASE o # "panic"
    <3>1. UNCHANGED <<open, inbox, sent>>
      BY <2>1, <2>4, ArrivesLocal
    <3>. QED  BY <2>1, <2>2, <2>4, <3>1 DEF Goto, End, Local
  <2>. QED  BY <2>3, <2>4
<1>9. CASE Reply(c)
  <2>1. PICK o \in {"ok", "error", "panic"} :
          /\ WriteEnds(c, o)
          /\ IF o = "ok"
             THEN /\ Show(c, Answer(msg[c]))
                  /\ Goto(c, "idle") /\ End(c)
                  /\ msg' = [msg EXCEPT ![c] = 0]
                  /\ UNCHANGED <<pending, loaded>>
             ELSE Return(c)
    BY <1>9 DEF Reply
  <2>2. pc[c] = "reply" /\ hconn' = hconn /\ faults' \in {faults, faults + 1}
    BY <1>9, <2>1, WriteCounts DEF Reply
  <2>. QED  BY <2>1, <2>2, ReturnLocal DEF Goto, End, Show, Local
<1>. QED  BY <1>1, <1>2, <1>3, <1>4, <1>5, <1>6, <1>7, <1>8, <1>9 DEF Handler

-----------------------------------------------------------------------------
(* The messages on their way.                                              *)

Replying == {"trimReply", "reply"}

\* No goroutine gets a message, and one that replies goes on or drops it.
Drops ==
  /\ sent' = sent
  /\ \A d \in Conns :
       /\ inbox'[d] \in {inbox[d], <<>>} /\ msg'[d] \in {msg[d], 0}
       /\ msg'[d] # 0 /\ pc[d] \in Replying => pc'[d] \in Replying

LEMMA ReturnDrops ==
  ASSUME PagesInv, NEW c \in Conns, Return(c)
  PROVE  inbox'[c] = <<>> /\ msg'[c] = 0
BY DEF Return, PagesInv, PagesType, HandlersType

LEMMA HandlerDrops ==
  ASSUME PagesInv, NEW c \in Conns, Handler(c), ~ Receive(c)
  PROVE  Drops
<1>. USE DEF PagesInv, HandlersType, PagesType
<1>1. Local(c)
  BY HandlerLocal
<1>2. SUFFICES /\ inbox'[c] \in {inbox[c], <<>>} /\ msg'[c] \in {msg[c], 0}
               /\ msg'[c] # 0 /\ pc[c] \in Replying => pc'[c] \in Replying
  BY <1>1 DEF Local, Drops
<1>3. CASE LoadHistory(c)
  BY <1>3 DEF LoadHistory, Replying, pages
<1>4. CASE PushEntry(c)
  <2>1. pc[c] = "push"
        /\ (Return(c) \/ (msg' = msg /\ \E o : Arrives(c, o, Head(pending[c]))))
    BY <1>4 DEF PushEntry
  <2>. QED  BY <2>1, ReturnDrops, ArrivesLocal DEF Replying
<1>5. CASE ReadFails(c)
  BY <1>5, ReturnDrops DEF ReadFails
<1>6. CASE RPush(c) \/ LTrim(c)
  <2>1. UNCHANGED <<inbox, msg>>
    BY <1>6 DEF RPush, LTrim, pages
  <2>2. pc[c] \in Replying => pc[c] = "trimReply" /\ LTrim(c)
    BY <1>6 DEF RPush, LTrim, Replying
  <2>3. pc[c] = "trimReply" /\ LTrim(c) => pc'[c] = "reply"
    BY DEF LTrim, AfterSave, Goto
  <2>. QED  BY <2>1, <2>2, <2>3 DEF Replying
<1>7. CASE Handle(c)
  BY <1>7 DEF Handle, Replying, pages
<1>8. CASE WritePart(c)
  <2>1. pc[c] = "part"
        /\ (Return(c) \/ (msg' = msg /\ \E o : Arrives(c, o, Part(msg[c]))))
    BY <1>8 DEF WritePart
  <2>. QED  BY <2>1, ReturnDrops, ArrivesLocal DEF Replying
<1>9. CASE Reply(c)
  <2>1. Return(c) \/ (msg' = [msg EXCEPT ![c] = 0] /\ Show(c, Answer(msg[c])))
    BY <1>9 DEF Reply
  <2>. QED  BY <2>1, ReturnDrops DEF Show
<1>. QED  BY <1>3, <1>4, <1>5, <1>6, <1>7, <1>8, <1>9 DEF Handler

LEMMA DownDrops ==
  ASSUME Down
  PROVE  Drops
BY DEF Down, Gone, Drops

LEMMA NextDrops ==
  ASSUME PagesInv, Next
  PROVE  Drops \/ \E c \in Conns : Send(c) \/ Receive(c)
<1>1. ASSUME NEW c \in Conns, Upgrade(c)  PROVE Drops
  BY <1>1 DEF Upgrade, IsNext, Goto, Replying, Drops, PagesInv, HandlersType
<1>2. ASSUME NEW c \in Conns, ClosePage(c)  PROVE Drops
  BY <1>2 DEF ClosePage, Gone, handlers, Drops
<1>3. CASE UNCHANGED <<inbox, sent, msg, pc>>
  BY <1>3 DEF Drops
<1>4. CASE Scheduler
  BY <1>3, <1>4, DownDrops DEF Scheduler, Wake, Notify, SendNotification, pages, handlers
<1>5. CASE ExpireHistory \/ Restart \/ Tick
  BY <1>3, <1>5 DEF ExpireHistory, Restart, Tick, pages, handlers
<1>6. CASE Crash
  BY <1>6, DownDrops DEF Crash
<1>. QED  BY <1>1, <1>2, <1>4, <1>5, <1>6, HandlerDrops DEF Next

LEMMA InboxElements ==
  ASSUME PagesInv, NEW c \in Conns
  PROVE  /\ Len(inbox[c]) \in Nat /\ DOMAIN inbox[c] = 1 .. Len(inbox[c])
         /\ \A i \in DOMAIN inbox[c] : inbox[c][i] \in 1 .. MaxSent
         /\ msg[c] \in Nat /\ sent \in Nat
BY LenProperties, ElementOfSeq, ConnectionAssumption DEF PagesInv, PagesType, HandlersType

LEMMA DropsBearer ==
  ASSUME PagesInv, OneBearer, Drops
  PROVE  OneBearer'
<1>1. \A c \in Conns : ToSet(inbox'[c]) \subseteq ToSet(inbox[c])
  BY DEF Drops, ToSet
<1>2. \A c \in Conns, n \in 1 .. MaxSent : Holds(c, n)' => Holds(c, n)
  BY <1>1 DEF Drops, Holds
<1>3. \A c \in Conns, n \in 1 .. MaxSent : Holds(c, n)' => n <= sent'
  BY <1>2 DEF OneBearer, Drops
<1>4. \A c, d \in Conns, n \in 1 .. MaxSent : Holds(c, n)' /\ Holds(d, n)' => c = d
  BY <1>2 DEF OneBearer
<1>5. ASSUME NEW c \in Conns
      PROVE  /\ msg'[c] \notin ToSet(inbox'[c])
             /\ \A i, j \in DOMAIN inbox'[c] : inbox'[c][i] = inbox'[c][j] => i = j
  <2>1. CASE inbox'[c] = <<>>
    BY <2>1 DEF ToSet
  <2>2. CASE inbox'[c] = inbox[c]
    <3>1. 0 \notin ToSet(inbox[c])
      BY InboxElements DEF ToSet
    <3>. QED  BY <2>2, <3>1 DEF OneBearer, Drops
  <2>. QED  BY <2>1, <2>2 DEF Drops
<1>. QED  BY <1>3, <1>4, <1>5 DEF OneBearer

LEMMA SendBearer ==
  ASSUME PagesInv, OneBearer, NEW c \in Conns, Send(c)
  PROVE  OneBearer'
<1>. DEFINE m == sent + 1
            box == Append(inbox[c], m)
<1>1. /\ m \in 1 .. MaxSent /\ sent' = m /\ sent \in Nat /\ msg' = msg
      /\ inbox' = [inbox EXCEPT ![c] = box] /\ inbox \in [Conns -> Seq(1 .. MaxSent)]
  BY InboxElements, ConnectionAssumption DEF Send, handlers, PagesInv, PagesType
<1>2. \A d \in Conns : ~ Holds(d, m)
  BY <1>1 DEF OneBearer
<1>3. /\ DOMAIN box = 1 .. Len(inbox[c]) + 1 /\ DOMAIN inbox[c] = 1 .. Len(inbox[c])
      /\ Len(inbox[c]) \in Nat
      /\ \A i \in 1 .. Len(inbox[c]) : box[i] = inbox[c][i]
      /\ box[Len(inbox[c]) + 1] = m
  BY <1>1, AppendProperties, LenProperties
<1>. HIDE DEF m, box
<1>4. ToSet(box) = ToSet(inbox[c]) \union {m}
  BY <1>3 DEF ToSet
<1>5. inbox'[c] = box /\ \A d \in Conns \ {c} : inbox'[d] = inbox[d]
  BY <1>1
<1>6. \A d \in Conns, n \in 1 .. MaxSent : Holds(d, n)' <=> Holds(d, n) \/ (d = c /\ n = m)
  BY <1>1, <1>4, <1>5 DEF Holds
<1>7. \A d \in Conns, n \in 1 .. MaxSent : Holds(d, n)' => n <= sent'
  BY <1>1, <1>6 DEF OneBearer, m
<1>8. \A d, e \in Conns, n \in 1 .. MaxSent : Holds(d, n)' /\ Holds(e, n)' => d = e
  BY <1>2, <1>6 DEF OneBearer
<1>9. \A d \in Conns \ {c} :
        /\ msg'[d] \notin ToSet(inbox'[d])
        /\ \A i, j \in DOMAIN inbox'[d] : inbox'[d][i] = inbox'[d][j] => i = j
  BY <1>1, <1>5 DEF OneBearer
<1>10. msg'[c] \notin ToSet(inbox'[c])
  BY <1>1, <1>2, <1>4, <1>5 DEF OneBearer, Holds
<1>11. ASSUME NEW i \in DOMAIN box, NEW j \in DOMAIN box, box[i] = box[j]  PROVE i = j
  <2>1. m \notin ToSet(inbox[c])
    BY <1>2 DEF Holds
  <2>2. \A k \in 1 .. Len(inbox[c]) : box[k] = inbox[c][k] /\ box[k] # m
    BY <1>3, <2>1 DEF ToSet
  <2>3. CASE i \in 1 .. Len(inbox[c]) /\ j \in 1 .. Len(inbox[c])
    BY <1>3, <1>11, <2>2, <2>3 DEF OneBearer
  <2>. QED  BY <1>3, <1>11, <2>2, <2>3
<1>. QED  BY <1>5, <1>7, <1>8, <1>9, <1>10, <1>11 DEF OneBearer

LEMMA ReceiveBearer ==
  ASSUME PagesInv, OneBearer, NEW c \in Conns, Receive(c)
  PROVE  OneBearer' /\ \A d \in Conns, n \in 1 .. MaxSent : Holds(d, n)' => Holds(d, n)
<1>. DEFINE box == Tail(inbox[c])
            m == Head(inbox[c])
<1>1. /\ sent' = sent /\ msg' = [msg EXCEPT ![c] = m] /\ inbox' = [inbox EXCEPT ![c] = box]
      /\ inbox \in [Conns -> Seq(1 .. MaxSent)] /\ msg \in [Conns -> 0 .. MaxSent]
      /\ inbox[c] # <<>>
  BY DEF Receive, PagesInv, PagesType, HandlersType
<1>2. /\ Len(inbox[c]) \in Nat /\ DOMAIN inbox[c] = 1 .. Len(inbox[c]) /\ 1 \in DOMAIN inbox[c]
      /\ m = inbox[c][1]
      /\ DOMAIN box = 1 .. Len(inbox[c]) - 1
      /\ \A i \in DOMAIN box : box[i] = inbox[c][i + 1] /\ i + 1 \in DOMAIN inbox[c]
  <2>1. /\ Len(inbox[c]) \in Nat /\ DOMAIN inbox[c] = 1 .. Len(inbox[c])
        /\ Len(inbox[c]) # 0
    BY <1>1, InboxElements, HeadTailProperties, EmptySeq
  <2>2. box \in Seq(1 .. MaxSent) /\ Len(box) = Len(inbox[c]) - 1
    BY <1>1, HeadTailProperties
  <2>3. DOMAIN box = 1 .. Len(inbox[c]) - 1
    BY <2>2, LenProperties
  <2>4. \A i \in 1 .. Len(inbox[c]) - 1 : box[i] = inbox[c][i + 1]
    BY <1>1, <2>1
  <2>5. m = inbox[c][1]
    BY <1>1, HeadTailProperties
  <2>. HIDE DEF box, m
  <2>. QED  BY <2>1, <2>3, <2>4, <2>5
<1>. HIDE DEF box, m
<1>3. ToSet(box) \subseteq ToSet(inbox[c]) /\ m \in ToSet(inbox[c])
  BY <1>2 DEF ToSet
<1>4. m \notin ToSet(box)
  BY <1>2 DEF OneBearer, ToSet
<1>5. /\ inbox'[c] = box /\ msg'[c] = m
      /\ \A d \in Conns \ {c} : inbox'[d] = inbox[d] /\ msg'[d] = msg[d]
  BY <1>1
<1>6. \A d \in Conns, n \in 1 .. MaxSent : Holds(d, n)' => Holds(d, n)
  BY <1>3, <1>5 DEF Holds
<1>7. \A d \in Conns, n \in 1 .. MaxSent : Holds(d, n)' => n <= sent'
  BY <1>1, <1>6 DEF OneBearer
<1>8. \A d, e \in Conns, n \in 1 .. MaxSent : Holds(d, n)' /\ Holds(e, n)' => d = e
  BY <1>6 DEF OneBearer
<1>9. \A d \in Conns :
        /\ msg'[d] \notin ToSet(inbox'[d])
        /\ \A i, j \in DOMAIN inbox'[d] : inbox'[d][i] = inbox'[d][j] => i = j
  <2>1. \A i, j \in DOMAIN box : box[i] = box[j] => i = j
    BY <1>2 DEF OneBearer
  <2>. QED  BY <1>4, <1>5, <2>1 DEF OneBearer
<1>. QED  BY <1>6, <1>7, <1>8, <1>9 DEF OneBearer

LEMMA BearerNext ==
  ASSUME PagesInv, OneBearer, Next
  PROVE  OneBearer'
BY NextDrops, DropsBearer, SendBearer, ReceiveBearer

-----------------------------------------------------------------------------
(* The answers that have been saved.                                       *)

LEMMA SettledNext ==
  ASSUME PagesInv, OneBearer, Next, NEW n \in 1 .. MaxSent, Settled(n)
  PROVE  Settled(n)'
<1>1. CASE Drops
  <2>1. \A c \in Conns : ToSet(inbox'[c]) \subseteq ToSet(inbox[c])
    BY <1>1 DEF Drops, ToSet
  <2>. QED  BY <1>1, <2>1 DEF Drops, Settled, Replying
<1>2. ASSUME NEW c \in Conns, Send(c)  PROVE Settled(n)'
  <2>1. /\ sent' = sent + 1 /\ sent \in Nat /\ msg' = msg /\ pc' = pc
        /\ inbox' = [inbox EXCEPT ![c] = Append(@, sent + 1)]
        /\ sent + 1 \in 1 .. MaxSent /\ inbox \in [Conns -> Seq(1 .. MaxSent)]
    BY <1>2, InboxElements, ConnectionAssumption DEF Send, handlers, PagesInv, PagesType
  <2>2. \A d \in Conns \ {c} : inbox'[d] = inbox[d]
    BY <2>1
  <2>3. n \notin ToSet(inbox'[c])
    <3>1. inbox[c] \in Seq(1 .. MaxSent) /\ inbox'[c] = Append(inbox[c], sent + 1)
      BY <2>1
    <3>2. /\ DOMAIN inbox'[c] = 1 .. Len(inbox[c]) + 1 /\ Len(inbox[c]) \in Nat
          /\ DOMAIN inbox[c] = 1 .. Len(inbox[c])
          /\ \A i \in 1 .. Len(inbox[c]) : inbox'[c][i] = inbox[c][i]
          /\ inbox'[c][Len(inbox[c]) + 1] = sent + 1
      BY <2>1, <3>1, AppendProperties, LenProperties
    <3>3. n # sent + 1 /\ n \notin ToSet(inbox[c])
      BY <2>1 DEF Settled
    <3>. QED  BY <3>2, <3>3 DEF ToSet
  <2>. QED  BY <2>1, <2>2, <2>3 DEF Settled
<1>3. ASSUME NEW c \in Conns, Receive(c)  PROVE Settled(n)'
  <2>1. \A d \in Conns : Holds(d, n)' => Holds(d, n)
    BY <1>3, ReceiveBearer
  <2>2. /\ sent' = sent /\ pc[c] = "idle"
        /\ \A d \in Conns \ {c} : pc'[d] = pc[d] /\ msg'[d] = msg[d] /\ inbox'[d] = inbox[d]
    BY <1>3 DEF Receive, Goto, PagesInv, PagesType, HandlersType
  <2>3. ~ Holds(c, n)
    BY <2>2 DEF Settled, Holds
  <2>. QED  BY <2>1, <2>2, <2>3 DEF Settled, Holds
<1>. QED  BY <1>1, <1>2, <1>3, NextDrops

\* Elements of the history are kept or dropped, unless one is pushed.
LEMMA HistoryElements ==
  ASSUME PagesInv, Next
  PROVE  \/ ToSet(history') \subseteq ToSet(history)
         \/ \E c \in Conns : /\ RPush(c) /\ pc' = [pc EXCEPT ![c] = IF pc[c] = "save" THEN "trim" ELSE "trimReply"]
                             /\ history' = Append(history, Entry(c))
<1>1. CASE Aside
  BY <1>1 DEF Aside, store
<1>2. CASE ExpireHistory
  BY <1>2 DEF ExpireHistory, ToSet
<1>3. ASSUME NEW c \in Conns, RPush(c)
      PROVE  \/ history' = history
             \/ /\ RPush(c) /\ pc' = [pc EXCEPT ![c] = IF pc[c] = "save" THEN "trim" ELSE "trimReply"]
                /\ history' = Append(history, Entry(c))
  BY <1>3 DEF RPush, Goto, store
<1>4. ASSUME NEW c \in Conns, LTrim(c)  PROVE ToSet(history') \subseteq ToSet(history)
  <2>1. ToSet(Newest(history)) \subseteq ToSet(history)
    <3>1. CASE Len(history) <= Cap
      BY <3>1, ConnectionAssumption, LenProperties DEF Newest, PagesInv, StoreType
    <3>2. CASE Len(history) > Cap
      <4>1. /\ Len(history) \in Nat /\ Cap \in Nat \ {0} /\ history \in Seq(Messages)
            /\ DOMAIN history = 1 .. Len(history)
            /\ \A i \in 1 .. Len(history) : history[i] \in Messages
        BY ConnectionAssumption, LenProperties, ElementOfSeq DEF PagesInv, StoreType
      <4>. DEFINE k == Len(history) - Cap
                  r == SubSeq(history, k + 1, Len(history))
      <4>2. k \in Nat /\ k + 1 \in 1 .. Len(history) /\ 1 + Len(history) - (k + 1) = Cap
        BY <3>2, <4>1
      <4>3. r = [i \in 1 .. Cap |-> history[k + 1 + i - 1]]
        <5>. HIDE DEF k
        <5>1. r = [i \in 1 .. (1 + Len(history) - (k + 1)) |-> history[k + 1 + i - 1]]
          BY <4>1, <4>2
        <5>. QED  BY <4>2, <5>1
      <4>4. Newest(history) = r
        BY <3>2 DEF Newest
      <4>. HIDE DEF r
      <4>5. \A i \in DOMAIN r : \E j \in DOMAIN history : r[i] = history[j]
        <5>1. TAKE i \in DOMAIN r
        <5>2. i \in 1 .. Cap /\ k + 1 + i - 1 \in DOMAIN history
          BY <3>2, <4>1, <4>3
        <5>. HIDE DEF k
        <5>. QED  BY <4>3, <5>2
      <4>. QED  BY <4>4, <4>5 DEF ToSet
    <3>. QED  BY <3>1, <3>2, LenProperties, ConnectionAssumption DEF PagesInv, StoreType
  <2>. QED  BY <1>4, <2>1 DEF LTrim
<1>. QED  BY <1>1, <1>2, <1>3, <1>4, NextAside

\* What a goroutine has loaded of the history is the history as it was.
LEMMA LoadedSteps ==
  ASSUME PagesInv, Next, NEW d \in Conns
  PROVE  loaded'[d] \in {loaded[d], <<>>, history}
<1>. USE DEF PagesInv, HandlersType
<1>1. ASSUME NEW c \in Conns, Handler(c)  PROVE loaded'[d] \in {loaded[d], <<>>, history}
  <2>1. d # c => loaded'[d] = loaded[d]
    BY <1>1, HandlerLocal DEF Local
  <2>2. Return(c) => loaded'[c] = <<>>
    BY DEF Return
  <2>3. CASE d = c
    <3>1. loaded' = loaded \/ Return(c) \/ loaded' = [loaded EXCEPT ![c] = history]
      BY <1>1 DEF Handler, LoadHistory, PushEntry, Receive, ReadFails, RPush, LTrim, Handle,
         WritePart, Reply
    <3>. QED  BY <2>2, <2>3, <3>1
  <2>. QED  BY <2>1, <2>3
<1>2. CASE Down
  BY <1>2 DEF Down
<1>. QED
  BY <1>1, <1>2 DEF Next, Upgrade, Send, ClosePage, Scheduler, Wake, Notify, SendNotification,
     ExpireHistory, Crash, Restart, Tick, handlers

LEMMA AnswersNext ==
  ASSUME PagesInv, OneBearer, AnswersSettled, Next
  PROVE  AnswersSettled'
<1>1. ASSUME NEW n \in 1 .. MaxSent, Answer(n) \in ToSet(history')  PROVE Settled(n)'
  <2>1. CASE Answer(n) \in ToSet(history)
    BY <2>1, SettledNext DEF AnswersSettled
  <2>2. CASE Answer(n) \notin ToSet(history)
    <3>1. PICK c \in Conns :
            /\ RPush(c)
            /\ pc' = [pc EXCEPT ![c] = IF pc[c] = "save" THEN "trim" ELSE "trimReply"]
            /\ history' = Append(history, Entry(c))
      BY <1>1, <2>2, HistoryElements
    <3>2. Answer(n) = Entry(c)
      <4>1. history \in Seq(Messages) /\ Entry(c) \in Messages
        <5>1. msg[c] \in 1 .. MaxSent
          BY <3>1 DEF RPush, PagesInv, BusyOK, Busy, HandlersType
        <5>. QED  BY <5>1, EntryTypes DEF Entry, PagesInv, StoreType
      <4>2. /\ DOMAIN history' = 1 .. Len(history) + 1 /\ Len(history) \in Nat
            /\ DOMAIN history = 1 .. Len(history)
            /\ \A i \in 1 .. Len(history) : history'[i] = history[i]
            /\ history'[Len(history) + 1] = Entry(c)
        BY <3>1, <4>1, AppendProperties, LenProperties
      <4>. QED  BY <1>1, <2>2, <4>2 DEF ToSet
    <3>3. msg[c] = n /\ pc[c] = "saveReply"
      BY <3>1, <3>2 DEF Entry, Mine, Answer, RPush
    <3>4. UNCHANGED <<msg, inbox, sent>>
      BY <3>1 DEF RPush, pages
    <3>5. pc'[c] = "trimReply"
      BY <3>1, <3>3 DEF PagesInv, HandlersType
    <3>6. \A d \in Conns : n \notin ToSet(inbox[d]) /\ (msg[d] = n => d = c)
      BY <3>3 DEF OneBearer, Holds
    <3>7. n <= sent
      BY <3>3 DEF OneBearer, Holds
    <3>. QED  BY <3>4, <3>5, <3>6, <3>7 DEF Settled
  <2>. QED  BY <2>1, <2>2
<1>2. ASSUME NEW n \in 1 .. MaxSent, NEW c \in Conns, Answer(n) \in ToSet(loaded'[c])
      PROVE  Settled(n)'
  <2>1. Answer(n) \in ToSet(loaded[c]) \/ Answer(n) \in ToSet(history)
    BY <1>2, LoadedSteps DEF ToSet
  <2>. QED  BY <2>1, SettledNext DEF AnswersSettled
<1>. QED  BY <1>1, <1>2 DEF AnswersSettled

-----------------------------------------------------------------------------
(* The page opened last.                                                   *)

\* Page c shows what it was given of the history before, if it is still there,
\* and is still the one opened last.
LEMMA HydratingKept ==
  ASSUME NEW c \in Conns, Hydrating(c), hconn' = hconn,
         open'[c] => open[c], Newer(c)' = {} => Newer(c) = {}, faults' = 0 => faults = 0,
         open'[c] => /\ pending'[c] = pending[c] /\ loaded'[c] = loaded[c]
                     /\ pc'[c] = "push" => pc[c] = "push" /\ tgt'[c] = tgt[c],
         open'[c] /\ Covers(shown[c], loaded[c], Pushed(c)) /\ Pushed(c) \in Nat
           => Covers(shown'[c], loaded[c], Pushed(c))
  PROVE  Hydrating(c)'
<1>. SUFFICES ASSUME open'[c], Newer(c)' = {}
              PROVE  /\ hconn' = c
                     /\ faults' = 0 =>
                          /\ pc'[c] = "push" => tgt'[c] = c
                          /\ Pushed(c)' \in Nat
                          /\ \A i \in DOMAIN pending'[c] :
                               pending'[c][i] = loaded'[c][Pushed(c)' + i]
                          /\ Covers(shown'[c], loaded'[c], Pushed(c)')
  BY DEF Hydrating
<1>1. Pushed(c)' = Pushed(c)
  BY DEF Pushed
<1>. QED  BY <1>1 DEF Hydrating

LEMMA NewerKept ==
  ASSUME NEW c \in Conns, \A d \in Conns : pc[d] # "new" => pc'[d] # "new", Newer(c)' = {}
  PROVE  Newer(c) = {}
BY DEF Newer

\* What goroutine c may write.
Written(c, entry) ==
  \/ entry \in Messages /\ entry \in ToSet(pending[c])
  \/ entry \in Messages /\ pc[c] = "reply" /\ msg[c] \in 1 .. MaxSent /\ entry = Answer(msg[c])
  \/ pc[c] = "part" /\ msg[c] \in 1 .. MaxSent /\ entry = Part(msg[c])

\* What a step of goroutine c writes to page d, if that is still there.
LEMMA HandlerShown ==
  ASSUME PagesInv, NEW c \in Conns, Handler(c), NEW d \in Conns
  PROVE  \/ ~ open'[d] /\ shown'[d] = <<>>
         \/ shown'[d] = shown[d]
         \/ open[d] /\ \E entry \in Shown :
              shown'[d] = Merged(shown[d], entry) /\ Written(c, entry)
<1>. USE DEF PagesInv, PagesType, HandlersType
<1>1. ASSUME NEW e \in Shown, NEW g \in Conns, Show(g, e)
      PROVE  shown'[d] = shown[d] \/ (open[d] /\ shown'[d] = Merged(shown[d], e))
  BY <1>1 DEF Show
<1>2. ASSUME NEW e \in Shown, NEW o, Arrives(c, o, e), tgt[c] # NoConn
      PROVE  shown'[d] = shown[d] \/ (open[d] /\ shown'[d] = Merged(shown[d], e))
  BY <1>1, <1>2, ConnsType DEF Arrives, SharedType, pages
<1>3. ASSUME NEW C, Gone(C)
      PROVE  (~ open'[d] /\ shown'[d] = <<>>) \/ shown'[d] = shown[d]
  BY <1>3 DEF Gone
<1>4. Return(c) => (~ open'[d] /\ shown'[d] = <<>>) \/ shown'[d] = shown[d]
  BY <1>3 DEF Return
<1>5. CASE UNCHANGED shown
  BY <1>5
<1>6. CASE PushEntry(c)
  <2>1. /\ Head(pending[c]) \in Messages /\ tgt[c] # NoConn
        /\ Head(pending[c]) \in ToSet(pending[c])
    BY <1>6, HeadTailType, HeadInSet DEF PushEntry, BusyOK, TargetsOK
  <2>2. Return(c) \/ \E o \in {"ok", "error"} : Arrives(c, o, Head(pending[c]))
    BY <1>6 DEF PushEntry
  <2>. QED  BY <1>2, <1>4, <2>1, <2>2, MessagesShown DEF Written
<1>7. CASE WritePart(c)
  <2>1. pc[c] = "part" /\ msg[c] \in 1 .. MaxSent /\ tgt[c] # NoConn /\ Part(msg[c]) \in Shown
    BY <1>7, EntryTypes DEF WritePart, BusyOK, Busy, TargetsOK
  <2>2. Return(c) \/ \E o \in {"ok", "error"} : Arrives(c, o, Part(msg[c]))
    BY <1>7 DEF WritePart
  <2>. QED  BY <1>2, <1>4, <2>1, <2>2 DEF Written
<1>8. CASE Reply(c)
  <2>1. pc[c] = "reply" /\ msg[c] \in 1 .. MaxSent /\ Answer(msg[c]) \in Messages /\ Answer(msg[c]) \in Shown
    <3>1. msg[c] \in 1 .. MaxSent
      BY <1>8 DEF Reply, BusyOK, Busy
    <3>. QED  BY <1>8, <3>1, EntryTypes DEF Reply
  <2>2. Return(c) \/ Show(c, Answer(msg[c]))
    BY <1>8 DEF Reply
  <2>. QED  BY <1>1, <1>4, <2>1, <2>2 DEF Written
<1>9. CASE ReadFails(c)
  BY <1>4, <1>9 DEF ReadFails
<1>. QED  BY <1>5, <1>6, <1>7, <1>8, <1>9 DEF Handler, LoadHistory, Receive, RPush, LTrim, Handle, pages

\* Nothing is written any more of an answer that page d has got from the history.
LEMMA WrittenCovers ==
  ASSUME PagesInv, AnswersSettled, NEW c \in Conns, Handler(c), NEW d \in Conns, open'[d],
         Pushed(d) \in Nat, Covers(shown[d], loaded[d], Pushed(d))
  PROVE  Covers(shown'[d], loaded[d], Pushed(d))
<1>. DEFINE k == Pushed(d)
            l == loaded[d]
<1>1. /\ shown[d] \in Seq(Shown) /\ l \in Seq(Messages) /\ Len(l) \in Nat
      /\ Len(pending[d]) \in Nat /\ k <= Len(l) /\ k \in Nat
  BY LenProperties DEF PagesInv, PagesType, HandlersType, Pushed
<1>2. \A i \in 1 .. k : l[i] \in Messages /\ l[i] \in ToSet(l)
  <2>1. \A i \in 1 .. Len(l) : l[i] \in Messages /\ i \in DOMAIN l
    BY <1>1, ElementOfSeq, LenProperties
  <2>. HIDE DEF k, l
  <2>2. \A i \in 1 .. k : i \in 1 .. Len(l)
    BY <1>1
  <2>. QED  BY <2>1, <2>2 DEF ToSet
<1>3. CASE shown'[d] = shown[d]
  BY <1>3
<1>4. ASSUME NEW entry \in Shown, shown'[d] = Merged(shown[d], entry),
             entry \in Messages \/ (pc[c] = "part" /\ msg[c] \in 1 .. MaxSent /\ entry = Part(msg[c]))
      PROVE  Covers(shown'[d], loaded[d], Pushed(d))
  <2>1. ASSUME NEW i \in 1 .. k, l[i].from # "user", entry.from # "user", l[i].n = entry.n
        PROVE  l[i] = entry
    <3>1. CASE entry \in Messages
      <4>1. \A a, b \in Messages : a.from # "user" /\ b.from # "user" /\ a.n = b.n => a = b
        BY DEF Messages, Mine, Answer
      <4>. QED  BY <1>2, <2>1, <3>1, <4>1
    <3>2. CASE pc[c] = "part" /\ msg[c] \in 1 .. MaxSent /\ entry = Part(msg[c])
      <4>1. l[i] = Answer(msg[c])
        BY <1>2, <2>1, <3>2 DEF Messages, Mine, Answer, Part
      <4>2. Settled(msg[c])
        BY <1>2, <3>2, <4>1 DEF AnswersSettled
      <4>. QED  BY <3>2, <4>2 DEF Settled
    <3>. QED  BY <1>4, <3>1, <3>2
  <2>2. Covers(Merged(shown[d], entry), l, k)
    <3>. HIDE DEF k, l
    <3>1. Covers(shown[d], l, k)
      BY DEF k, l
    <3>. QED  BY <1>1, <2>1, <3>1, CoversMerged
  <2>. QED  BY <1>4, <2>2
<1>. QED  BY <1>3, <1>4, HandlerShown DEF Written

\* What the steps of a goroutine do to the page of its own, other than loading
\* and pushing the history.
LEMMA HandlerOwn ==
  ASSUME PagesInv, NEW c \in Conns, Handler(c), ~ LoadHistory(c), ~ PushEntry(c), open'[c]
  PROVE  pending'[c] = pending[c] /\ loaded'[c] = loaded[c] /\ pc'[c] # "push"
<1>. USE DEF PagesInv, HandlersType
<1>1. ~ Return(c)
  BY DEF Return, Gone
<1>2. UNCHANGED <<pending, loaded>>
  BY <1>1 DEF Handler, Receive, ReadFails, RPush, LTrim, Handle, WritePart, Reply
<1>3. pc'[c] # "push"
  BY <1>1 DEF Handler, Receive, ReadFails, RPush, LTrim, AfterSave, Handle, WritePart, Reply, Goto
<1>. QED  BY <1>2, <1>3

LEMMA HandlerHydrates ==
  ASSUME PagesInv, AnswersSettled, NEW c \in Conns, Handler(c), NEW d \in Conns, Hydrating(d),
         d # c \/ (~ LoadHistory(c) /\ ~ PushEntry(c))
  PROVE  Hydrating(d)'
<1>1. Local(c)
  BY HandlerLocal
<1>2. hconn' = hconn /\ (open'[d] => open[d]) /\ (faults' = 0 => faults = 0)
  BY <1>1, ConnectionAssumption DEF Local, PagesInv, SharedType
<1>3. Newer(d)' = {} => Newer(d) = {}
  BY <1>1, NewerKept DEF Local
<1>4. open'[d] => /\ pending'[d] = pending[d] /\ loaded'[d] = loaded[d]
                  /\ pc'[d] = "push" => pc[d] = "push" /\ tgt'[d] = tgt[d]
  BY <1>1, HandlerOwn DEF Local
<1>5. open'[d] /\ Covers(shown[d], loaded[d], Pushed(d)) /\ Pushed(d) \in Nat
        => Covers(shown'[d], loaded[d], Pushed(d))
  BY WrittenCovers
<1>. QED  BY <1>2, <1>3, <1>4, <1>5, HydratingKept

\* The goroutine of the page opened last pushes to it.
LEMMA LoadHydrates ==
  ASSUME PagesInv, NEW c \in Conns, LoadHistory(c), Hydrating(c)
  PROVE  Hydrating(c)'
<1>. USE DEF PagesInv, HandlersType
<1>1. /\ pc[c] = "load" /\ UNCHANGED <<hconn, pages>>
      /\ loaded[c] = <<>> /\ pending[c] = <<>> /\ Len(<<>>) = 0
  BY DEF LoadHistory, BusyOK
<1>2. Pushed(c) = 0
  BY <1>1 DEF Pushed
<1>3. Newer(c)' = {} => Newer(c) = {}
  <2>1. \A d \in Conns : pc[d] # "new" => pc'[d] # "new"
    BY HandlerLocal DEF Local, Handler
  <2>. QED  BY <2>1, NewerKept
<1>4. CASE /\ pending' = [pending EXCEPT ![c] = history]
           /\ loaded' = [loaded EXCEPT ![c] = history]
           /\ Begin(c, hconn) /\ UNCHANGED faults
  <2>1. pending'[c] = history /\ loaded'[c] = history /\ Len(history) \in Nat
    BY <1>4, LenProperties DEF StoreType
  <2>2. Pushed(c)' = 0
    BY <2>1 DEF Pushed
  <2>3. tgt'[c] = hconn
    BY <1>4, ConnsType DEF Begin, SharedType
  <2>4. \A i \in DOMAIN history : 0 + i = i
    BY <2>1, LenProperties DEF StoreType
  <2>5. Covers(shown[c], history, 0)
    BY DEF Covers
  <2>. QED  BY <1>1, <1>3, <1>4, <2>1, <2>2, <2>3, <2>4, <2>5 DEF Hydrating, pages
<1>5. CASE UNCHANGED <<pending, loaded, tgt>> /\ Goto(c, "idle")
           /\ Counted(IF history = <<>> THEN "ok" ELSE "lost")
  <2>1. pc'[c] = "idle" /\ (faults' = 0 => faults = 0)
    BY <1>5, ConnectionAssumption DEF Goto, Counted, SharedType
  <2>. QED  BY <1>1, <1>3, <1>5, <2>1, HydratingKept DEF pages
<1>. QED  BY <1>4, <1>5 DEF LoadHistory

LEMMA PushHydrates ==
  ASSUME PagesInv, NEW c \in Conns, PushEntry(c), Hydrating(c)
  PROVE  Hydrating(c)'
<1>. USE DEF PagesInv, PagesType, HandlersType
<1>1. PICK o \in {"ok", "error", "panic"} :
        /\ WriteEnds(c, o)
        /\ IF o = "panic" THEN Return(c)
           ELSE /\ Arrives(c, o, Head(pending[c]))
                /\ IF o = "error" \/ Len(pending[c]) = 1
                   THEN /\ Goto(c, "idle") /\ End(c)
                        /\ pending' = [pending EXCEPT ![c] = <<>>]
                   ELSE /\ Begin(c, hconn)
                        /\ pending' = [pending EXCEPT ![c] = Tail(@)]
                        /\ UNCHANGED pc
                /\ UNCHANGED <<msg, loaded>>
  BY DEF PushEntry
<1>2. pc[c] = "push" /\ hconn' = hconn /\ Local(c)
  BY HandlerLocal DEF PushEntry, Handler
<1>. SUFFICES ASSUME open'[c], Newer(c)' = {}  PROVE Hydrating(c)'
  BY DEF Hydrating
<1>3. Newer(c) = {} /\ open[c] /\ hconn = c
  BY <1>2, NewerKept DEF Local, Hydrating
<1>4. CASE faults' # 0
  BY <1>2, <1>3, <1>4 DEF Hydrating
<1>5. CASE faults' = 0
  <2>1. faults = 0
    BY <1>2, <1>5, ConnectionAssumption DEF Local, SharedType
  <2>2. tgt[c] = c /\ Pushed(c) \in Nat /\ Covers(shown[c], loaded[c], Pushed(c))
        /\ \A i \in DOMAIN pending[c] : pending[c][i] = loaded[c][Pushed(c) + i]
    BY <1>2, <1>3, <2>1 DEF Hydrating
  <2>3. o = "ok"
    BY <1>1, <1>3, <1>5, <2>1, <2>2 DEF WriteEnds, Counted
  <2>. DEFINE p == pending[c]
              l == loaded[c]
              k == Pushed(c)
  <2>4. /\ p \in Seq(Messages) /\ p # <<>> /\ l \in Seq(Messages)
        /\ Len(p) \in Nat \ {0} /\ DOMAIN p = 1 .. Len(p) /\ Len(l) \in Nat /\ k = Len(l) - Len(p)
    BY <1>2, HeadTailType, LenProperties DEF BusyOK, Pushed
  <2>5. /\ Head(p) = p[1] /\ Tail(p) \in Seq(Messages) /\ Len(Tail(p)) = Len(p) - 1
        /\ DOMAIN Tail(p) = 1 .. Len(p) - 1
        /\ \A i \in 1 .. Len(p) - 1 : Tail(p)[i] = p[i + 1]
    <3>. HIDE DEF p
    <3>1. Head(p) = p[1] /\ Tail(p) \in Seq(Messages) /\ Len(Tail(p)) = Len(p) - 1
      BY <2>4, HeadTailProperties
    <3>2. DOMAIN Tail(p) = 1 .. Len(p) - 1
      BY <3>1, LenProperties
    <3>. QED  BY <2>4, <3>1, <3>2
  <2>6. Head(p) = l[k + 1] /\ k + 1 \in 1 .. Len(l)
    <3>. HIDE DEF p, l, k
    <3>1. k \in Nat /\ \A i \in DOMAIN p : p[i] = l[k + i]
      BY <2>2 DEF p, l, k
    <3>2. 1 \in DOMAIN p /\ k + 1 \in 1 .. Len(l)
      BY <2>4, <3>1
    <3>3. p[1] = l[k + 1]
      BY <3>1, <3>2
    <3>4. Head(p) = p[1]
      BY <2>5
    <3>. QED  BY <3>2, <3>3, <3>4, Zenon
  <2>7. shown'[c] = Merged(shown[c], l[k + 1])
    <3>1. Show(c, l[k + 1])
      BY <1>1, <2>2, <2>3, <2>6 DEF Arrives
    <3>. QED  BY <1>3, <3>1 DEF Show
  <2>8. Covers(shown'[c], l, k + 1)
    <3>. HIDE DEF p, l, k
    <3>1. shown[c] \in Seq(Shown) /\ k \in Nat /\ Covers(shown[c], l, k)
      BY <2>2 DEF l, k
    <3>. QED  BY <2>4, <2>6, <2>7, <3>1, CoversNext
  <2>9. loaded' = loaded
    BY <1>1, <2>3
  <2>10. CASE Len(p) = 1
    <3>1. pending'[c] = <<>> /\ pc'[c] = "idle" /\ Len(<<>>) = 0
      BY <1>1, <2>3, <2>10 DEF Goto
    <3>2. Pushed(c)' = k + 1
      BY <2>4, <2>9, <2>10, <3>1 DEF Pushed
    <3>. QED  BY <1>2, <1>3, <2>2, <2>8, <2>9, <3>1, <3>2 DEF Hydrating
  <2>11. CASE Len(p) # 1
    <3>1. pending'[c] = Tail(p) /\ tgt'[c] = c
      BY <1>1, <1>3, <2>3, <2>11, ConnsType DEF Begin, SharedType
    <3>2. Pushed(c)' = k + 1
      BY <2>4, <2>5, <2>9, <3>1 DEF Pushed
    <3>3. \A i \in DOMAIN Tail(p) : Tail(p)[i] = l[k + 1 + i]
      <4>1. TAKE i \in DOMAIN Tail(p)
      <4>2. i + 1 \in DOMAIN p /\ i \in 1 .. Len(p) - 1 /\ k + (i + 1) = k + 1 + i
        BY <2>2, <2>4, <2>5
      <4>3. Tail(p)[i] = p[i + 1]
        BY <2>5, <4>2
      <4>. QED  BY <2>2, <4>2, <4>3
    <3>. QED  BY <1>2, <1>3, <2>2, <2>8, <2>9, <3>1, <3>2, <3>3 DEF Hydrating
  <2>. QED  BY <2>10, <2>11
<1>. QED  BY <1>4, <1>5

LEMMA UpgradeHydrates ==
  ASSUME PagesInv, InOrder, NEW c \in Conns, Upgrade(c)
  PROVE  \A d \in Conns : Hydrating(d)'
<1>1. /\ pc[c] = "new" /\ pc' = [pc EXCEPT ![c] = "load"] /\ open' = [open EXCEPT ![c] = TRUE]
      /\ hconn' = c /\ UNCHANGED <<shown, loaded, pending>>
  BY DEF Upgrade, IsNext, Goto
<1>2. ASSUME NEW d \in Conns, open'[d], Newer(d)' = {}  PROVE d = c
  <2>1. CASE d < c
    BY <1>1, <1>2, <2>1 DEF Newer, PagesInv, HandlersType
  <2>2. CASE c < d
    BY <1>1, <1>2, <2>2 DEF InOrder, PagesInv, BusyOK, PagesType
  <2>. QED  BY <2>1, <2>2, ConnsType
<1>3. loaded[c] = <<>> /\ pending[c] = <<>> /\ Len(<<>>) = 0
  BY <1>1 DEF PagesInv, BusyOK
<1>4. Pushed(c)' = 0 /\ Covers(shown[c], loaded[c], 0)
  BY <1>1, <1>3 DEF Pushed, Covers
<1>5. Hydrating(c)'
  BY <1>1, <1>3, <1>4 DEF Hydrating, PagesInv, HandlersType
<1>. QED  BY <1>2, <1>5 DEF Hydrating

LEMMA HydratingNext ==
  ASSUME PagesInv, AnswersSettled, InOrder, Next, NEW d \in Conns, Hydrating(d)
  PROVE  Hydrating(d)'
<1>. USE DEF PagesInv, PagesType, HandlersType
<1>1. CASE Down
  BY <1>1 DEF Down, Gone, Hydrating
<1>2. CASE UNCHANGED <<hconn, pages, handlers>> /\ tgt'[d] = tgt[d] /\ (faults' = 0 => faults = 0)
  BY <1>2, NewerKept, HydratingKept DEF pages, handlers
<1>3. ASSUME NEW c \in Conns, Handler(c)  PROVE Hydrating(d)'
  BY <1>3, HandlerHydrates, LoadHydrates, PushHydrates
<1>4. ASSUME NEW c \in Conns, Send(c)  PROVE Hydrating(d)'
  <2>1. /\ UNCHANGED <<hconn, open, handlers, tgt, faults>>
        /\ shown' = [shown EXCEPT ![c] = Append(@, Mine(sent + 1))]
        /\ Mine(sent + 1) \in Shown
    <3>1. sent + 1 \in 1 .. MaxSent
      BY <1>4, ConnectionAssumption DEF Send
    <3>. QED  BY <1>4, <3>1, EntryTypes DEF Send
  <2>2. Covers(shown[d], loaded[d], Pushed(d)) /\ Pushed(d) \in Nat
          => Covers(shown'[d], loaded[d], Pushed(d))
    <3>1. d # c => shown'[d] = shown[d]
      BY <2>1
    <3>2. d = c => shown'[d] = Append(shown[d], Mine(sent + 1))
      BY <2>1
    <3>3. shown[d] \in Seq(Shown)
      OBVIOUS
    <3>. QED  BY <2>1, <3>1, <3>2, <3>3, CoversAppend
  <2>. QED  BY <2>1, <2>2, NewerKept, HydratingKept DEF handlers
<1>5. ASSUME NEW c \in Conns, ClosePage(c)  PROVE Hydrating(d)'
  <2>1. /\ UNCHANGED <<hconn, handlers, tgt, faults>>
        /\ open'[d] => open[d] /\ shown'[d] = shown[d]
    BY <1>5 DEF ClosePage, Gone
  <2>. QED  BY <2>1, NewerKept, HydratingKept DEF handlers
<1>6. CASE Scheduler
  <2>1. CASE Wake \/ Notify
    BY <1>2, <2>1, ConnsType DEF Wake, Notify, Begin, SharedType
  <2>2. CASE SendNotification
    <3>1. PICK o \in {"ok", "error", "panic"} :
            /\ WriteEnds(Notifier, o)
            /\ IF o = "panic" THEN Down ELSE End(Notifier) /\ UNCHANGED <<hconn, pages, handlers>>
      BY <2>2 DEF SendNotification
    <3>2. faults' = 0 => faults = 0
      BY <3>1, WriteCounts, ConnectionAssumption DEF SharedType
    <3>. QED  BY <1>1, <1>2, <3>1, <3>2, ConnsType DEF End, SharedType
  <2>. QED  BY <1>6, <2>1, <2>2 DEF Scheduler
<1>7. CASE ExpireHistory \/ Restart \/ Tick
  BY <1>2, <1>7 DEF ExpireHistory, Restart, Tick
<1>8. CASE Crash
  BY <1>1, <1>8 DEF Crash
<1>. QED  BY <1>3, <1>4, <1>5, <1>6, <1>7, <1>8, UpgradeHydrates DEF Next

LEMMA InOrderNext ==
  ASSUME PagesInv, InOrder, Next
  PROVE  InOrder'
<1>. USE DEF PagesInv, HandlersType
<1>1. CASE \A c \in Conns : pc'[c] = "new" <=> pc[c] = "new"
  BY <1>1 DEF InOrder
<1>2. ASSUME NEW c \in Conns, Upgrade(c)  PROVE InOrder'
  <2>1. pc' = [pc EXCEPT ![c] = "load"] /\ \A d \in 1 .. c - 1 : pc[d] # "new"
    BY <1>2 DEF Upgrade, IsNext, Goto
  <2>2. \A d \in Conns : d < c => d \in 1 .. c - 1
    BY ConnsType DEF Conns
  <2>. QED  BY <2>1, <2>2 DEF InOrder
<1>3. ASSUME NEW c \in Conns, Handler(c)  PROVE InOrder'
  BY <1>1, <1>3, HandlerLocal DEF Local
<1>4. CASE Down
  BY <1>1, <1>4 DEF Down
<1>. QED
  BY <1>1, <1>2, <1>3, <1>4 DEF Next, Send, ClosePage, Scheduler, Wake, Notify, SendNotification,
     ExpireHistory, Crash, Restart, Tick, handlers

LEMMA PageUnchanged == PageInv /\ UNCHANGED vars => PageInv'
<1>. SUFFICES ASSUME PageInv, UNCHANGED vars  PROVE PageInv'
  OBVIOUS
<1>. USE DEF PageInv, vars, pages, handlers, store
<1>1. OneBearer'
  BY DEF OneBearer, Holds
<1>2. AnswersSettled'
  BY DEF AnswersSettled, Settled
<1>3. InOrder' /\ \A c \in Conns : Hydrating(c)'
  BY DEF InOrder, Hydrating, Newer, Pushed
<1>. QED  BY <1>1, <1>2, <1>3

LEMMA PageInductive == PagesInv /\ PageInv /\ [Next]_vars => PageInv'
BY PageUnchanged, BearerNext, AnswersNext, InOrderNext, HydratingNext DEF PageInv

LEMMA PageInit == Init => PageInv
<1>. SUFFICES ASSUME Init  PROVE PageInv
  OBVIOUS
<1>1. OneBearer
  BY DEF Init, OneBearer, Holds, ToSet
<1>2. AnswersSettled
  BY DEF Init, AnswersSettled, ToSet
<1>3. InOrder /\ \A c \in Conns : Hydrating(c)
  BY DEF Init, InOrder, Hydrating
<1>. QED  BY <1>1, <1>2, <1>3 DEF PageInv

\* The page opened last shows the history it loaded, although loadHistory
\* pushes it entry by entry while the user and other goroutines write to the
\* page, for any number of pages and messages.
THEOREM HistoryIsShown == Spec => []PageIsHydrated
<1>1. PagesInv /\ PageInv => PageIsHydrated
  <2>. SUFFICES ASSUME PagesInv, PageInv, NEW c \in Conns,
                       open[c], \A d \in Conns : d > c => pc[d] = "new",
                       pc[c] \notin {"load", "push"}, faults = 0
                PROVE  /\ ToSet(loaded[c]) \subseteq ToSet(shown[c])
                       /\ \A i, j \in DOMAIN loaded[c] :
                            i < j /\ loaded[c][i].from = "user" /\ loaded[c][j].from = "user" =>
                              \E p, q \in DOMAIN shown[c] :
                                p < q /\ shown[c][p] = loaded[c][i] /\ shown[c][q] = loaded[c][j]
    BY DEF PageIsHydrated
  <2>1. Newer(c) = {} /\ pending[c] = <<>> /\ Len(<<>>) = 0
    BY DEF Newer, PagesInv, BusyOK
  <2>2. Len(loaded[c]) \in Nat /\ DOMAIN loaded[c] = 1 .. Len(loaded[c])
    BY LenProperties DEF PagesInv, HandlersType
  <2>3. Pushed(c) = Len(loaded[c])
    BY <2>1, <2>2 DEF Pushed
  <2>4. Covers(shown[c], loaded[c], Len(loaded[c]))
    BY <2>1, <2>3 DEF PageInv, Hydrating
  <2>. QED  BY <2>2, <2>4 DEF Covers, ToSet
<1>. QED  BY <1>1, PagesInit, PagesInductive, PageInit, PageInductive, PTL DEF Spec
-----------------------------------------------------------------------------
(* The answers.                                                            *)

\* Only a goroutine that handles a message has one.
MessagesHandled == \A c \in Conns : msg[c] # 0 => pc[c] \in Busy

\* Nothing but the answer is written any more once a page shows it, or will.
AnswersKept ==
  \A n \in 1 .. MaxSent, c \in Conns :
    Answer(n) \in ToSet(shown[c]) \union ToSet(pending[c]) => Settled(n)

\* The message n has reached page c's goroutine, or will, or page c has its
\* answer.
Attended(c, n) == Holds(c, n) \/ Answer(n) \in ToSet(shown[c])

MessagesAttended ==
  \A n \in 1 .. sent :
    /\ askedOn[n] \in Conns /\ pc[askedOn[n]] # "new"
    /\ open[askedOn[n]] => Attended(askedOn[n], n)

AskedInv == MessagesHandled /\ AnswersKept /\ MessagesAttended

LEMMA MergedSet ==
  ASSUME NEW list \in Seq(Shown), NEW entry \in Shown
  PROVE  /\ entry \in ToSet(Merged(list, entry))
         /\ ToSet(Merged(list, entry)) \subseteq ToSet(list) \union {entry}
         /\ \A x \in ToSet(list) :
              \/ x \in ToSet(Merged(list, entry))
              \/ entry.from # "user" /\ x.from # "user" /\ x.n = entry.n
<1>. DEFINE new == Merged(list, entry)
            same == {i \in DOMAIN list : list[i].n = entry.n /\ list[i].from # "user"}
<1>1. /\ \A i \in DOMAIN list :
           /\ i \in DOMAIN new
           /\ \/ new[i] = list[i]
              \/ /\ entry.from # "user" /\ list[i].from # "user" /\ list[i].n = entry.n
                 /\ new[i] = entry
      /\ \E i \in DOMAIN new : new[i] = entry
  BY MergedShape, Zenon
<1>2. ToSet(new) \subseteq ToSet(list) \union {entry}
  <2>1. CASE entry.from = "user" \/ same = {}
    <3>1. new = Append(list, entry)
      BY <2>1, Zenon DEF Merged
    <3>2. ToSet(Append(list, entry)) \subseteq ToSet(list) \union {entry}
      <4>1. /\ DOMAIN Append(list, entry) = 1 .. Len(list) + 1 /\ Len(list) \in Nat
            /\ DOMAIN list = 1 .. Len(list)
            /\ \A i \in 1 .. Len(list) : Append(list, entry)[i] = list[i]
            /\ Append(list, entry)[Len(list) + 1] = entry
        BY AppendProperties, LenProperties
      <4>. QED  BY <4>1 DEF ToSet
    <3>. QED  BY <3>1, <3>2, Zenon
  <2>2. CASE ~ (entry.from = "user" \/ same = {})
    <3>1. new = [i \in DOMAIN list |-> IF i \in same THEN entry ELSE list[i]]
      BY <2>2, Zenon DEF Merged
    <3>. HIDE DEF new, same
    <3>. QED  BY <3>1 DEF ToSet
  <2>. QED  BY <2>1, <2>2
<1>. HIDE DEF new
<1>3. ASSUME NEW x \in ToSet(list)
      PROVE  x \in ToSet(new) \/ (entry.from # "user" /\ x.from # "user" /\ x.n = entry.n)
  <2>1. PICK i \in DOMAIN list : list[i] = x
    BY DEF ToSet
  <2>. QED  BY <1>1, <2>1 DEF ToSet
<1>4. entry \in ToSet(new)
  BY <1>1 DEF ToSet
<1>. QED  BY <1>2, <1>3, <1>4 DEF new

LEMMA AppendSet ==
  ASSUME NEW S, NEW list \in Seq(S), NEW x \in S
  PROVE  ToSet(Append(list, x)) = ToSet(list) \union {x}
<1>1. /\ DOMAIN Append(list, x) = 1 .. Len(list) + 1 /\ Len(list) \in Nat
      /\ DOMAIN list = 1 .. Len(list)
      /\ \A i \in 1 .. Len(list) : Append(list, x)[i] = list[i]
      /\ Append(list, x)[Len(list) + 1] = x
  BY AppendProperties, LenProperties
<1>2. /\ Len(list) + 1 \in DOMAIN Append(list, x)
      /\ \A i \in DOMAIN list : i \in DOMAIN Append(list, x)
  BY <1>1
<1>3. \A i \in DOMAIN Append(list, x) : i \in DOMAIN list \/ i = Len(list) + 1
  BY <1>1
<1>. QED  BY <1>1, <1>2, <1>3 DEF ToSet

-----------------------------------------------------------------------------
\* Of an answer that is settled nothing but itself is written.
LEMMA WrittenSettled ==
  ASSUME PagesInv, OneBearer, AnswersKept, NEW c \in Conns, NEW entry \in Shown, Written(c, entry),
         NEW n \in 1 .. MaxSent
  PROVE  /\ entry = Answer(n) => Settled(n)
         /\ Settled(n) /\ entry.from # "user" /\ entry.n = n => entry = Answer(n)
<1>1. CASE entry \in Messages /\ entry \in ToSet(pending[c])
  BY <1>1 DEF AnswersKept, Messages, Mine, Answer
<1>2. CASE pc[c] = "reply" /\ msg[c] \in 1 .. MaxSent /\ entry = Answer(msg[c])
  <2>1. ASSUME msg[c] = n  PROVE Settled(n)
    <3>1. n <= sent
      BY <2>1 DEF OneBearer, Holds
    <3>2. \A d \in Conns : n \notin ToSet(inbox[d]) /\ (msg[d] = n => d = c)
      BY <2>1 DEF OneBearer, Holds
    <3>. QED  BY <1>2, <3>1, <3>2 DEF Settled
  <2>. QED  BY <1>2, <2>1 DEF Answer
<1>3. CASE pc[c] = "part" /\ msg[c] \in 1 .. MaxSent /\ entry = Part(msg[c])
  BY <1>3 DEF Settled, Part, Answer
<1>. QED  BY <1>1, <1>2, <1>3 DEF Written

\* A step of goroutine c may add an answer to a page, and takes none away.
LEMMA HandlerAnswers ==
  ASSUME PagesInv, OneBearer, AnswersKept, NEW c \in Conns, Handler(c), NEW d \in Conns,
         NEW n \in 1 .. MaxSent
  PROVE  /\ Answer(n) \in ToSet(shown'[d]) => Settled(n)
         /\ open'[d] /\ Answer(n) \in ToSet(shown[d]) => Answer(n) \in ToSet(shown'[d])
<1>1. CASE ~ open'[d] /\ shown'[d] = <<>>
  BY <1>1 DEF ToSet
<1>2. CASE shown'[d] = shown[d]
  BY <1>2 DEF AnswersKept
<1>3. ASSUME NEW entry \in Shown, shown'[d] = Merged(shown[d], entry), Written(c, entry)
      PROVE  /\ Answer(n) \in ToSet(shown'[d]) => Settled(n)
             /\ Answer(n) \in ToSet(shown[d]) => Answer(n) \in ToSet(shown'[d])
  <2>1. shown[d] \in Seq(Shown)
    BY DEF PagesInv, PagesType
  <2>2. /\ entry \in ToSet(shown'[d])
        /\ ToSet(shown'[d]) \subseteq ToSet(shown[d]) \union {entry}
        /\ \A x \in ToSet(shown[d]) :
             \/ x \in ToSet(shown'[d])
             \/ entry.from # "user" /\ x.from # "user" /\ x.n = entry.n
    BY <1>3, <2>1, MergedSet
  <2>3. /\ entry = Answer(n) => Settled(n)
        /\ Settled(n) /\ entry.from # "user" /\ entry.n = n => entry = Answer(n)
    BY <1>3, WrittenSettled
  <2>4. Answer(n) \in ToSet(shown[d]) => Settled(n)
    BY DEF AnswersKept
  <2>5. Answer(n).n = n
    BY DEF Answer
  <2>. QED  BY <2>2, <2>3, <2>4, <2>5
<1>. QED  BY <1>1, <1>2, <1>3, HandlerShown

\* What a goroutine has still to push.
LEMMA PendingSteps ==
  ASSUME PagesInv, Next, NEW d \in Conns
  PROVE  ToSet(pending'[d]) \subseteq ToSet(pending[d]) \union ToSet(history)
<1>. USE DEF PagesInv, HandlersType
<1>0. ToSet(<<>>) = {}
  BY DEF ToSet
<1>1. ASSUME NEW c \in Conns, Handler(c)
      PROVE  ToSet(pending'[d]) \subseteq ToSet(pending[d]) \union ToSet(history)
  <2>1. d # c => pending'[d] = pending[d]
    BY <1>1, HandlerLocal DEF Local
  <2>2. Return(c) => pending'[c] = <<>>
    BY DEF Return
  <2>3. CASE d = c
    <3>1. \/ pending'[c] = pending[c] \/ pending'[c] = <<>> \/ pending'[c] = history
          \/ PushEntry(c) /\ pending'[c] = Tail(pending[c])
      <4>1. CASE PushEntry(c)
        <5>1. \/ Return(c) \/ pending' = [pending EXCEPT ![c] = <<>>]
              \/ pending' = [pending EXCEPT ![c] = Tail(@)]
          BY <4>1 DEF PushEntry
        <5>. QED  BY <2>2, <4>1, <5>1
      <4>2. CASE ~ PushEntry(c)
        <5>1. pending' = pending \/ Return(c) \/ pending' = [pending EXCEPT ![c] = history]
          BY <1>1, <4>2 DEF Handler, LoadHistory, Receive, ReadFails, RPush, LTrim, Handle,
             WritePart, Reply
        <5>. QED  BY <2>2, <5>1
      <4>. QED  BY <4>1, <4>2
    <3>2. PushEntry(c) => ToSet(Tail(pending[c])) \subseteq ToSet(pending[c])
      <4>1. PushEntry(c) => pending[c] \in Seq(Messages) /\ pending[c] # <<>>
        BY DEF PushEntry, BusyOK
      <4>. QED  BY <4>1, HeadInSet
    <3>. QED  BY <1>0, <2>3, <3>1, <3>2
  <2>. QED  BY <2>1, <2>3
<1>2. CASE Down
  BY <1>0, <1>2 DEF Down
<1>3. CASE UNCHANGED pending
  BY <1>3
<1>. QED
  BY <1>1, <1>2, <1>3 DEF Next, Upgrade, Send, ClosePage, Scheduler, Wake, Notify,
     SendNotification, ExpireHistory, Crash, Restart, Tick, handlers

\* A goroutine that has a message, or will, keeps it until its page has the
\* answer, or is gone.
LEMMA HandlerAttends ==
  ASSUME PagesInv, MessagesHandled, NEW c \in Conns, Handler(c), NEW d \in Conns, open'[d],
         NEW n \in 1 .. MaxSent, Holds(d, n)
  PROVE  Attended(d, n)'
<1>. USE DEF PagesInv, PagesType, HandlersType
<1>1. Local(c)
  BY HandlerLocal
<1>2. CASE d # c
  BY <1>1, <1>2 DEF Local, Holds, Attended
<1>3. CASE d = c
  <2>1. ~ Return(c)
    BY <1>3 DEF Return, Gone
  <2>2. CASE UNCHANGED <<msg, inbox>>
    BY <1>3, <2>2 DEF Holds, Attended
  <2>3. CASE Receive(c)
    <3>1. /\ pc[c] = "idle" /\ inbox[c] # <<>> /\ inbox[c] \in Seq(1 .. MaxSent)
          /\ msg'[c] = Head(inbox[c]) /\ inbox'[c] = Tail(inbox[c])
      BY <2>3 DEF Receive
    <3>2. msg[c] = 0
      BY <3>1 DEF MessagesHandled, Busy
    <3>3. ToSet(inbox[c]) = {Head(inbox[c])} \union ToSet(Tail(inbox[c]))
      BY <3>1, HeadInSet
    <3>. QED  BY <1>3, <3>1, <3>2, <3>3 DEF Holds, Attended
  <2>4. CASE Reply(c)
    <3>1. Show(c, Answer(msg[c])) /\ msg' = [msg EXCEPT ![c] = 0] /\ pc[c] = "reply"
      BY <2>1, <2>4 DEF Reply
    <3>2. /\ shown'[c] = Merged(shown[c], Answer(msg[c])) /\ inbox' = inbox
          /\ shown[c] \in Seq(Shown)
      BY <1>1, <1>3, <3>1 DEF Show, Local
    <3>3. Answer(msg[c]) \in Shown
      <4>1. msg[c] \in 1 .. MaxSent
        BY <3>1 DEF BusyOK, Busy
      <4>. QED  BY <4>1, EntryTypes
    <3>4. Answer(msg[c]) \in ToSet(shown'[c])
      BY <3>2, <3>3, MergedSet
    <3>. QED  BY <1>3, <3>2, <3>4 DEF Holds, Attended
  <2>5. CASE PushEntry(c) \/ WritePart(c)
    <3>1. msg' = msg /\ \E o, e : Arrives(c, o, e)
      BY <2>1, <2>5 DEF PushEntry, WritePart
    <3>. QED  BY <2>2, <3>1, ArrivesLocal
  <2>. QED  BY <2>1, <2>2, <2>3, <2>4, <2>5
            DEF Handler, LoadHistory, ReadFails, RPush, LTrim, Handle, pages
<1>. QED  BY <1>2, <1>3

-----------------------------------------------------------------------------
LEMMA HandledNext ==
  ASSUME PagesInv, MessagesHandled, Next
  PROVE  MessagesHandled'
<1>. USE DEF PagesInv, HandlersType
<1>1. ASSUME NEW c \in Conns, Handler(c)  PROVE MessagesHandled'
  <2>1. \A d \in Conns \ {c} : pc'[d] = pc[d] /\ msg'[d] = msg[d]
    BY <1>1, HandlerLocal DEF Local
  <2>2. msg'[c] # 0 => pc'[c] \in Busy
    <3>1. CASE Return(c)
      BY <3>1 DEF Return
    <3>2. CASE ~ Return(c) /\ ~ Receive(c) /\ ~ Reply(c)
      <4>1. msg' = msg
        BY <1>1, <3>2 DEF Handler, LoadHistory, PushEntry, ReadFails, RPush, LTrim, Handle, WritePart
      <4>2. pc[c] \in Busy => pc'[c] \in Busy
        BY <1>1, <3>2 DEF Handler, LoadHistory, PushEntry, ReadFails, RPush, LTrim, AfterSave,
           Handle, WritePart, Goto, Busy
      <4>. QED  BY <4>1, <4>2 DEF MessagesHandled
    <3>3. CASE Receive(c)
      BY <3>3 DEF Receive, Goto, Busy
    <3>4. CASE Reply(c) /\ ~ Return(c)
      BY <3>4 DEF Reply
    <3>. QED  BY <3>1, <3>2, <3>3, <3>4
  <2>. QED  BY <2>1, <2>2 DEF MessagesHandled
<1>2. CASE Down
  BY <1>2 DEF Down, MessagesHandled
<1>3. ASSUME NEW c \in Conns, Upgrade(c)  PROVE MessagesHandled'
  BY <1>3 DEF Upgrade, IsNext, Goto, MessagesHandled, Busy
<1>4. CASE UNCHANGED handlers
  BY <1>4 DEF handlers, MessagesHandled
<1>. QED
  BY <1>1, <1>2, <1>3, <1>4 DEF Next, Send, ClosePage, Scheduler, Wake, Notify, SendNotification,
     ExpireHistory, Crash, Restart, Tick

\* What the other steps do to a page.
LEMMA ShownSteps ==
  ASSUME PagesInv, Next, NEW d \in Conns
  PROVE  \/ \E c \in Conns : Handler(c) \/ Send(c)
         \/ shown'[d] = shown[d] \/ (~ open'[d] /\ shown'[d] = <<>>)
<1>. USE DEF PagesInv, PagesType
<1>1. ASSUME NEW C, Gone(C)  PROVE shown'[d] = shown[d] \/ (~ open'[d] /\ shown'[d] = <<>>)
  BY <1>1 DEF Gone
<1>. QED
  BY <1>1 DEF Next, Upgrade, ClosePage, Down, Scheduler, Wake, Notify, SendNotification,
     ExpireHistory, Crash, Restart, Tick, pages

LEMMA SendShown ==
  ASSUME PagesInv, NEW c \in Conns, Send(c), NEW d \in Conns
  PROVE  /\ sent + 1 \in 1 .. MaxSent
         /\ ToSet(shown'[d]) =
              IF d = c THEN ToSet(shown[d]) \union {Mine(sent + 1)} ELSE ToSet(shown[d])
         /\ ToSet(inbox'[d]) = IF d = c THEN ToSet(inbox[d]) \union {sent + 1} ELSE ToSet(inbox[d])
<1>. USE DEF PagesInv, PagesType
<1>1. sent + 1 \in 1 .. MaxSent /\ Mine(sent + 1) \in Shown
  <2>1. sent + 1 \in 1 .. MaxSent
    BY ConnectionAssumption DEF Send
  <2>. QED  BY <2>1, EntryTypes
<1>2. CASE d = c
  <2>1. /\ shown'[c] = Append(shown[c], Mine(sent + 1)) /\ shown[c] \in Seq(Shown)
        /\ inbox'[c] = Append(inbox[c], sent + 1) /\ inbox[c] \in Seq(1 .. MaxSent)
    BY DEF Send
  <2>2. ToSet(shown'[c]) = ToSet(shown[c]) \union {Mine(sent + 1)}
    BY <1>1, <2>1, AppendSet
  <2>3. ToSet(inbox'[c]) = ToSet(inbox[c]) \union {sent + 1}
    <3>1. PICK S : S = 1 .. MaxSent
      OBVIOUS
    <3>2. inbox[c] \in Seq(S) /\ sent + 1 \in S
      BY <1>1, <2>1, <3>1, Zenon
    <3>3. ToSet(Append(inbox[c], sent + 1)) = ToSet(inbox[c]) \union {sent + 1}
      BY <3>2, AppendSet
    <3>. QED  BY <2>1, <3>3, Zenon
  <2>. QED  BY <1>1, <1>2, <2>2, <2>3
<1>3. CASE d # c
  BY <1>1, <1>3 DEF Send
<1>. QED  BY <1>2, <1>3

LEMMA KeptNext ==
  ASSUME PagesInv, PageInv, AskedInv, Next
  PROVE  AnswersKept'
<1>. USE DEF PageInv, AskedInv
<1>1. ASSUME NEW n \in 1 .. MaxSent, NEW d \in Conns, Answer(n) \in ToSet(shown'[d])
      PROVE  Settled(n)
  <2>1. CASE shown'[d] = shown[d]
    BY <1>1, <2>1 DEF AnswersKept
  <2>2. CASE shown'[d] = <<>>
    BY <1>1, <2>2 DEF ToSet
  <2>3. ASSUME NEW c \in Conns, Handler(c)  PROVE Settled(n)
    BY <1>1, <2>3, HandlerAnswers
  <2>4. ASSUME NEW c \in Conns, Send(c)  PROVE Settled(n)
    <3>1. Answer(n) \in ToSet(shown[d]) \/ Answer(n) = Mine(sent + 1)
      BY <1>1, <2>4, SendShown
    <3>. QED  BY <3>1 DEF Answer, Mine, AnswersKept
  <2>. QED  BY <2>1, <2>2, <2>3, <2>4, ShownSteps
<1>2. ASSUME NEW n \in 1 .. MaxSent, NEW d \in Conns, Answer(n) \in ToSet(pending'[d])
      PROVE  Settled(n)
  BY <1>2, PendingSteps DEF AnswersKept, AnswersSettled
<1>. QED  BY <1>1, <1>2, SettledNext DEF AnswersKept

\* What a step that is not Send leaves of the messages.
LEMMA AskedSteps ==
  ASSUME PagesInv, Next
  PROVE  \/ \E c \in Conns : Send(c)
         \/ /\ UNCHANGED <<sent, askedOn>>
            /\ \A d \in Conns : pc[d] # "new" => pc'[d] # "new" /\ (open'[d] => open[d])
<1>. USE DEF PagesInv, PagesType, HandlersType
<1>1. CASE Down
  BY <1>1 DEF Down, Gone
<1>2. ASSUME NEW c \in Conns, Handler(c)
      PROVE  /\ UNCHANGED <<sent, askedOn>>
             /\ \A d \in Conns : pc[d] # "new" => pc'[d] # "new" /\ (open'[d] => open[d])
  <2>1. Return(c) => UNCHANGED <<sent, askedOn>>
    BY DEF Return, Gone
  <2>2. \A o, e : Arrives(c, o, e) => UNCHANGED <<sent, askedOn>>
    BY DEF Arrives, Show, pages
  <2>3. \A e : Show(c, e) => UNCHANGED <<sent, askedOn>>
    BY DEF Show
  <2>4. UNCHANGED <<sent, askedOn>>
    BY <1>2, <2>1, <2>2, <2>3 DEF Handler, LoadHistory, PushEntry, Receive, ReadFails, RPush, LTrim,
       Handle, WritePart, Reply, pages
  <2>. QED  BY <1>2, <2>4, HandlerLocal DEF Local
<1>3. ASSUME NEW c \in Conns, Upgrade(c) \/ ClosePage(c)
      PROVE  /\ UNCHANGED <<sent, askedOn>>
             /\ \A d \in Conns : pc[d] # "new" => pc'[d] # "new" /\ (open'[d] => open[d])
  BY <1>3 DEF Upgrade, IsNext, Goto, ClosePage, Gone, handlers
<1>4. CASE UNCHANGED <<pages, handlers>>
  BY <1>4 DEF pages, handlers
<1>. QED
  BY <1>1, <1>2, <1>3, <1>4 DEF Next, Scheduler, Wake, Notify, SendNotification,
     ExpireHistory, Crash, Restart, Tick

\* A message that its page's goroutine has, or will have, or whose answer the
\* page shows, stays so as long as the page is there.
LEMMA AttendedSteps ==
  ASSUME PagesInv, PageInv, AskedInv, Next, NEW d \in Conns, open'[d],
         NEW n \in 1 .. MaxSent, Attended(d, n)
  PROVE  Attended(d, n)'
<1>. USE DEF PagesInv, PagesType, HandlersType, PageInv, AskedInv
<1>1. ASSUME NEW c \in Conns, Handler(c)  PROVE Attended(d, n)'
  <2>1. Holds(d, n) => Attended(d, n)'
    BY <1>1, HandlerAttends
  <2>2. Answer(n) \in ToSet(shown[d]) => Answer(n) \in ToSet(shown'[d])
    BY <1>1, HandlerAnswers
  <2>. QED  BY <2>1, <2>2 DEF Attended
<1>2. ASSUME NEW c \in Conns, Send(c)  PROVE Attended(d, n)'
  BY <1>2, SendShown DEF Send, handlers, Attended, Holds
<1>3. CASE Down
  BY <1>3 DEF Down, Gone
<1>4. ASSUME NEW c \in Conns, Upgrade(c) \/ ClosePage(c)  PROVE Attended(d, n)'
  BY <1>4 DEF Upgrade, ClosePage, Gone, handlers, Attended, Holds
<1>5. CASE UNCHANGED <<pages, handlers>>
  BY <1>5 DEF pages, handlers, Attended, Holds
<1>. QED
  BY <1>1, <1>2, <1>3, <1>4, <1>5 DEF Next, Scheduler, Wake, Notify, SendNotification,
     ExpireHistory, Crash, Restart, Tick

LEMMA AttendedNext ==
  ASSUME PagesInv, PageInv, AskedInv, Next
  PROVE  MessagesAttended'
<1>. USE DEF PagesInv, PagesType, HandlersType, AskedInv
<1>1. ASSUME NEW c \in Conns, Send(c)  PROVE MessagesAttended'
  <2>1. /\ sent + 1 \in 1 .. MaxSent /\ sent' = sent + 1 /\ open' = open /\ pc' = pc
        /\ askedOn' = [askedOn EXCEPT ![sent + 1] = c] /\ open[c]
    BY <1>1, SendShown DEF Send, handlers
  <2>2. PICK m \in 1 .. MaxSent : m = sent + 1
    BY <2>1
  <2>3. askedOn'[m] = c /\ \A n \in 1 .. MaxSent \ {m} : askedOn'[n] = askedOn[n]
    BY <2>1, <2>2
  <2>4. ASSUME NEW n \in 1 .. sent
        PROVE  \E d \in Conns : /\ d = askedOn'[n] /\ pc'[d] # "new"
                                /\ open'[d] => Attended(d, n)'
    <3>1. n \in 1 .. MaxSent \ {m}
      BY <2>2, ConnectionAssumption
    <3>2. PICK d \in Conns : d = askedOn[n] /\ pc[d] # "new" /\ (open[d] => Attended(d, n))
      BY DEF MessagesAttended
    <3>3. d = askedOn'[n]
      BY <2>3, <3>1, <3>2
    <3>. QED  BY <2>1, <3>1, <3>2, <3>3, AttendedSteps
  <2>5. pc'[c] # "new" /\ Attended(c, m)'
    <3>1. ToSet(inbox'[c]) = ToSet(inbox[c]) \union {m}
      BY <1>1, <2>2, SendShown, Zenon
    <3>2. m \in ToSet(inbox'[c])
      BY <3>1
    <3>3. pc'[c] # "new"
      BY <2>1 DEF BusyOK
    <3>. QED  BY <3>2, <3>3 DEF Attended, Holds
  <2>6. ASSUME NEW n \in 1 .. sent'
        PROVE  \E d \in Conns : /\ d = askedOn'[n] /\ pc'[d] # "new"
                                /\ open'[d] => Attended(d, n)'
    <3>1. CASE n = m
      BY <2>3, <2>5, <3>1
    <3>2. CASE n # m
      <4>1. n \in 1 .. sent
        BY <2>1, <2>2, <3>2
      <4>. QED  BY <2>4, <4>1
    <3>. QED  BY <3>1, <3>2
  <2>. QED  BY <2>6 DEF MessagesAttended, Attended, Holds
<1>2. CASE ~ \E c \in Conns : Send(c)
  <2>1. /\ UNCHANGED <<sent, askedOn>>
        /\ \A d \in Conns : pc[d] # "new" => pc'[d] # "new" /\ (open'[d] => open[d])
    BY <1>2, AskedSteps
  <2>2. ASSUME NEW n \in 1 .. sent
        PROVE  \E d \in Conns : /\ d = askedOn[n] /\ pc'[d] # "new"
                                /\ open'[d] => Attended(d, n)'
    <3>1. n \in 1 .. MaxSent
      BY ConnectionAssumption
    <3>2. PICK d \in Conns : d = askedOn[n] /\ pc[d] # "new" /\ (open[d] => Attended(d, n))
      BY DEF MessagesAttended
    <3>. QED  BY <2>1, <3>1, <3>2, AttendedSteps
  <2>. QED  BY <2>1, <2>2 DEF MessagesAttended, Attended, Holds
<1>. QED  BY <1>1, <1>2

LEMMA AskedInductive == PagesInv /\ PageInv /\ AskedInv /\ [Next]_vars => AskedInv'
<1>1. AskedInv /\ UNCHANGED vars => AskedInv'
  BY DEF vars, pages, handlers, AskedInv, MessagesHandled, AnswersKept, Settled, MessagesAttended,
     Attended, Holds
<1>. QED  BY <1>1, HandledNext, KeptNext, AttendedNext DEF AskedInv

LEMMA AskedInit == Init => AskedInv
<1>. SUFFICES ASSUME Init  PROVE AskedInv
  OBVIOUS
<1>1. MessagesHandled /\ AnswersKept
  BY DEF Init, MessagesHandled, AnswersKept, ToSet
<1>2. MessagesAttended
  <2>1. \A n \in 1 .. 0 : FALSE
    OBVIOUS
  <2>. QED  BY <2>1 DEF Init, MessagesAttended
<1>. QED  BY <1>1, <1>2 DEF AskedInv

\* HandleChatWS leaves no message without an answer on the page that asked, and
\* no other goroutine takes the answer away again, for any number of pages,
\* messages, failures and restarts: as long as that page is connected, the
\* message is on its way, is being handled, or has its answer there.
THEOREM QuestionsAreAnswered == Spec => []AnsweredWhereAsked
<1>1. AskedInv => AnsweredWhereAsked
  BY DEF AskedInv, MessagesAttended, Attended, Holds, AnsweredWhereAsked
<1>. QED  BY <1>1, PagesInit, PagesInductive, PageInit, PageInductive, AskedInit, AskedInductive, PTL
          DEF Spec
=============================================================================
