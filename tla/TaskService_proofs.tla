------------------------- MODULE TaskService_proofs -------------------------
(***************************************************************************)
(* Type correctness of the tasks in learn-service, that the counters of    *)
(* misses stay bounded, that a deleted task stays in the cache only after  *)
(* a race or a failure, and what leaves gaps in the positions.  For any    *)
(* number of concurrent calls, keys, failures and restarts.                *)
(***************************************************************************)
EXTENDS TaskService, FiniteSetTheorems, WellFoundedInduction, TLAPS

\* A non-empty set of natural numbers with a bound has a largest member.
LEMMA MaxIsMax ==
  ASSUME NEW n \in Nat, NEW S \in SUBSET (0 .. n), S # {}
  PROVE  Max(S) \in S /\ \A x \in S : Max(S) >= x
<1> DEFINE Less == {p \in Nat \X Nat : p[1] < p[2]}
           Gaps == {n - x : x \in S}
<1>1. IsWellFoundedOn(Less, Nat)
  <2>1. Less = OpToRel(<, Nat)
    BY DEF OpToRel
  <2>. QED  BY <2>1, NatLessThanWellFounded
<1>2. Gaps \subseteq Nat /\ Gaps # {}
  <2>1. \A x \in S : n - x \in Nat
    OBVIOUS
  <2>2. PICK x \in S : TRUE
    OBVIOUS
  <2>3. n - x \in Gaps
    OBVIOUS
  <2>. QED  BY <2>1, <2>3
<1>3. \E g \in Gaps : \A h \in Gaps : ~ (<<h, g>> \in Less)
  <2>. HIDE DEF Less, Gaps
  <2>. QED  BY <1>1, <1>2, WFMin
<1>4. \E g \in Gaps : \A h \in Gaps : g <= h
  <2>1. ASSUME NEW g \in Gaps, NEW h \in Gaps, <<h, g>> \notin Less  PROVE  g <= h
    <3>1. g \in Nat /\ h \in Nat
      BY <1>2
    <3>2. <<h, g>> \in Nat \X Nat /\ <<h, g>>[1] = h /\ <<h, g>>[2] = g
      BY <3>1
    <3>3. ~ (h < g)
      BY <3>2, <2>1, Zenon
    <3>. QED  BY <3>1, <3>3
  <2>. HIDE DEF Less, Gaps
  <2>. QED  BY <1>3, <2>1
<1>5. \E m \in S : \A x \in S : m >= x
  <2>1. PICK m \in S : \A h \in Gaps : n - m <= h
    BY <1>4
  <2>2. ASSUME NEW x \in S  PROVE  m >= x
    <3>1. n - x \in Gaps
      OBVIOUS
    <3>2. n - m <= n - x
      BY <3>1, <2>1
    <3>. QED  BY <3>2
  <2>. QED  BY <2>2
<1>. QED  BY <1>5 DEF Max

LEMMA ElementType ==
  ASSUME NEW T, NEW seq \in Seq(T)
  PROVE  DOMAIN seq \subseteq Nat \ {0} /\ \A i \in DOMAIN seq : seq[i] \in T
OBVIOUS

LEMMA KeyIsPair ==
  /\ NoKey \notin Keys
  /\ \A k \in Keys : k = <<k[1], k[2]>> /\ k[1] \in Levels /\ k[2] \in 1 .. MaxPos
BY DEF Keys, NoKey

LEMMA UsedType ==
  ASSUME NEW l
  PROVE  /\ Used(l) \subseteq 1 .. MaxPos
         /\ Max(Used(l) \union {0}) \in Used(l) \union {0}
         /\ \A p \in Used(l) : p <= Max(Used(l) \union {0})
         /\ Max(Used(l) \union {0}) \in Nat
<1>1. MaxPos \in Nat
  BY TaskAssumption
<1>2. Used(l) \subseteq 1 .. MaxPos
  BY DEF Used
<1>3. Used(l) \union {0} \in SUBSET (0 .. MaxPos) /\ Used(l) \union {0} # {}
  BY <1>1, <1>2
<1>4. /\ Max(Used(l) \union {0}) \in Used(l) \union {0}
      /\ \A p \in Used(l) \union {0} : Max(Used(l) \union {0}) >= p
  BY <1>1, <1>3, MaxIsMax
<1>5. \A p \in Used(l) : p <= Max(Used(l) \union {0})
  BY <1>2, <1>3, <1>4
<1>. QED  BY <1>2, <1>3, <1>4, <1>5

-----------------------------------------------------------------------------
(* Types.                                                                  *)

CallsType ==
  /\ pc \in [Requests -> Labels]
  /\ key \in [Requests -> Keys \union {NoKey}]
  /\ role \in [Requests -> Roles]
  /\ val \in [Requests -> Tasks \union {Absent, Miss}]
  /\ batch \in [Requests -> Batches \union {<<>>}]
  /\ top \in [Requests -> Nat]
  /\ \A r \in Requests : key[r] = NoKey <=> pc[r] \in {"idle", "max", "insert"}

LEMMA HasKey ==
  ASSUME CallsType, NEW r \in Requests, pc[r] \notin {"idle", "max", "insert"}
  PROVE  key[r] \in Keys /\ key[r] # NoKey
BY DEF CallsType

\* Calls that return leave the variables of the calls in their types.
LEMMA ReturnType ==
  ASSUME CallsType, NEW R, Return(R)
  PROVE  CallsType'
BY DEF CallsType, Return, Labels, Roles, NoKey

LEMMA ProceedType ==
  ASSUME CallsType, NEW r \in Requests, pc[r] \notin {"idle", "max", "insert"},
         NEW label \in Labels \ {"idle", "max", "insert"},
         Proceed(r, label)
  PROVE  CallsType'
BY DEF CallsType, Proceed, Goto

LEMMA ProceedIfOkType ==
  ASSUME CallsType, NEW r \in Requests, pc[r] \notin {"idle", "max", "insert"},
         NEW label \in Labels \ {"idle", "max", "insert"},
         NEW o, ProceedIfOk(r, o, label)
  PROVE  CallsType'
BY ReturnType, ProceedType DEF ProceedIfOk

LEMMA FaultsType ==
  ASSUME faults \in Nat, NEW o, Counted(o)
  PROVE  faults' \in Nat /\ faults' >= faults
BY DEF Counted

LEMMA TypeInit == Init => TypeOK
<1>. SUFFICES ASSUME Init PROVE TypeOK
  OBVIOUS
<1>1. table \in [Keys -> Tasks \union {Absent}]
  BY TaskAssumption DEF Init
<1>. QED  BY <1>1 DEF Init, TypeOK, Labels, Roles, NoKey

LEMMA TypeCalls == TypeOK => CallsType
BY DEF TypeOK, CallsType

LEMMA GetTasksType ==
  ASSUME TypeOK, NEW r \in Requests, NEW k \in Read, GetTasks(r, k)
  PROVE  TypeOK'
<1>1. k \in Keys /\ k # NoKey
  BY KeyIsPair, TaskAssumption
<1>. QED  BY <1>1 DEF TypeOK, GetTasks, Goto, Labels, Roles

LEMMA FetchCacheType ==
  ASSUME TypeOK, NEW r \in Requests, FetchCache(r)
  PROVE  TypeOK'
<1>1. key[r] \in Keys
  BY HasKey, TypeCalls DEF FetchCache
<1>2. \E o \in {"ok", "lost"} :
        Counted(o) /\ val' = [val EXCEPT ![r] = IF o = "ok" THEN cache[key[r]] ELSE Miss]
  BY DEF FetchCache
<1>3. faults' \in Nat /\ val' \in [Requests -> Tasks \union {Absent, Miss}]
  BY <1>1, <1>2, FaultsType DEF TypeOK
<1>. QED  BY <1>3 DEF TypeOK, FetchCache, Goto, Labels

LEMMA LandType ==
  ASSUME TypeOK, NEW r \in Requests, Land(r)
  PROVE  TypeOK'
<1>1. UNCHANGED <<table, cache, count, faults, writes, deleted, skipped, tainted>>
  BY DEF Land
<1>2. CASE Return(Flight(r))
  BY <1>1, <1>2, ReturnType, TypeCalls DEF TypeOK, CallsType
<1>3. CASE /\ pc' = [q \in Requests |-> IF q \in Flight(r) THEN "query" ELSE pc[q]]
           /\ UNCHANGED <<key, role, val, batch, top>>
  <2>1. \A q \in Flight(r) : pc[q] \notin {"idle", "max", "insert"}
    BY DEF Flight, Land
  <2>2. CallsType'
    BY <1>3, <2>1, TypeCalls DEF CallsType, Labels
  <2>. QED  BY <1>1, <2>2 DEF TypeOK, CallsType
<1>. QED  BY <1>2, <1>3 DEF Land

LEMMA QueryDBType ==
  ASSUME TypeOK, NEW r \in Requests, QueryDB(r)
  PROVE  TypeOK'
<1>1. UNCHANGED <<table, cache, count, writes, deleted, skipped, tainted>>
  BY DEF QueryDB
<1>2. CASE Return({r}) /\ Counted("lost")
  BY <1>1, <1>2, ReturnType, TypeCalls, FaultsType DEF TypeOK, CallsType
<1>3. CASE /\ val' = [val EXCEPT ![r] = table[key[r]]]
           /\ Goto(r, "count")
           /\ UNCHANGED <<key, role, batch, top, faults>>
  <2>1. key[r] \in Keys /\ key[r] # NoKey
    BY HasKey, TypeCalls DEF QueryDB
  <2>. QED  BY <1>1, <1>3, <2>1 DEF TypeOK, Goto, Labels
<1>. QED  BY <1>2, <1>3 DEF QueryDB

LEMMA CountMissType ==
  ASSUME TypeOK, NEW r \in Requests, CountMiss(r)
  PROVE  TypeOK'
<1>. DEFINE n == count[key[r]][role[r]] + 1
<1>1. PICK o \in Outcomes :
        /\ Counted(o)
        /\ count' = Effect(o, [count EXCEPT ![key[r]][role[r]] = n], count)
        /\ IF n < Hot THEN Return({r}) ELSE ProceedIfOk(r, o, "set")
  BY DEF CountMiss
<1>2. pc[r] = "count" /\ UNCHANGED <<table, cache, writes, deleted, skipped, tainted>>
  BY DEF CountMiss
<1>3. key[r] \in Keys
  BY <1>2, HasKey, TypeCalls
<1>4. CallsType'
  BY <1>1, <1>2, ReturnType, ProceedIfOkType, TypeCalls DEF Labels
<1>5. count' \in [Keys -> [Roles -> Nat]]
  BY <1>1, <1>3 DEF TypeOK, Effect
<1>6. faults' \in Nat
  BY <1>1, FaultsType DEF TypeOK
<1>. QED  BY <1>2, <1>4, <1>5, <1>6 DEF TypeOK, CallsType

LEMMA SetCacheType ==
  ASSUME TypeOK, NEW r \in Requests, SetCache(r)
  PROVE  TypeOK'
<1>1. PICK o \in Outcomes :
        /\ Counted(o)
        /\ cache' = Effect(o, [cache EXCEPT ![key[r]] = val[r]], cache)
        /\ ProceedIfOk(r, o, "uncount")
  BY DEF SetCache
<1>2. pc[r] = "set" /\ UNCHANGED <<table, count, writes, deleted, skipped, tainted>>
  BY DEF SetCache
<1>3. CallsType'
  BY <1>1, <1>2, ProceedIfOkType, TypeCalls DEF Labels
<1>4. cache' \in [Keys -> Tasks \union {Absent, Miss}]
  BY <1>1 DEF TypeOK, Effect
<1>5. faults' \in Nat
  BY <1>1, FaultsType DEF TypeOK
<1>. QED  BY <1>2, <1>3, <1>4, <1>5 DEF TypeOK, CallsType

LEMMA UncountType ==
  ASSUME TypeOK, NEW r \in Requests, Uncount(r)
  PROVE  TypeOK'
<1>1. PICK o \in Outcomes :
        /\ Counted(o)
        /\ count' = Effect(o, [count EXCEPT ![key[r]][role[r]] = 0], count)
  BY DEF Uncount
<1>2. Return({r}) /\ UNCHANGED <<table, cache, writes, deleted, skipped, tainted>>
  BY DEF Uncount
<1>3. CallsType'
  BY <1>2, ReturnType, TypeCalls
<1>4. count' \in [Keys -> [Roles -> Nat]]
  BY <1>1 DEF TypeOK, Effect
<1>5. faults' \in Nat
  BY <1>1, FaultsType DEF TypeOK
<1>. QED  BY <1>2, <1>3, <1>4, <1>5 DEF TypeOK, CallsType

LEMMA DelTaskType ==
  ASSUME TypeOK, NEW r \in Requests, NEW k \in Read, DelTask(r, k)
  PROVE  TypeOK'
<1>1. k \in Keys /\ k # NoKey
  BY KeyIsPair, TaskAssumption
<1>. QED  BY <1>1 DEF TypeOK, DelTask, Goto, Labels

LEMMA DeleteRowType ==
  ASSUME TypeOK, NEW r \in Requests, DeleteRow(r)
  PROVE  TypeOK'
<1>. DEFINE k == key[r]
<1>1. PICK o \in Outcomes :
        /\ Counted(o)
        /\ table' = Effect(o, [table EXCEPT ![k] = Absent], table)
        /\ deleted' = Effect(o, deleted \union {k}, deleted)
        /\ tainted' = IF o = "unseen" \/ Late(k) # {}
                      THEN tainted \union {k} ELSE tainted
        /\ ProceedIfOk(r, o, "uncache")
  BY DEF DeleteRow
<1>2. pc[r] = "delete" /\ UNCHANGED <<cache, count, writes, skipped>>
  BY DEF DeleteRow
<1>3. k \in Keys
  BY <1>2, HasKey, TypeCalls
<1>4. CallsType'
  BY <1>1, <1>2, ProceedIfOkType, TypeCalls DEF Labels
<1>5. table' \in [Keys -> Tasks \union {Absent}] /\ deleted' \subseteq Keys
      /\ tainted' \subseteq Keys
  BY <1>1, <1>3 DEF TypeOK, Effect
<1>6. faults' \in Nat
  BY <1>1, FaultsType DEF TypeOK
<1>. QED  BY <1>2, <1>4, <1>5, <1>6 DEF TypeOK, CallsType

LEMMA UncacheType ==
  ASSUME TypeOK, NEW r \in Requests, Uncache(r)
  PROVE  TypeOK'
<1>1. PICK o \in Outcomes :
        /\ Counted(o)
        /\ cache' = Effect(o, [cache EXCEPT ![key[r]] = Miss], cache)
        /\ tainted' = Effect(o, tainted, tainted \union {key[r]})
        /\ ProceedIfOk(r, o, "uncounted")
  BY DEF Uncache
<1>2. pc[r] = "uncache" /\ UNCHANGED <<table, count, writes, deleted, skipped>>
  BY DEF Uncache
<1>3. key[r] \in Keys
  BY <1>2, HasKey, TypeCalls
<1>4. CallsType'
  BY <1>1, <1>2, ProceedIfOkType, TypeCalls DEF Labels
<1>5. cache' \in [Keys -> Tasks \union {Absent, Miss}] /\ tainted' \subseteq Keys
  BY <1>1, <1>3 DEF TypeOK, Effect
<1>6. faults' \in Nat
  BY <1>1, FaultsType DEF TypeOK
<1>. QED  BY <1>2, <1>4, <1>5, <1>6 DEF TypeOK, CallsType

LEMMA UncountFollowersType ==
  ASSUME TypeOK, NEW r \in Requests, UncountFollowers(r)
  PROVE  TypeOK'
<1>1. CallsType'
  BY ReturnType, TypeCalls DEF UncountFollowers
<1>2. count' \in [Keys -> [Roles -> Nat]]
  BY DEF UncountFollowers, TypeOK
<1>. QED  BY <1>1, <1>2 DEF TypeOK, CallsType, UncountFollowers

LEMMA NewTasksType ==
  ASSUME TypeOK, NEW r \in Requests, NEW b \in Batches, NewTasks(r, b)
  PROVE  TypeOK'
BY DEF TypeOK, NewTasks, Goto, Labels

LEMMA ReadMaxType ==
  ASSUME TypeOK, NEW r \in Requests, ReadMax(r)
  PROVE  TypeOK'
<1>1. UNCHANGED <<table, cache, count, writes, deleted, skipped, tainted>>
  BY DEF ReadMax
<1>2. CASE Return({r}) /\ Counted("lost")
  BY <1>1, <1>2, ReturnType, TypeCalls, FaultsType DEF TypeOK, CallsType
<1>3. CASE /\ top' = [top EXCEPT ![r] = Max(Used(batch[r][1].level) \union {0})]
           /\ Goto(r, "insert")
           /\ UNCHANGED <<key, role, val, batch, faults>>
  <2>1. Max(Used(batch[r][1].level) \union {0}) \in Nat
    BY UsedType
  <2>2. pc[r] = "max"
    BY DEF ReadMax
  <2>3. top' \in [Requests -> Nat]
    BY <1>3, <2>1 DEF TypeOK
  <2>. QED  BY <1>1, <1>3, <2>2, <2>3 DEF TypeOK, Goto, Labels
<1>. QED  BY <1>2, <1>3 DEF ReadMax

\* What an insertion does to the table: the i-th task of the batch goes to the
\* i-th position after the largest one read, in its own level.
LEMMA SlotOfBatch ==
  ASSUME TypeOK, NEW r \in Requests, NEW k \in Slots(r)
  PROVE  /\ k[2] - top[r] \in DOMAIN batch[r]
         /\ k = Slot(r, k[2] - top[r])
         /\ batch[r] \in Batches
         /\ batch[r][k[2] - top[r]] \in [level : Levels, task : Tasks]
<1>1. PICK i \in DOMAIN batch[r] : k = Slot(r, i)
  BY DEF Slots
<1>2. batch[r] \in Batches
  BY <1>1 DEF TypeOK
<1>3. batch[r] \in Seq([level : Levels, task : Tasks])
  BY <1>2, TaskAssumption
<1>4. i \in Nat /\ top[r] \in Nat
  BY <1>1, <1>3, ElementType DEF TypeOK
<1>5. k[2] = top[r] + i
  BY <1>1 DEF Slot
<1>6. k[2] - top[r] = i
  BY <1>4, <1>5
<1>7. batch[r][i] \in [level : Levels, task : Tasks]
  BY <1>1, <1>3, ElementType, Zenon
<1>8. k = Slot(r, k[2] - top[r])
  BY <1>1, <1>6, Zenon
<1>9. k[2] - top[r] \in DOMAIN batch[r]
  BY <1>1, <1>6, Zenon
<1>10. batch[r][k[2] - top[r]] \in [level : Levels, task : Tasks]
  BY <1>6, <1>7, Zenon
<1>. QED  BY <1>2, <1>8, <1>9, <1>10

\* An insertion puts the rows of the batch in, and notes the positions that a
\* batch of several levels goes past, or leaves both as they are.
LEMMA InsertSteps ==
  ASSUME NEW r \in Requests, Insert(r)
  PROVE  \/ UNCHANGED <<table, skipped>>
         \/ /\ table' = [k \in Keys |->
                           IF k \in Slots(r) THEN batch[r][k[2] - top[r]].task ELSE table[k]]
            /\ skipped' = skipped \union (IF Mixed(r) THEN Passed(r) ELSE {})
            /\ \A k \in Slots(r) : table[k] = Absent
BY DEF Insert

LEMMA InsertType ==
  ASSUME TypeOK, NEW r \in Requests, Insert(r)
  PROVE  TypeOK'
<1>1. /\ Return({r}) /\ UNCHANGED <<cache, count, writes, deleted, tainted>>
      /\ \E o : Counted(o)
  BY DEF Insert
<1>2. CallsType'
  BY <1>1, ReturnType, TypeCalls
<1>3. \A k \in Slots(r) : batch[r][k[2] - top[r]].task \in Tasks
  BY SlotOfBatch
<1>4. table' \in [Keys -> Tasks \union {Absent}]
  <2>1. CASE table' = table
    BY <2>1 DEF TypeOK
  <2>2. CASE table' = [k \in Keys |-> IF k \in Slots(r) THEN batch[r][k[2] - top[r]].task
                                      ELSE table[k]]
    BY <1>3, <2>2 DEF TypeOK
  <2>. QED  BY <2>1, <2>2, InsertSteps
<1>5. skipped' \subseteq Keys
  BY InsertSteps DEF Passed, TypeOK
<1>6. faults' \in Nat
  BY <1>1, FaultsType DEF TypeOK
<1>. QED  BY <1>1, <1>2, <1>4, <1>5, <1>6 DEF TypeOK, CallsType

LEMMA RestartType ==
  ASSUME TypeOK, Restart
  PROVE  TypeOK'
<1>1. CallsType'
  BY ReturnType, TypeCalls DEF Restart
<1>2. tainted' \subseteq Keys
  <2>1. \A q \in Requests : pc[q] = "uncache" => key[q] \in Keys
    BY HasKey, TypeCalls
  <2>. QED  BY <2>1 DEF Restart, TypeOK
<1>3. faults' \in Nat
  BY FaultsType DEF Restart, TypeOK
<1>. QED  BY <1>1, <1>2, <1>3 DEF Restart, TypeOK, CallsType

LEMMA TypeNext == TypeOK /\ [Next]_vars => TypeOK'
<1>. SUFFICES ASSUME TypeOK, [Next]_vars PROVE TypeOK'
  OBVIOUS
<1>1. ASSUME NEW r \in Requests, NEW k \in Read, GetTasks(r, k) \/ DelTask(r, k)
      PROVE  TypeOK'
  BY <1>1, GetTasksType, DelTaskType
<1>2. ASSUME NEW r \in Requests, NEW b \in Batches, NewTasks(r, b)
      PROVE  TypeOK'
  BY <1>2, NewTasksType
<1>3. ASSUME NEW r \in Requests, Step(r)
      PROVE  TypeOK'
  BY <1>3, FetchCacheType, LandType, QueryDBType, CountMissType, SetCacheType,
     UncountType, DeleteRowType, UncacheType, UncountFollowersType, ReadMaxType,
     InsertType DEF Step
<1>4. ASSUME NEW k \in Keys, Expire(k)
      PROVE  TypeOK'
  BY <1>4 DEF TypeOK, Expire, calls
<1>5. ASSUME NEW k \in Keys, NEW x \in Roles, ExpireCount(k, x)
      PROVE  TypeOK'
  BY <1>5 DEF TypeOK, ExpireCount, calls
<1>6. CASE Restart
  BY <1>6, RestartType
<1>7. CASE UNCHANGED vars
  BY <1>7 DEF TypeOK, vars, calls
<1>. QED  BY <1>1, <1>2, <1>3, <1>4, <1>5, <1>6, <1>7 DEF Next

\* All variables of the task service have their types.
THEOREM TypeCorrect == Spec => []TypeOK
BY TypeInit, TypeNext, PTL DEF Spec

-----------------------------------------------------------------------------
(* The counters of misses.                                                 *)

Slack == faults * Cardinality(Requests)

LEMMA SlackStep ==
  ASSUME faults \in Nat
  PROVE  /\ Cardinality(Requests) \in Nat /\ Slack \in Nat
         /\ faults' = faults => Slack' = Slack
         /\ faults' = faults + 1 => Slack' = Slack + Cardinality(Requests)
<1>1. Cardinality(Requests) \in Nat
  BY FS_CardinalityType, TaskAssumption
<1>. DEFINE N == Cardinality(Requests)
<1>2. \A f \in Nat : f * N \in Nat /\ (f + 1) * N = f * N + N
  <2>. HIDE DEF N
  <2>. QED  BY <1>1 DEF N
<1>. QED  BY <1>1, <1>2 DEF Slack

\* There are at most as many calls about to cache a key as there are calls.
LEMMA CachingType ==
  ASSUME NEW C \in SUBSET Requests
  PROVE  /\ IsFiniteSet(C) /\ Cardinality(C) \in Nat
         /\ Cardinality(C) <= Cardinality(Requests)
BY FS_Subset, FS_CardinalityType, TaskAssumption

\* Calls about to cache a key stay so.
Keeps ==
  \A q \in Requests : pc[q] \in {"set", "uncount"} =>
    /\ pc'[q] \in {"set", "uncount"}
    /\ key'[q] = key[q] /\ role'[q] = role[q]

\* A step that counts no miss.
LEMMA NothingCounted ==
  ASSUME TypeOK, CounterBounded, TypeOK',
         NEW k \in Keys, NEW x \in Roles,
         count'[k][x] <= count[k][x],
         faults' \in {faults, faults + 1}, Keeps \/ faults' = faults + 1
  PROVE  count'[k][x] <= Hot - 1 + Cardinality(Caching(k, x)') + Slack'
<1>1. /\ count[k][x] <= Hot - 1 + Cardinality(Caching(k, x)) + Slack
      /\ count[k][x] \in Nat /\ count'[k][x] \in Nat /\ faults \in Nat /\ Hot \in Nat
  BY TaskAssumption DEF CounterBounded, Slack, TypeOK
<1>2. Caching(k, x) \subseteq Requests /\ Caching(k, x)' \subseteq Requests
  BY DEF Caching
<1>3. /\ Cardinality(Caching(k, x)) \in Nat /\ Cardinality(Caching(k, x)') \in Nat
      /\ Cardinality(Caching(k, x)) <= Cardinality(Requests)
  BY <1>2, CachingType
<1>4. CASE faults' = faults + 1
  <2>1. Slack' = Slack + Cardinality(Requests) /\ Cardinality(Requests) \in Nat /\ Slack \in Nat
    BY <1>1, <1>4, SlackStep
  <2>. QED  BY <1>1, <1>3, <2>1
<1>5. CASE faults' = faults /\ Keeps
  <2>1. Slack' = Slack /\ Slack \in Nat
    BY <1>1, <1>5, SlackStep
  <2>2. Caching(k, x) \subseteq Caching(k, x)'
    BY <1>5 DEF Keeps, Caching
  <2>3. Cardinality(Caching(k, x)) <= Cardinality(Caching(k, x)')
    BY <1>2, <2>2, CachingType, FS_Subset
  <2>. QED  BY <1>1, <1>3, <2>1, <2>3
<1>. QED  BY <1>4, <1>5

LEMMA Uncounting ==
  ASSUME TypeOK, CounterBounded, TypeOK',
         \A k \in Keys, x \in Roles : count'[k][x] <= count[k][x],
         faults' \in {faults, faults + 1}, Keeps \/ faults' = faults + 1
  PROVE  CounterBounded'
BY NothingCounted DEF CounterBounded, Slack

LEMMA SameCount ==
  ASSUME TypeOK
  PROVE  \A k \in Keys, x \in Roles : count[k][x] <= count[k][x]
BY DEF TypeOK

LEMMA FaultStep ==
  ASSUME NEW o, Counted(o)
  PROVE  /\ faults' \in {faults, faults + 1}
         /\ o # "ok" => faults' = faults + 1
BY DEF Counted

\* Calls that are not about to cache a key may return.
LEMMA ReturnKeeps ==
  ASSUME NEW R, Return(R), \A q \in R \intersect Requests : pc[q] \notin {"set", "uncount"}
  PROVE  Keeps
BY DEF Return, Keeps

LEMMA CountMissBounded ==
  ASSUME TypeOK, TypeOK', CounterBounded, NEW r \in Requests, CountMiss(r)
  PROVE  CounterBounded'
<1>. DEFINE n == count[key[r]][role[r]] + 1
<1>1. PICK o \in Outcomes :
        /\ Counted(o)
        /\ count' = Effect(o, [count EXCEPT ![key[r]][role[r]] = n], count)
        /\ IF n < Hot THEN Return({r}) ELSE ProceedIfOk(r, o, "set")
  BY DEF CountMiss
<1>2. pc[r] = "count" /\ key[r] \in Keys /\ role[r] \in Roles
  BY HasKey, TypeCalls DEF CountMiss, TypeOK
<1>3. faults' \in {faults, faults + 1} /\ (o # "ok" => faults' = faults + 1)
  BY <1>1, FaultStep
<1>4. Keeps
  <2>1. CASE Return({r})
    BY <2>1, <1>2, ReturnKeeps
  <2>2. CASE Proceed(r, "set")
    BY <2>2, <1>2 DEF Proceed, Goto, Keeps, TypeOK
  <2>. QED  BY <2>1, <2>2, <1>1 DEF ProceedIfOk
<1>. SUFFICES ASSUME NEW k \in Keys, NEW x \in Roles
              PROVE  count'[k][x] <= Hot - 1 + Cardinality(Caching(k, x)') + Slack'
  BY DEF CounterBounded, Slack
<1>5. CASE o = "lost" \/ k # key[r] \/ x # role[r]
  <2>1. count'[k][x] = count[k][x]
    BY <1>1, <1>2, <1>5 DEF TypeOK, Effect
  <2>2. count'[k][x] <= count[k][x]
    BY <2>1 DEF TypeOK
  <2>. QED  BY <2>2, <1>3, <1>4, NothingCounted
<1>6. CASE o # "lost" /\ k = key[r] /\ x = role[r]
  <2>1. count'[k][x] = n /\ n = count[k][x] + 1 /\ count[k][x] \in Nat
    BY <1>1, <1>2, <1>6 DEF TypeOK, Effect
  <2>2. Caching(k, x) \subseteq Requests /\ Caching(k, x)' \subseteq Requests
    BY DEF Caching
  <2>3. /\ Cardinality(Caching(k, x)) \in Nat /\ Cardinality(Caching(k, x)') \in Nat
        /\ IsFiniteSet(Caching(k, x)) /\ IsFiniteSet(Caching(k, x)')
    BY <2>2, CachingType
  <2>4. Caching(k, x) \subseteq Caching(k, x)'
    BY <1>4 DEF Keeps, Caching
  <2>5. Cardinality(Caching(k, x)) <= Cardinality(Caching(k, x)')
    BY <2>3, <2>4, FS_Subset
  <2>6. count[k][x] <= Hot - 1 + Cardinality(Caching(k, x)) + Slack
    BY DEF CounterBounded, Slack
  <2>7. Hot \in Nat /\ Slack \in Nat /\ Slack' \in Nat
    BY TaskAssumption, SlackStep, <1>3 DEF TypeOK
  <2>8. CASE n < Hot
    BY <2>1, <2>3, <2>7, <2>8
  <2>9. CASE ~ (n < Hot) /\ o = "ok"
    <3>1. Proceed(r, "set")
      BY <2>9, <1>1 DEF ProceedIfOk
    <3>2. r \in Caching(k, x)' /\ r \notin Caching(k, x)
      BY <3>1, <1>2, <1>6 DEF Proceed, Goto, Caching, TypeOK
    <3>3. Cardinality(Caching(k, x) \union {r}) = Cardinality(Caching(k, x)) + 1
      BY <3>2, <2>3, FS_AddElement
    <3>4. Caching(k, x) \union {r} \subseteq Caching(k, x)'
      BY <3>2, <2>4
    <3>5. Cardinality(Caching(k, x)) + 1 <= Cardinality(Caching(k, x)')
      BY <3>3, <3>4, <2>3, FS_Subset
    <3>6. Slack' >= Slack
      BY <1>3, <2>7, SlackStep DEF TypeOK
    <3>. QED  BY <2>1, <2>3, <2>6, <2>7, <3>5, <3>6
  <2>10. CASE o # "ok"
    <3>1. Slack' = Slack + Cardinality(Requests)
      BY <2>10, <1>3, SlackStep DEF TypeOK
    <3>2. Cardinality(Requests) >= 1 /\ Cardinality(Requests) \in Nat
      <4>1. Cardinality({r}) = 1 /\ {r} \subseteq Requests
        BY FS_Singleton
      <4>. QED  BY <4>1, CachingType, SlackStep DEF TypeOK
    <3>. QED  BY <2>1, <2>3, <2>5, <2>6, <2>7, <3>1, <3>2
  <2>. QED  BY <2>8, <2>9, <2>10
<1>. QED  BY <1>5, <1>6

LEMMA CounterInit == Init => CounterBounded
<1>. SUFFICES ASSUME Init, NEW k \in Keys, NEW x \in Roles
              PROVE  count[k][x] <= Hot - 1 + Cardinality(Caching(k, x)) + Slack
  BY DEF CounterBounded, Slack
<1>1. count[k][x] = 0 /\ Hot \in Nat \ {0}
  BY TaskAssumption DEF Init
<1>2. Cardinality(Caching(k, x)) \in Nat
  BY CachingType DEF Caching
<1>3. Slack \in Nat
  BY SlackStep DEF Init
<1>. QED  BY <1>1, <1>2, <1>3

LEMMA SetCacheBounded ==
  ASSUME TypeOK, TypeOK', CounterBounded, NEW r \in Requests, SetCache(r)
  PROVE  CounterBounded'
<1>1. PICK o \in Outcomes : Counted(o) /\ ProceedIfOk(r, o, "uncount")
  BY DEF SetCache
<1>2. pc[r] = "set" /\ count' = count
  BY DEF SetCache
<1>3. CASE o = "ok"
  <2>1. Keeps
    BY <1>1, <1>2, <1>3 DEF ProceedIfOk, Proceed, Goto, Keeps, TypeOK
  <2>. QED  BY <1>1, <1>2, <2>1, FaultStep, SameCount, Uncounting
<1>4. CASE o # "ok"
  BY <1>1, <1>2, <1>4, FaultStep, SameCount, Uncounting
<1>. QED  BY <1>3, <1>4

LEMMA UncountBounded ==
  ASSUME TypeOK, TypeOK', CounterBounded, NEW r \in Requests, Uncount(r)
  PROVE  CounterBounded'
<1>1. PICK o \in Outcomes :
        /\ Counted(o)
        /\ count' = Effect(o, [count EXCEPT ![key[r]][role[r]] = 0], count)
  BY DEF Uncount
<1>2. pc[r] = "uncount" /\ Return({r}) /\ key[r] \in Keys /\ role[r] \in Roles
  BY HasKey, TypeCalls DEF Uncount, TypeOK
<1>3. \A k \in Keys, x \in Roles : count'[k][x] <= count[k][x]
  BY <1>1, <1>2 DEF TypeOK, Effect
<1>4. CASE o # "ok"
  BY <1>1, <1>3, <1>4, FaultStep, Uncounting
<1>5. CASE o = "ok"
  <2>1. faults' = faults /\ faults \in Nat
    BY <1>1, <1>5 DEF Counted, TypeOK
  <2>. SUFFICES ASSUME NEW k \in Keys, NEW x \in Roles
                PROVE  count'[k][x] <= Hot - 1 + Cardinality(Caching(k, x)') + Slack'
    BY DEF CounterBounded, Slack
  <2>2. /\ Cardinality(Caching(k, x)) \in Nat /\ Cardinality(Caching(k, x)') \in Nat
        /\ Slack' = Slack /\ Slack \in Nat /\ Hot \in Nat \ {0}
    BY <2>1, CachingType, SlackStep, TaskAssumption DEF Caching
  <2>3. CASE k = key[r] /\ x = role[r]
    <3>1. count'[k][x] = 0
      BY <1>1, <1>5, <2>3 DEF TypeOK, Effect
    <3>. QED  BY <3>1, <2>2
  <2>4. CASE ~ (k = key[r] /\ x = role[r])
    <3>1. Caching(k, x) \subseteq Caching(k, x)'
      BY <1>2, <2>4 DEF Return, Caching, TypeOK
    <3>2. Cardinality(Caching(k, x)) <= Cardinality(Caching(k, x)')
      <4>1. Caching(k, x)' \subseteq Requests
        BY DEF Caching
      <4>. QED  BY <4>1, <3>1, CachingType, FS_Subset
    <3>3. count[k][x] <= Hot - 1 + Cardinality(Caching(k, x)) + Slack
      BY DEF CounterBounded, Slack
    <3>4. count'[k][x] \in Nat /\ count[k][x] \in Nat
      BY DEF TypeOK
    <3>. QED  BY <1>3, <2>2, <3>2, <3>3, <3>4
  <2>. QED  BY <2>3, <2>4
<1>. QED  BY <1>4, <1>5

LEMMA CounterNext == TypeOK /\ CounterBounded /\ [Next]_vars => CounterBounded'
<1>. SUFFICES ASSUME TypeOK, CounterBounded, [Next]_vars  PROVE  CounterBounded'
  OBVIOUS
<1>1. TypeOK' /\ faults \in Nat
  BY TypeNext DEF TypeOK
<1>2. ASSUME NEW r \in Requests, NEW k \in Read, GetTasks(r, k) \/ DelTask(r, k)
      PROVE  CounterBounded'
  <2>1. Keeps
    BY <1>2 DEF GetTasks, DelTask, Goto, Keeps, TypeOK
  <2>2. count' = count /\ faults' = faults
    BY <1>2 DEF GetTasks, DelTask
  <2>. QED  BY <1>1, <2>1, <2>2, SameCount, Uncounting
<1>3. ASSUME NEW r \in Requests, NEW b \in Batches, NewTasks(r, b)
      PROVE  CounterBounded'
  <2>1. Keeps
    BY <1>3 DEF NewTasks, Goto, Keeps, TypeOK
  <2>2. count' = count /\ faults' = faults
    BY <1>3 DEF NewTasks
  <2>. QED  BY <1>1, <2>1, <2>2, SameCount, Uncounting
<1>4. ASSUME NEW r \in Requests, FetchCache(r)
      PROVE  CounterBounded'
  <2>1. Keeps
    BY <1>4 DEF FetchCache, Goto, Keeps, TypeOK
  <2>2. count' = count /\ faults' \in {faults, faults + 1}
    BY <1>4, FaultStep DEF FetchCache
  <2>. QED  BY <1>1, <2>1, <2>2, SameCount, Uncounting
<1>5. ASSUME NEW r \in Requests, Land(r)
      PROVE  CounterBounded'
  <2>1. \A q \in Flight(r) : pc[q] \notin {"set", "uncount"}
    BY <1>5 DEF Flight, Land
  <2>2. Keeps
    <3>1. CASE Return(Flight(r))
      BY <3>1, <2>1, ReturnKeeps
    <3>2. CASE /\ pc' = [q \in Requests |-> IF q \in Flight(r) THEN "query" ELSE pc[q]]
               /\ UNCHANGED <<key, role, val, batch, top>>
      BY <3>2, <2>1 DEF Keeps
    <3>. QED  BY <3>1, <3>2, <1>5 DEF Land
  <2>3. count' = count /\ faults' = faults
    BY <1>5 DEF Land
  <2>. QED  BY <1>1, <2>2, <2>3, SameCount, Uncounting
<1>6. ASSUME NEW r \in Requests, QueryDB(r) \/ ReadMax(r)
      PROVE  CounterBounded'
  <2>1. pc[r] \notin {"set", "uncount"}
    BY <1>6 DEF QueryDB, ReadMax
  <2>2. Keeps
    <3>1. CASE Return({r})
      BY <3>1, <2>1, ReturnKeeps
    <3>2. CASE \E label \in Labels : Goto(r, label) /\ UNCHANGED <<key, role>>
      BY <3>2, <2>1 DEF Keeps, Goto, TypeOK
    <3>. QED  BY <3>1, <3>2, <1>6 DEF QueryDB, ReadMax, Labels
  <2>3. count' = count /\ faults' \in {faults, faults + 1}
    BY <1>6, FaultStep DEF QueryDB, ReadMax
  <2>. QED  BY <1>1, <2>2, <2>3, SameCount, Uncounting
<1>7. ASSUME NEW r \in Requests, DeleteRow(r) \/ Uncache(r)
      PROVE  CounterBounded'
  <2>1. PICK o \in Outcomes, label \in {"uncache", "uncounted"} :
          Counted(o) /\ ProceedIfOk(r, o, label)
    BY <1>7 DEF DeleteRow, Uncache
  <2>2. pc[r] \notin {"set", "uncount"} /\ count' = count
    BY <1>7 DEF DeleteRow, Uncache
  <2>3. Keeps
    <3>1. CASE Return({r})
      BY <3>1, <2>2, ReturnKeeps
    <3>2. CASE Proceed(r, label)
      BY <3>2, <2>2 DEF Keeps, Proceed, Goto, TypeOK
    <3>. QED  BY <3>1, <3>2, <2>1 DEF ProceedIfOk
  <2>. QED  BY <1>1, <2>1, <2>2, <2>3, FaultStep, SameCount, Uncounting
<1>8. ASSUME NEW r \in Requests, UncountFollowers(r)
      PROVE  CounterBounded'
  <2>1. Return({r}) /\ pc[r] = "uncounted" /\ faults' = faults
    BY <1>8 DEF UncountFollowers
  <2>2. \A k \in Keys, x \in Roles : count'[k][x] <= count[k][x]
    BY <1>8 DEF UncountFollowers, TypeOK, Roles
  <2>. QED  BY <1>1, <2>1, <2>2, ReturnKeeps, Uncounting
<1>9. ASSUME NEW r \in Requests, Insert(r)
      PROVE  CounterBounded'
  <2>1. Return({r}) /\ pc[r] = "insert" /\ count' = count /\ faults' \in {faults, faults + 1}
    BY <1>9, FaultStep DEF Insert
  <2>. QED  BY <1>1, <2>1, ReturnKeeps, SameCount, Uncounting
<1>10. ASSUME NEW k \in Keys, Expire(k)
       PROVE  CounterBounded'
  <2>1. Keeps /\ count' = count /\ faults' = faults
    BY <1>10 DEF Expire, calls, Keeps
  <2>. QED  BY <1>1, <2>1, SameCount, Uncounting
<1>11. ASSUME NEW k \in Keys, NEW x \in Roles, ExpireCount(k, x)
       PROVE  CounterBounded'
  <2>1. Keeps /\ faults' = faults
    BY <1>11 DEF ExpireCount, calls, Keeps
  <2>2. \A l \in Keys, y \in Roles : count'[l][y] <= count[l][y]
    BY <1>11 DEF ExpireCount, TypeOK
  <2>. QED  BY <1>1, <2>1, <2>2, Uncounting
<1>12. CASE Restart
  <2>1. count' = count /\ faults' = faults + 1
    BY <1>12 DEF Restart, Counted
  <2>. QED  BY <1>1, <2>1, SameCount, Uncounting
<1>13. CASE UNCHANGED vars
  <2>1. Keeps /\ count' = count /\ faults' = faults
    BY <1>13 DEF vars, calls, Keeps
  <2>. QED  BY <1>1, <2>1, SameCount, Uncounting
<1>. QED  BY <1>1, <1>2, <1>3, <1>4, <1>5, <1>6, <1>7, <1>8, <1>9, <1>10, <1>11, <1>12,
          <1>13, CountMissBounded, SetCacheBounded, UncountBounded DEF Next, Step

\* The counter of a key's misses exceeds the threshold by the calls about to
\* cache the key and delete the counter, and by the calls that failed to.
THEOREM CountersAreBounded == Spec => []CounterBounded
BY TypeInit, TypeNext, CounterInit, CounterNext, PTL DEF Spec

-----------------------------------------------------------------------------
(* Deleted tasks in the cache.                                             *)

\* A call about to cache a task that is not in the table any more has been
\* noticed by the deletion.
ReadersKnown ==
  \A q \in Requests :
    pc[q] \in {"count", "set"} /\ val[q] \in Tasks /\ val[q] # table[key[q]]
      => key[q] \in tainted

StaleInv == StaleOnlyByRace /\ ReadersKnown

\* A call about to cache what it read stays so, or begins with what it has
\* just read.
ReadersKept ==
  \A q \in Requests : pc'[q] \in {"count", "set"} =>
    \/ pc[q] \in {"count", "set"} /\ key'[q] = key[q] /\ val'[q] = val[q]
    \/ val'[q] = table[key'[q]]

\* A call about to invalidate stays so, or the entry goes, or its invalidation
\* has failed.
PendingKept ==
  \A q \in Requests : pc[q] = "uncache" =>
    \/ pc'[q] = "uncache" /\ key'[q] = key[q]
    \/ key[q] \in tainted'
    \/ cache'[key[q]] = Miss

LEMMA Calm ==
  ASSUME StaleInv, table' = table, tainted \subseteq tainted',
         \A k \in Keys : cache'[k] \in {cache[k], Miss},
         ReadersKept, PendingKept
  PROVE  StaleInv'
<1>1. ReadersKnown'
  BY DEF StaleInv, ReadersKnown, ReadersKept
<1>2. ASSUME NEW k \in Keys, cache'[k] \in Tasks, cache'[k] # table[k]
      PROVE  k \in tainted' \/ Pending(k)'
  <2>1. Miss \notin Tasks
    BY TaskAssumption
  <2>2. cache'[k] = cache[k]
    BY <1>2, <2>1
  <2>3. k \in tainted \/ \E q \in Requests : pc[q] = "uncache" /\ key[q] = k
    BY <1>2, <2>2 DEF StaleInv, StaleOnlyByRace, Pending
  <2>. QED  BY <1>2, <2>1, <2>3 DEF Pending, PendingKept
<1>. QED  BY <1>1, <1>2 DEF StaleInv, StaleOnlyByRace

\* Calls that return, others that neither cache nor invalidate going on.
LEMMA ReturnCalm ==
  ASSUME NEW R, Return(R), \A q \in R \intersect Requests : pc[q] # "uncache"
  PROVE  ReadersKept /\ PendingKept
BY DEF Return, ReadersKept, PendingKept

\* A call that goes on to where it does not cache.
LEMMA GotoCalm ==
  ASSUME TypeOK, NEW r \in Requests, pc[r] # "uncache",
         NEW label, label \notin {"count", "set"}, Goto(r, label),
         \A q \in Requests \ {r} : key'[q] = key[q] /\ val'[q] = val[q]
  PROVE  ReadersKept /\ PendingKept
BY DEF Goto, ReadersKept, PendingKept, TypeOK

LEMMA SetCacheStale ==
  ASSUME TypeOK, StaleInv, NEW r \in Requests, SetCache(r)
  PROVE  StaleInv'
<1>1. PICK o \in Outcomes :
        /\ Counted(o)
        /\ cache' = Effect(o, [cache EXCEPT ![key[r]] = val[r]], cache)
        /\ ProceedIfOk(r, o, "uncount")
  BY DEF SetCache
<1>2. pc[r] = "set" /\ table' = table /\ tainted' = tainted
  BY DEF SetCache
<1>3. key[r] \in Keys
  BY <1>2, HasKey, TypeCalls
<1>4. ReadersKept /\ PendingKept
  <2>1. CASE Return({r})
    BY <2>1, <1>2, ReturnCalm
  <2>2. CASE Proceed(r, "uncount")
    BY <2>2, <1>2, GotoCalm DEF Proceed
  <2>. QED  BY <2>1, <2>2, <1>1 DEF ProceedIfOk
<1>5. ReadersKnown'
  BY <1>2, <1>4 DEF StaleInv, ReadersKnown, ReadersKept
<1>6. ASSUME NEW k \in Keys, cache'[k] \in Tasks, cache'[k] # table[k]
      PROVE  k \in tainted' \/ Pending(k)'
  <2>1. CASE k = key[r] /\ cache'[k] = val[r]
    BY <2>1, <1>2, <1>6 DEF StaleInv, ReadersKnown
  <2>2. CASE cache'[k] = cache[k]
    <3>1. k \in tainted \/ \E q \in Requests : pc[q] = "uncache" /\ key[q] = k
      BY <2>2, <1>6 DEF StaleInv, StaleOnlyByRace, Pending
    <3>2. \A q \in Requests : pc[q] = "uncache" => pc'[q] = "uncache" /\ key'[q] = key[q]
      BY <1>1, <1>2 DEF ProceedIfOk, Proceed, Goto, Return, TypeOK
    <3>. QED  BY <3>1, <3>2, <1>2 DEF Pending
  <2>. QED  BY <2>1, <2>2, <1>1, <1>3 DEF Effect, TypeOK
<1>. QED  BY <1>2, <1>5, <1>6 DEF StaleInv, StaleOnlyByRace

LEMMA DeleteRowStale ==
  ASSUME TypeOK, StaleInv, NEW r \in Requests, DeleteRow(r)
  PROVE  StaleInv'
<1>. DEFINE k == key[r]
<1>1. PICK o \in Outcomes :
        /\ table' = Effect(o, [table EXCEPT ![k] = Absent], table)
        /\ tainted' = IF o = "unseen" \/ Late(k) # {}
                      THEN tainted \union {k} ELSE tainted
        /\ ProceedIfOk(r, o, "uncache")
  BY DEF DeleteRow
<1>2. pc[r] = "delete" /\ cache' = cache /\ tainted \subseteq tainted'
  BY <1>1 DEF DeleteRow
<1>3. k \in Keys
  BY <1>2, HasKey, TypeCalls
<1>4. \A l \in Keys : l # k => table'[l] = table[l]
  BY <1>1, <1>3 DEF Effect, TypeOK
<1>5. /\ \A q \in Requests : pc'[q] \in {"count", "set"} =>
             pc[q] \in {"count", "set"} /\ key'[q] = key[q] /\ val'[q] = val[q]
      /\ \A q \in Requests : pc[q] = "uncache" => pc'[q] = "uncache" /\ key'[q] = key[q]
      /\ o = "ok" => pc'[r] = "uncache" /\ key'[r] = k
  BY <1>1, <1>2 DEF ProceedIfOk, Proceed, Goto, Return, TypeOK
<1>6. ReadersKnown'
  <2>. SUFFICES ASSUME NEW q \in Requests, pc'[q] \in {"count", "set"},
                       val'[q] \in Tasks, val'[q] # table'[key'[q]]
                PROVE  key'[q] \in tainted'
    BY DEF ReadersKnown
  <2>1. pc[q] \in {"count", "set"} /\ key'[q] = key[q] /\ val'[q] = val[q] /\ key[q] \in Keys
    BY <1>5, HasKey, TypeCalls
  <2>2. CASE key[q] = k
    <3>1. q \in Late(k)
      BY <2>1, <2>2 DEF Late
    <3>. QED  BY <3>1, <1>1, <2>1, <2>2
  <2>3. CASE key[q] # k
    <3>1. val[q] # table[key[q]]
      BY <2>1, <2>3, <1>4
    <3>. QED  BY <3>1, <2>1, <1>2 DEF StaleInv, ReadersKnown
  <2>. QED  BY <2>2, <2>3
<1>7. ASSUME NEW l \in Keys, cache'[l] \in Tasks, cache'[l] # table'[l]
      PROVE  l \in tainted' \/ Pending(l)'
  <2>1. CASE l = k /\ o # "lost"
    <3>1. CASE o = "ok"
      BY <3>1, <2>1, <1>5 DEF Pending
    <3>2. CASE o = "unseen"
      BY <3>2, <2>1, <1>1
    <3>. QED  BY <3>1, <3>2, <2>1 DEF Outcomes
  <2>2. CASE l # k \/ o = "lost"
    <3>1. table'[l] = table[l]
      BY <2>2, <1>1, <1>4 DEF Effect
    <3>2. l \in tainted \/ \E q \in Requests : pc[q] = "uncache" /\ key[q] = l
      BY <3>1, <1>2, <1>7 DEF StaleInv, StaleOnlyByRace, Pending
    <3>. QED  BY <3>2, <1>2, <1>5 DEF Pending
  <2>. QED  BY <2>1, <2>2
<1>. QED  BY <1>6, <1>7 DEF StaleInv, StaleOnlyByRace

LEMMA InsertStale ==
  ASSUME TypeOK, StaleInv, NEW r \in Requests, Insert(r)
  PROVE  StaleInv'
<1>1. Return({r}) /\ pc[r] = "insert" /\ cache' = cache /\ tainted' = tainted
  BY DEF Insert
<1>2. \A k \in Keys : table'[k] = table[k] \/ table[k] = Absent
  BY DEF Insert, TypeOK
<1>3. Absent \notin Tasks
  BY TaskAssumption
<1>4. \A q \in Requests : q # r => pc'[q] = pc[q] /\ key'[q] = key[q] /\ val'[q] = val[q]
  BY <1>1 DEF Return
<1>5. ReadersKnown'
  <2>. SUFFICES ASSUME NEW q \in Requests, pc'[q] \in {"count", "set"},
                       val'[q] \in Tasks, val'[q] # table'[key'[q]]
                PROVE  key'[q] \in tainted'
    BY DEF ReadersKnown
  <2>1. q # r
    BY <1>1 DEF Return
  <2>2. key[q] \in Keys /\ pc[q] \in {"count", "set"} /\ key'[q] = key[q] /\ val'[q] = val[q]
    BY <2>1, <1>4, HasKey, TypeCalls
  <2>3. val[q] # table[key[q]]
    BY <2>2, <1>2, <1>3
  <2>. QED  BY <2>2, <2>3, <1>1 DEF StaleInv, ReadersKnown
<1>6. ASSUME NEW k \in Keys, cache'[k] \in Tasks, cache'[k] # table'[k]
      PROVE  k \in tainted' \/ Pending(k)'
  <2>1. cache[k] # table[k]
    BY <1>1, <1>2, <1>3, <1>6
  <2>2. k \in tainted \/ \E q \in Requests : pc[q] = "uncache" /\ key[q] = k
    BY <2>1, <1>1, <1>6 DEF StaleInv, StaleOnlyByRace, Pending
  <2>. QED  BY <2>2, <1>1, <1>4 DEF Pending
<1>. QED  BY <1>5, <1>6 DEF StaleInv, StaleOnlyByRace

LEMMA StaleNext == TypeOK /\ StaleInv /\ [Next]_vars => StaleInv'
<1>. SUFFICES ASSUME TypeOK, StaleInv, [Next]_vars  PROVE  StaleInv'
  OBVIOUS
<1>1. ASSUME NEW r \in Requests, NEW k \in Read, GetTasks(r, k)
      PROVE  StaleInv'
  <2>1. ReadersKept /\ PendingKept
    BY <1>1, GotoCalm DEF GetTasks
  <2>. QED  BY <1>1, <2>1, Calm DEF GetTasks
<1>2. ASSUME NEW r \in Requests, NEW k \in Read, DelTask(r, k)
      PROVE  StaleInv'
  <2>1. ReadersKept /\ PendingKept
    BY <1>2, GotoCalm DEF DelTask
  <2>. QED  BY <1>2, <2>1, Calm DEF DelTask
<1>3. ASSUME NEW r \in Requests, NEW b \in Batches, NewTasks(r, b)
      PROVE  StaleInv'
  <2>1. ReadersKept /\ PendingKept
    BY <1>3, GotoCalm DEF NewTasks
  <2>. QED  BY <1>3, <2>1, Calm DEF NewTasks
<1>4. ASSUME NEW r \in Requests, FetchCache(r)
      PROVE  StaleInv'
  <2>1. \A q \in Requests \ {r} : key'[q] = key[q] /\ val'[q] = val[q]
    BY <1>4 DEF FetchCache, TypeOK
  <2>2. ReadersKept /\ PendingKept
    BY <1>4, <2>1, GotoCalm DEF FetchCache
  <2>. QED  BY <1>4, <2>2, Calm DEF FetchCache
<1>5. ASSUME NEW r \in Requests, Land(r)
      PROVE  StaleInv'
  <2>1. \A q \in Flight(r) : pc[q] # "uncache"
    BY <1>5 DEF Flight, Land
  <2>2. ReadersKept /\ PendingKept
    <3>1. CASE Return(Flight(r))
      BY <3>1, <2>1, ReturnCalm
    <3>2. CASE /\ pc' = [q \in Requests |-> IF q \in Flight(r) THEN "query" ELSE pc[q]]
               /\ UNCHANGED <<key, role, val, batch, top>>
      BY <3>2, <2>1 DEF ReadersKept, PendingKept
    <3>. QED  BY <3>1, <3>2, <1>5 DEF Land
  <2>. QED  BY <1>5, <2>2, Calm DEF Land
<1>6. ASSUME NEW r \in Requests, QueryDB(r)
      PROVE  StaleInv'
  <2>1. CASE Return({r})
    BY <2>1, <1>6, ReturnCalm, Calm DEF QueryDB
  <2>2. CASE val' = [val EXCEPT ![r] = table[key[r]]] /\ Goto(r, "count") /\ key' = key
    <3>1. ReadersKept /\ PendingKept
      BY <2>2, <1>6 DEF QueryDB, Goto, ReadersKept, PendingKept, TypeOK
    <3>. QED  BY <1>6, <3>1, Calm DEF QueryDB
  <2>. QED  BY <2>1, <2>2, <1>6 DEF QueryDB
<1>7. ASSUME NEW r \in Requests, CountMiss(r)
      PROVE  StaleInv'
  <2>1. Return({r}) \/ Proceed(r, "set")
    BY <1>7 DEF CountMiss, ProceedIfOk
  <2>2. ReadersKept /\ PendingKept
    <3>1. CASE Return({r})
      BY <3>1, <1>7, ReturnCalm DEF CountMiss
    <3>2. CASE Proceed(r, "set")
      BY <3>2, <1>7 DEF CountMiss, Proceed, Goto, ReadersKept, PendingKept, TypeOK
    <3>. QED  BY <2>1, <3>1, <3>2
  <2>. QED  BY <1>7, <2>2, Calm DEF CountMiss
<1>8. ASSUME NEW r \in Requests, Uncount(r) \/ UncountFollowers(r)
      PROVE  StaleInv'
  <2>1. ReadersKept /\ PendingKept
    BY <1>8, ReturnCalm DEF Uncount, UncountFollowers
  <2>. QED  BY <1>8, <2>1, Calm DEF Uncount, UncountFollowers
<1>9. ASSUME NEW r \in Requests, Uncache(r)
      PROVE  StaleInv'
  <2>1. PICK o \in Outcomes :
          /\ cache' = Effect(o, [cache EXCEPT ![key[r]] = Miss], cache)
          /\ tainted' = Effect(o, tainted, tainted \union {key[r]})
          /\ ProceedIfOk(r, o, "uncounted")
    BY <1>9 DEF Uncache
  <2>2. pc[r] = "uncache" /\ table' = table
    BY <1>9 DEF Uncache
  <2>3. key[r] \in Keys
    BY <2>2, HasKey, TypeCalls
  <2>4. /\ \A k \in Keys : cache'[k] \in {cache[k], Miss}
        /\ key[r] \in tainted' \/ cache'[key[r]] = Miss
        /\ tainted \subseteq tainted'
    BY <2>1, <2>3 DEF Effect, TypeOK
  <2>5. \A q \in Requests : q # r => pc'[q] = pc[q] /\ key'[q] = key[q] /\ val'[q] = val[q]
    BY <2>1 DEF ProceedIfOk, Proceed, Goto, Return, TypeOK
  <2>6. pc'[r] \notin {"count", "set"}
    BY <2>1 DEF ProceedIfOk, Proceed, Goto, Return, TypeOK
  <2>7. ReadersKept /\ PendingKept
    BY <2>4, <2>5, <2>6 DEF ReadersKept, PendingKept
  <2>. QED  BY <2>2, <2>4, <2>7, Calm
<1>10. ASSUME NEW r \in Requests, ReadMax(r)
       PROVE  StaleInv'
  <2>1. CASE Return({r})
    BY <2>1, <1>10, ReturnCalm, Calm DEF ReadMax
  <2>2. CASE Goto(r, "insert") /\ UNCHANGED <<key, val>>
    BY <2>2, <1>10, GotoCalm, Calm DEF ReadMax
  <2>. QED  BY <2>1, <2>2, <1>10 DEF ReadMax
<1>11. ASSUME NEW k \in Keys, Expire(k)
       PROVE  StaleInv'
  <2>1. ReadersKept /\ PendingKept
    BY <1>11 DEF Expire, calls, ReadersKept, PendingKept
  <2>2. \A l \in Keys : cache'[l] \in {cache[l], Miss}
    BY <1>11 DEF Expire, TypeOK
  <2>. QED  BY <1>11, <2>1, <2>2, Calm DEF Expire
<1>12. ASSUME NEW k \in Keys, NEW x \in Roles, ExpireCount(k, x)
       PROVE  StaleInv'
  <2>1. ReadersKept /\ PendingKept
    BY <1>12 DEF ExpireCount, calls, ReadersKept, PendingKept
  <2>. QED  BY <1>12, <2>1, Calm DEF ExpireCount
<1>13. CASE Restart
  <2>1. ReadersKept
    BY <1>13 DEF Restart, Return, ReadersKept
  <2>2. PendingKept /\ tainted \subseteq tainted'
    BY <1>13 DEF Restart, PendingKept
  <2>. QED  BY <1>13, <2>1, <2>2, Calm DEF Restart
<1>14. CASE UNCHANGED vars
  <2>1. ReadersKept /\ PendingKept
    BY <1>14 DEF vars, calls, ReadersKept, PendingKept
  <2>. QED  BY <1>14, <2>1, Calm DEF vars
<1>. QED  BY <1>1, <1>2, <1>3, <1>4, <1>5, <1>6, <1>7, <1>8, <1>9, <1>10, <1>11, <1>12,
          <1>13, <1>14, SetCacheStale, DeleteRowStale, InsertStale DEF Next, Step

LEMMA StaleInit == Init => StaleInv
<1>1. Init => StaleOnlyByRace
  BY TaskAssumption DEF Init, StaleOnlyByRace
<1>2. Init => ReadersKnown
  BY DEF Init, ReadersKnown
<1>. QED  BY <1>1, <1>2 DEF StaleInv

\* A task that is in the cache and no longer in the table was deleted while a
\* call stood between reading and caching it, or is about to be invalidated, or
\* its invalidation failed.
THEOREM StaleByRaceOnly == Spec => []StaleOnlyByRace
<1>1. StaleInv => StaleOnlyByRace
  BY DEF StaleInv
<1>. QED  BY <1>1, TypeInit, TypeNext, StaleInit, StaleNext, PTL DEF Spec

-----------------------------------------------------------------------------
(* Gaps in the positions.                                                  *)

\* Up to position n of level l every row is there, or was deleted or skipped.
Filled(l, n) == \A q \in 1 .. n : q \in Used(l) \/ <<l, q>> \in deleted \union skipped

\* r is about to insert after position n of level l.
Inserting(r, l, n) == pc[r] = "insert" /\ batch[r][1].level = l /\ top[r] = n

GapsInv ==
  /\ \A l \in Levels : \A p \in Used(l) : Filled(l, p - 1)
  /\ \A r \in Requests : pc[r] \in {"max", "insert"} => batch[r] \in Batches
  /\ \A r \in Requests, l \in Levels, n \in Nat : Inserting(r, l, n) => Filled(l, n)

\* What is filled stays so.
RowsKept ==
  /\ deleted \subseteq deleted' /\ skipped \subseteq skipped'
  /\ \A k \in Keys : table[k] # Absent => table'[k] # Absent \/ k \in deleted'

LEMMA FilledKept ==
  ASSUME RowsKept, NEW l \in Levels, NEW n, Filled(l, n)
  PROVE  Filled(l, n)'
<1>1. ASSUME NEW q \in 1 .. n
      PROVE  q \in Used(l)' \/ <<l, q>> \in deleted' \union skipped'
  <2>1. q \in Used(l) \/ <<l, q>> \in deleted \union skipped
    BY DEF Filled
  <2>2. ASSUME q \in Used(l)  PROVE  q \in 1 .. MaxPos /\ <<l, q>> \in Keys
    BY <2>2 DEF Used, Keys
  <2>. QED  BY <2>1, <2>2 DEF Used, RowsKept
<1>. QED  BY <1>1 DEF Filled

LEMMA BatchLevel ==
  ASSUME NEW b \in Batches
  PROVE  1 \in DOMAIN b /\ b[1].level \in Levels
<1>1. b \in Seq([level : Levels, task : Tasks]) /\ b # <<>>
  BY TaskAssumption
<1>2. 1 \in DOMAIN b
  BY <1>1
<1>3. b[1] \in [level : Levels, task : Tasks]
  BY <1>1, <1>2, ElementType, Zenon
<1>. QED  BY <1>2, <1>3

\* A step that neither adds rows nor reads a largest position.
LEMMA GapsKept ==
  ASSUME GapsInv, RowsKept,
         \A l \in Levels : Used(l)' \subseteq Used(l),
         \A r \in Requests :
           pc'[r] \in {"max", "insert"} =>
             \/ pc'[r] = pc[r] /\ batch'[r] = batch[r] /\ top'[r] = top[r]
             \/ pc'[r] = "max" /\ batch'[r] \in Batches
  PROVE  GapsInv'
<1>1. ASSUME NEW l \in Levels, NEW p \in Used(l)'
      PROVE  Filled(l, p - 1)'
  <2>1. Filled(l, p - 1)
    BY DEF GapsInv
  <2>. QED  BY <2>1, FilledKept
<1>2. \A r \in Requests : pc'[r] \in {"max", "insert"} => batch'[r] \in Batches
  BY DEF GapsInv
<1>3. ASSUME NEW r \in Requests, NEW l \in Levels, NEW n \in Nat, Inserting(r, l, n)'
      PROVE  Filled(l, n)'
  <2>1. Inserting(r, l, n)
    BY <1>3 DEF Inserting
  <2>2. Filled(l, n)
    BY <2>1 DEF GapsInv
  <2>. QED  BY <2>2, FilledKept
<1>. QED  BY <1>1, <1>2, <1>3 DEF GapsInv

\* Every step but an insertion, a deletion and the reading of the largest
\* position.
LEMMA SameRows ==
  ASSUME GapsInv, UNCHANGED <<table, deleted, skipped>>,
         \A r \in Requests :
           pc'[r] \in {"max", "insert"} =>
             \/ pc'[r] = pc[r] /\ batch'[r] = batch[r] /\ top'[r] = top[r]
             \/ pc'[r] = "max" /\ batch'[r] \in Batches
  PROVE  GapsInv'
<1>1. RowsKept /\ \A l \in Levels : Used(l)' \subseteq Used(l)
  BY DEF RowsKept, Used
<1>. QED  BY <1>1, GapsKept

LEMMA ReturnGaps ==
  ASSUME NEW R, Return(R)
  PROVE  \A r \in Requests :
           pc'[r] \in {"max", "insert"} =>
             pc'[r] = pc[r] /\ batch'[r] = batch[r] /\ top'[r] = top[r]
BY DEF Return

LEMMA ProceedGaps ==
  ASSUME TypeOK, NEW r \in Requests, NEW o, NEW label \in Labels \ {"max", "insert"},
         ProceedIfOk(r, o, label)
  PROVE  \A q \in Requests :
           pc'[q] \in {"max", "insert"} =>
             pc'[q] = pc[q] /\ batch'[q] = batch[q] /\ top'[q] = top[q]
<1>1. CASE o = "ok"
  BY <1>1 DEF ProceedIfOk, Proceed, Goto, TypeOK
<1>2. CASE o # "ok"
  BY <1>2, ReturnGaps DEF ProceedIfOk
<1>. QED  BY <1>1, <1>2

LEMMA FilledUpTo ==
  ASSUME GapsInv, NEW l \in Levels, NEW m \in Nat, m \in Used(l) \union {0}
  PROVE  Filled(l, m)
<1>1. CASE m = 0
  BY <1>1 DEF Filled
<1>2. CASE m \in Used(l)
  <2>1. Filled(l, m - 1)
    BY <1>2 DEF GapsInv
  <2>2. \A q \in 1 .. m : q = m \/ q \in 1 .. m - 1
    OBVIOUS
  <2>3. \A q \in 1 .. m : q \in Used(l) \/ <<l, q>> \in deleted \union skipped
    BY <1>2, <2>1, <2>2 DEF Filled
  <2>. QED  BY <2>3 DEF Filled
<1>. QED  BY <1>1, <1>2

\* The position that ReadMax finds is the largest of its level, and below it
\* nothing is missing that was not deleted or skipped.
LEMMA ReadMaxGaps ==
  ASSUME TypeOK, GapsInv, NEW r \in Requests, ReadMax(r)
  PROVE  GapsInv'
<1>1. UNCHANGED <<table, deleted, skipped>> /\ pc[r] = "max"
  BY DEF ReadMax
<1>2. CASE Return({r})
  BY <1>1, <1>2, ReturnGaps, SameRows
<1>3. CASE /\ top' = [top EXCEPT ![r] = Max(Used(batch[r][1].level) \union {0})]
           /\ Goto(r, "insert")
           /\ batch' = batch
  <2>1. RowsKept /\ \A l \in Levels : Used(l)' = Used(l)
    BY <1>1 DEF RowsKept, Used
  <2>2. ASSUME NEW l \in Levels  PROVE  Filled(l, Max(Used(l) \union {0}))
    <3>1. Max(Used(l) \union {0}) \in Nat /\ Max(Used(l) \union {0}) \in Used(l) \union {0}
      BY UsedType
    <3>2. \A m \in Nat : m \in Used(l) \union {0} => Filled(l, m)
      BY FilledUpTo
    <3>. QED  BY <3>1, <3>2, Zenon
  <2>3. ASSUME NEW l \in Levels, NEW p \in Used(l)'
        PROVE  Filled(l, p - 1)'
    <3>1. Filled(l, p - 1)
      BY <2>1 DEF GapsInv
    <3>. QED  BY <3>1, <2>1, FilledKept
  <2>4. \A q \in Requests : pc'[q] \in {"max", "insert"} => batch'[q] \in Batches
    BY <1>1, <1>3 DEF GapsInv, Goto, TypeOK
  <2>5. ASSUME NEW q \in Requests, NEW l \in Levels, NEW n \in Nat, Inserting(q, l, n)'
        PROVE  Filled(l, n)'
    <3>1. CASE q = r
      <4>1. batch[r][1].level = l
        BY <3>1, <2>5, <1>3 DEF Inserting
      <4>2. n = Max(Used(batch[r][1].level) \union {0})
        BY <3>1, <2>5, <1>3 DEF Inserting, TypeOK
      <4>3. n = Max(Used(l) \union {0})
        BY <4>1, <4>2, Zenon
      <4>4. Filled(l, n)
        BY <4>3, <2>2
      <4>. QED  BY <4>4, <2>1, FilledKept
    <3>2. CASE q # r
      <4>1. Inserting(q, l, n)
        BY <3>2, <2>5, <1>3 DEF Inserting, Goto, TypeOK
      <4>2. Filled(l, n)
        BY <4>1 DEF GapsInv
      <4>. QED  BY <4>2, <2>1, FilledKept
    <3>. QED  BY <3>1, <3>2
  <2>. QED  BY <2>3, <2>4, <2>5 DEF GapsInv
<1>. QED  BY <1>2, <1>3 DEF ReadMax

\* The rows of a batch of one level come right after the largest position of
\* their level, up to which nothing is missing; what a batch of several levels
\* leaves free below its rows is noted.
LEMMA InsertGaps ==
  ASSUME TypeOK, GapsInv, NEW r \in Requests, Insert(r)
  PROVE  GapsInv'
<1>1. Return({r}) /\ deleted' = deleted /\ pc[r] = "insert"
  BY DEF Insert
<1>2. CASE UNCHANGED <<table, skipped>>
  BY <1>1, <1>2, ReturnGaps, SameRows
<1>3. CASE /\ table' = [k \in Keys |-> IF k \in Slots(r) THEN batch[r][k[2] - top[r]].task
                                      ELSE table[k]]
           /\ skipped' = skipped \union (IF Mixed(r) THEN Passed(r) ELSE {})
  <2>1. batch[r] \in Batches /\ top[r] \in Nat
    BY <1>1 DEF GapsInv, TypeOK
  <2>2. \A k \in Slots(r) : table'[k] # Absent
    <3>1. Slots(r) \subseteq Keys
      BY DEF Insert
    <3>2. \A k \in Slots(r) : batch[r][k[2] - top[r]].task \in Tasks
      BY SlotOfBatch
    <3>. QED  BY <3>1, <3>2, <1>3, TaskAssumption
  <2>3. RowsKept
    BY <1>1, <1>3, <2>2 DEF RowsKept
  <2>4. ASSUME NEW l \in Levels, NEW p \in Used(l)', p \notin Used(l)
        PROVE  /\ <<l, p>> \in Slots(r) /\ p \in 1 .. MaxPos
               /\ p - top[r] \in DOMAIN batch[r] /\ l = batch[r][p - top[r]].level
    <3>1. p \in 1 .. MaxPos /\ <<l, p>> \in Keys /\ table'[<<l, p>>] # table[<<l, p>>]
      BY <2>4 DEF Used, Keys
    <3>2. <<l, p>> \in Slots(r)
      BY <3>1, <1>3
    <3>3. <<l, p>>[2] = p /\ <<l, p>>[1] = l
      OBVIOUS
    <3>4. p - top[r] \in DOMAIN batch[r] /\ <<l, p>> = Slot(r, p - top[r])
      BY <3>2, <3>3, SlotOfBatch
    <3>5. l = batch[r][p - top[r]].level
      BY <3>4 DEF Slot
    <3>. QED  BY <3>1, <3>2, <3>4, <3>5
  <2>5. DOMAIN batch[r] = 1 .. Len(batch[r]) /\ Len(batch[r]) \in Nat
    BY <2>1, TaskAssumption
  <2>6. \A l \in Levels, n \in Nat : Filled(l, n) => Filled(l, n)'
    BY <2>3, FilledKept
  <2>7. ASSUME NEW l \in Levels, NEW p \in Used(l)'
        PROVE  Filled(l, p - 1)'
    <3>1. CASE p \in Used(l)
      <4>1. Filled(l, p - 1)
        BY <3>1 DEF GapsInv
      <4>. QED  BY <4>1, <2>3, FilledKept
    <3>2. CASE p \notin Used(l) /\ Mixed(r)
      <4>1. <<l, p>> \in Slots(r) /\ p \in 1 .. MaxPos /\ MaxPos \in Nat
        BY <3>2, <2>4, TaskAssumption
      <4>2. ASSUME NEW q \in 1 .. p - 1, q \notin Used(l)'  PROVE <<l, q>> \in skipped'
        <5>1. q \in 1 .. MaxPos /\ q < p /\ <<l, q>> \in Keys
          BY <4>1 DEF Keys
        <5>2. table'[<<l, q>>] = Absent
          BY <4>2, <5>1 DEF Used
        <5>3. <<l, q>> \notin Slots(r) /\ table[<<l, q>>] = Absent
          BY <5>1, <5>2, <1>3, <2>2
        <5>4. <<l, p>>[1] = <<l, q>>[1] /\ <<l, q>>[2] < <<l, p>>[2]
          BY <5>1
        <5>5. <<l, q>> \in Passed(r)
          BY <4>1, <5>1, <5>3, <5>4 DEF Passed
        <5>. QED  BY <5>5, <1>3, <3>2
      <4>. QED  BY <4>2 DEF Filled
    <3>3. CASE p \notin Used(l) /\ ~ Mixed(r)
      <4>1. l = batch[r][1].level /\ p - top[r] \in DOMAIN batch[r] /\ p \in 1 .. MaxPos
        BY <3>3, <2>4 DEF Mixed
      <4>2. Filled(l, top[r])
        BY <4>1, <1>1, <2>1 DEF GapsInv, Inserting
      <4>3. \A q \in 1 .. top[r] : q \in Used(l)' \/ <<l, q>> \in deleted' \union skipped'
        BY <4>2, <2>1, <2>6 DEF Filled
      <4>4. ASSUME NEW q \in 1 .. p - 1, q \notin 1 .. top[r]  PROVE  q \in Used(l)'
        <5>1. p \in Nat /\ MaxPos \in Nat
          BY <4>1, TaskAssumption
        <5>2. q \in 1 .. MaxPos /\ q - top[r] \in DOMAIN batch[r]
          BY <5>1, <4>1, <4>4, <2>1, <2>5
        <5>3. top[r] + (q - top[r]) = q
          BY <5>1, <2>1
        <5>4. batch[r][q - top[r]].level = l
          BY <5>2, <4>1, <3>3 DEF Mixed
        <5>5. Slot(r, q - top[r]) = <<l, q>>
          BY <5>3, <5>4 DEF Slot
        <5>6. <<l, q>> \in Slots(r)
          BY <5>2, <5>5 DEF Slots
        <5>. QED  BY <5>2, <5>6, <2>2 DEF Used
      <4>5. \A q \in 1 .. p - 1 : q \in Used(l)' \/ <<l, q>> \in deleted' \union skipped'
        BY <4>3, <4>4
      <4>. QED  BY <4>5 DEF Filled
    <3>. QED  BY <3>1, <3>2, <3>3
  <2>8. \A q \in Requests :
          pc'[q] \in {"max", "insert"} =>
            pc'[q] = pc[q] /\ batch'[q] = batch[q] /\ top'[q] = top[q]
    BY <1>1, ReturnGaps
  <2>9. ASSUME NEW q \in Requests, NEW l \in Levels, NEW n \in Nat, Inserting(q, l, n)'
        PROVE  Filled(l, n)'
    <3>1. Inserting(q, l, n)
      BY <2>8, <2>9 DEF Inserting
    <3>2. Filled(l, n)
      BY <3>1 DEF GapsInv
    <3>. QED  BY <3>2, <2>6
  <2>10. \A q \in Requests : pc'[q] \in {"max", "insert"} => batch'[q] \in Batches
    BY <2>8 DEF GapsInv
  <2>. QED  BY <2>7, <2>9, <2>10 DEF GapsInv
<1>. QED  BY <1>2, <1>3, InsertSteps

\* A deleted row is recorded.
LEMMA DeleteRowGaps ==
  ASSUME TypeOK, GapsInv, NEW r \in Requests, DeleteRow(r)
  PROVE  GapsInv'
<1>1. PICK o \in Outcomes :
        /\ table' = Effect(o, [table EXCEPT ![key[r]] = Absent], table)
        /\ deleted' = Effect(o, deleted \union {key[r]}, deleted)
        /\ skipped' = skipped
        /\ ProceedIfOk(r, o, "uncache")
  BY DEF DeleteRow
<1>2. RowsKept
  BY <1>1 DEF RowsKept, Effect, TypeOK
<1>3. \A k \in Keys : table'[k] # Absent => table[k] # Absent
  BY <1>1 DEF Effect, TypeOK
<1>4. ASSUME NEW l \in Levels  PROVE  Used(l)' \subseteq Used(l)
  <2>1. \A p \in 1 .. MaxPos : <<l, p>> \in Keys
    BY DEF Keys
  <2>. QED  BY <2>1, <1>3 DEF Used
<1>5. \A q \in Requests :
        pc'[q] \in {"max", "insert"} =>
          pc'[q] = pc[q] /\ batch'[q] = batch[q] /\ top'[q] = top[q]
  BY <1>1, ProceedGaps DEF Labels
<1>. QED  BY <1>2, <1>4, <1>5, GapsKept

LEMMA GapsNext ==
  TypeOK /\ GapsInv /\ [Next]_vars => GapsInv'
<1>. SUFFICES ASSUME TypeOK, GapsInv, [Next]_vars PROVE GapsInv'
  OBVIOUS
<1>. DEFINE Waiting(r) ==
       pc'[r] \in {"max", "insert"} =>
         \/ pc'[r] = pc[r] /\ batch'[r] = batch[r] /\ top'[r] = top[r]
         \/ pc'[r] = "max" /\ batch'[r] \in Batches
<1>1. ASSUME NEW r \in Requests, NEW k \in Read, GetTasks(r, k) \/ DelTask(r, k)
      PROVE  GapsInv'
  <2>1. \A q \in Requests : Waiting(q)
    BY <1>1 DEF GetTasks, DelTask, Goto, TypeOK
  <2>2. UNCHANGED <<table, deleted, skipped>>
    BY <1>1 DEF GetTasks, DelTask
  <2>. QED  BY <2>1, <2>2, SameRows
<1>2. ASSUME NEW r \in Requests, NEW b \in Batches, NewTasks(r, b)
      PROVE  GapsInv'
  <2>1. \A q \in Requests : Waiting(q)
    BY <1>2 DEF NewTasks, Goto, TypeOK
  <2>2. UNCHANGED <<table, deleted, skipped>>
    BY <1>2 DEF NewTasks
  <2>. QED  BY <2>1, <2>2, SameRows
<1>3. ASSUME NEW r \in Requests,
             FetchCache(r) \/ Land(r) \/ QueryDB(r) \/ CountMiss(r) \/ SetCache(r)
               \/ Uncount(r) \/ Uncache(r) \/ UncountFollowers(r)
      PROVE  GapsInv'
  <2>1. UNCHANGED <<table, deleted, skipped>>
    BY <1>3 DEF FetchCache, Land, QueryDB, CountMiss, SetCache, Uncount, Uncache,
                UncountFollowers
  <2>2. CASE FetchCache(r)
    BY <2>1, <2>2, SameRows DEF FetchCache, Goto, TypeOK
  <2>3. CASE Land(r)
    <3>1. CASE Return(Flight(r))
      BY <2>1, <3>1, ReturnGaps, SameRows
    <3>2. CASE /\ pc' = [q \in Requests |-> IF q \in Flight(r) THEN "query" ELSE pc[q]]
               /\ UNCHANGED <<key, role, val, batch, top>>
      BY <2>1, <3>2, SameRows
    <3>. QED  BY <2>3, <3>1, <3>2 DEF Land
  <2>4. CASE QueryDB(r)
    <3>1. CASE Return({r})
      BY <2>1, <3>1, ReturnGaps, SameRows
    <3>2. CASE Goto(r, "count") /\ UNCHANGED <<batch, top>>
      BY <2>1, <3>2, SameRows DEF Goto, TypeOK
    <3>. QED  BY <2>4, <3>1, <3>2 DEF QueryDB
  <2>5. CASE CountMiss(r) \/ Uncount(r) \/ UncountFollowers(r) \/ SetCache(r) \/ Uncache(r)
    <3>1. \/ Return({r})
          \/ \E o \in Outcomes, label \in Labels \ {"max", "insert"} : ProceedIfOk(r, o, label)
      BY <2>5 DEF CountMiss, Uncount, UncountFollowers, SetCache, Uncache, Labels
    <3>2. \A q \in Requests : Waiting(q)
      BY <3>1, ReturnGaps, ProceedGaps
    <3>. QED  BY <2>1, <3>2, SameRows
  <2>. QED  BY <1>3, <2>2, <2>3, <2>4, <2>5
<1>4. ASSUME NEW r \in Requests, DeleteRow(r) \/ ReadMax(r) \/ Insert(r)
      PROVE  GapsInv'
  BY <1>4, DeleteRowGaps, ReadMaxGaps, InsertGaps
<1>5. CASE Restart
  BY <1>5, ReturnGaps, SameRows DEF Restart
<1>6. ASSUME UNCHANGED <<table, deleted, skipped, calls>>
      PROVE  GapsInv'
  BY <1>6, SameRows DEF calls
<1>7. ASSUME NEW k \in Keys, Expire(k) \/ \E x \in Roles : ExpireCount(k, x)
      PROVE  GapsInv'
  BY <1>6, <1>7 DEF Expire, ExpireCount
<1>8. CASE UNCHANGED vars
  BY <1>6, <1>8 DEF vars
<1>. QED  BY <1>1, <1>2, <1>3, <1>4, <1>5, <1>7, <1>8 DEF Next, Step

LEMMA GapsInit == Init => GapsInv
<1>. SUFFICES ASSUME Init PROVE GapsInv
  OBVIOUS
<1>1. ASSUME NEW l \in Levels, NEW p \in Used(l)
      PROVE  Filled(l, p - 1)
  <2>1. MaxPos \in Nat /\ Initial[l] \in 0 .. MaxPos /\ FirstTask # Absent
    BY TaskAssumption
  <2>2. p \in 1 .. MaxPos /\ <<l, p>> \in Keys /\ <<l, p>>[1] = l /\ <<l, p>>[2] = p
    BY DEF Used, Keys
  <2>3. p <= Initial[l]
    BY <2>2 DEF Init, Used
  <2>4. ASSUME NEW q \in 1 .. p - 1  PROVE  q \in Used(l)
    <3>1. q \in 1 .. MaxPos /\ q <= Initial[l]
      BY <2>1, <2>2, <2>3, <2>4
    <3>2. <<l, q>> \in Keys /\ <<l, q>>[1] = l /\ <<l, q>>[2] = q
      BY <3>1 DEF Keys
    <3>3. table[<<l, q>>] = FirstTask
      BY <3>1, <3>2 DEF Init
    <3>. QED  BY <3>1, <3>3, <2>1 DEF Used
  <2>. QED  BY <2>4 DEF Filled
<1>2. \A r \in Requests : pc[r] = "idle"
  BY DEF Init
<1>. QED  BY <1>1, <1>2 DEF GapsInv, Inserting

\* Concurrent and failing calls of NewTasks leave no gap among the positions of
\* a level: what is missing below the largest one was deleted, or a batch of
\* several levels went past it.  For all batches.
THEOREM GapsAreExplained == Spec => []GapsHaveCauses
<1>1. GapsInv => GapsHaveCauses
  BY DEF GapsInv, Filled, GapsHaveCauses
<1>. QED  BY <1>1, TypeInit, TypeNext, GapsInit, GapsNext, PTL DEF Spec
=============================================================================
