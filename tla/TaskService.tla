---------------------------- MODULE TaskService ----------------------------
(***************************************************************************)
(* learn-service, the tasks: the table, the adaptive cache in front of it  *)
(* and the three calls, many of which run at a time.                       *)
(*                                                                         *)
(* GetTasks asks the cache through a singleflight group: the first call    *)
(* for a key leads and asks Redis, those that come while it does wait for  *)
(* its answer.  A miss is answered from the table and counted, and a key   *)
(* with Hot misses is cached.  The leader's key buffer comes back from the *)
(* flight with the cache prefix already in it, so that leaders and         *)
(* followers count under different Redis keys.  Of the two, DelTask        *)
(* deletes the followers' one only; NewTasks touches neither cache nor     *)
(* counters.                                                               *)
(***************************************************************************)
EXTENDS Integers, Sequences, FiniteSets, FiniteSetsExt

CONSTANTS Requests,   \* calls in progress
          Levels,     \* language levels
          Tasks,      \* what a row may hold
          Batches,    \* what NewTasks may be called with: sequences of
                      \*   [level, task] records
          Initial,    \* the number of rows each level has at first
          FirstTask,  \* what these rows hold
          Absent,     \* no row; as an answer, the empty list
          Miss,       \* no entry in the cache
          Read,       \* bound: the keys GetTasks and DelTask are called with
          MaxPos,     \* bound: positions of a level; no insertion goes beyond
          Hot,        \* misses that make a key hot (10 in the code)
          MaxWrites,  \* bound: calls of NewTasks and DelTask
          MaxFaults   \* bound: failing calls to Redis or the database, restarts

Keys == Levels \X (1 .. MaxPos)

ASSUME TaskAssumption ==
  /\ IsFiniteSet(Requests)
  /\ Absent \notin Tasks /\ Miss \notin Tasks \union {Absent}
  /\ FirstTask \in Tasks
  /\ Initial \in [Levels -> 0 .. MaxPos]
  /\ \A b \in Batches : /\ b \in Seq([level : Levels, task : Tasks])
                        /\ b # <<>>
  /\ MaxPos \in Nat /\ MaxWrites \in Nat /\ MaxFaults \in Nat
  /\ Hot \in Nat \ {0} /\ Read \subseteq Keys

VARIABLES table,   \* the rows, by <<level, position>>
          cache,   \* Redis: the cached answers
          count,   \* Redis: the misses counted by leaders and by followers
          pc, key, role, val, batch, top,  \* the calls
          faults, writes,                  \* history: failures; write calls
          deleted, \* history: the keys whose row was deleted
          skipped, \* history: the keys a batch of several levels went past
          tainted  \* history: the keys whose invalidation could not work

calls == <<pc, key, role, val, batch, top>>
vars == <<table, cache, count, calls, faults, writes, deleted, skipped, tainted>>

Roles == {"leader", "follower"}
NoKey == <<>>

Init ==
  /\ table = [k \in Keys |-> IF k[2] <= Initial[k[1]] THEN FirstTask ELSE Absent]
  /\ cache = [k \in Keys |-> Miss]
  /\ count = [k \in Keys |-> [x \in Roles |-> 0]]
  /\ pc = [r \in Requests |-> "idle"]
  /\ key = [r \in Requests |-> NoKey]
  /\ role = [r \in Requests |-> "leader"]
  /\ val = [r \in Requests |-> Miss]
  /\ batch = [r \in Requests |-> <<>>]
  /\ top = [r \in Requests |-> 0]
  /\ faults = 0 /\ writes = 0
  /\ deleted = {} /\ skipped = {} /\ tainted = {}

-----------------------------------------------------------------------------
Goto(r, label) == pc' = [pc EXCEPT ![r] = label]

\* A variant of Return that leaves the pooled key buffers as they are.
ReturnDirty(R) ==
  /\ pc' = [r \in Requests |-> IF r \in R THEN "idle" ELSE pc[r]]
  /\ UNCHANGED <<key, role, val, batch, top>>

\* The calls R return.
Return(R) ==
  /\ pc' = [r \in Requests |-> IF r \in R THEN "idle" ELSE pc[r]]
  /\ key' = [r \in Requests |-> IF r \in R THEN NoKey ELSE key[r]]
  /\ role' = [r \in Requests |-> IF r \in R THEN "leader" ELSE role[r]]
  /\ val' = [r \in Requests |-> IF r \in R THEN Miss ELSE val[r]]
  /\ batch' = [r \in Requests |-> IF r \in R THEN <<>> ELSE batch[r]]
  /\ top' = [r \in Requests |-> IF r \in R THEN 0 ELSE top[r]]

\* A call to Redis or the database is carried out and answered, fails before
\* it had an effect, or has its effect while the service sees an error.
Outcomes == {"ok", "lost", "unseen"}

Counted(o) ==
  /\ o # "ok" => faults < MaxFaults
  /\ faults' = IF o = "ok" THEN faults ELSE faults + 1

Effect(o, new, old) == IF o = "lost" THEN old ELSE new

\* On to the next step, or back when the last one failed.
Proceed(r, label) == Goto(r, label) /\ UNCHANGED <<key, role, val, batch, top>>

ProceedIfOk(r, o, label) == IF o = "ok" THEN Proceed(r, label) ELSE Return({r})

-----------------------------------------------------------------------------
\* GetTasks.

Flying(k) == {r \in Requests : pc[r] \in {"lead", "fetched"} /\ key[r] = k}

\* Enters the flight for k, or opens it.
GetTasks(r, k) ==
  /\ pc[r] = "idle"
  /\ Goto(r, IF Flying(k) = {} THEN "lead" ELSE "join")
  /\ key' = [key EXCEPT ![r] = k]
  /\ role' = [role EXCEPT ![r] = IF Flying(k) = {} THEN "leader" ELSE "follower"]
  /\ UNCHANGED <<table, cache, count, val, batch, top, faults, writes, deleted,
                 skipped, tainted>>

\* The leader's GET; a failing one counts as a miss.
FetchCache(r) ==
  /\ pc[r] = "lead"
  /\ \E o \in {"ok", "lost"} :
       /\ Counted(o)
       /\ val' = [val EXCEPT ![r] = IF o = "ok" THEN cache[key[r]] ELSE Miss]
  /\ Goto(r, "fetched")
  /\ UNCHANGED <<table, cache, count, key, role, batch, top, writes, deleted,
                 skipped, tainted>>

\* The flight ends, and everyone in it has the leader's answer: a hit is
\* returned at once.
Flight(r) == {r} \union {q \in Requests : pc[q] = "join" /\ key[q] = key[r]}

\* A variant of Land in which the followers are forgotten.
LandAlone(r) ==
  /\ pc[r] = "fetched"
  /\ IF val[r] # Miss THEN Return({r}) ELSE Proceed(r, "query")
  /\ UNCHANGED <<table, cache, count, faults, writes, deleted, skipped,
                 tainted>>

Land(r) ==
  /\ pc[r] = "fetched"
  /\ IF val[r] # Miss
     THEN Return(Flight(r))
     ELSE /\ pc' = [q \in Requests |-> IF q \in Flight(r) THEN "query" ELSE pc[q]]
          /\ UNCHANGED <<key, role, val, batch, top>>
  /\ UNCHANGED <<table, cache, count, faults, writes, deleted, skipped,
                 tainted>>

\* The row from the table.
QueryDB(r) ==
  /\ pc[r] = "query"
  /\ \/ /\ val' = [val EXCEPT ![r] = table[key[r]]]
        /\ Goto(r, "count")
        /\ UNCHANGED <<key, role, batch, top, faults>>
     \/ Return({r}) /\ Counted("lost")
  /\ UNCHANGED <<table, cache, count, writes, deleted, skipped, tainted>>

\* CacheTasks: INCR; the key is hot from the Hot-th miss on.
CountMiss(r) ==
  LET n == count[key[r]][role[r]] + 1
  IN /\ pc[r] = "count"
     /\ \E o \in Outcomes :
          /\ Counted(o)
          /\ count' = Effect(o, [count EXCEPT ![key[r]][role[r]] = n], count)
          /\ IF n < Hot THEN Return({r}) ELSE ProceedIfOk(r, o, "set")
     /\ UNCHANGED <<table, cache, writes, deleted, skipped, tainted>>

\* CacheTasks: SET.
SetCache(r) ==
  /\ pc[r] = "set"
  /\ \E o \in Outcomes :
       /\ Counted(o)
       /\ cache' = Effect(o, [cache EXCEPT ![key[r]] = val[r]], cache)
       /\ ProceedIfOk(r, o, "uncount")
  /\ UNCHANGED <<table, count, writes, deleted, skipped, tainted>>

\* A variant of Uncount that deletes a key nobody counts under.
UncountOtherKey(r) ==
  /\ pc[r] = "uncount"
  /\ Return({r})
  /\ UNCHANGED <<table, cache, count, faults, writes, deleted, skipped,
                 tainted>>

\* CacheTasks: DEL of the counter.
Uncount(r) ==
  /\ pc[r] = "uncount"
  /\ \E o \in Outcomes :
       /\ Counted(o)
       /\ count' = Effect(o, [count EXCEPT ![key[r]][role[r]] = 0], count)
  /\ Return({r})
  /\ UNCHANGED <<table, cache, writes, deleted, skipped, tainted>>

-----------------------------------------------------------------------------
\* DelTask.

DelTask(r, k) ==
  /\ pc[r] = "idle"
  /\ writes < MaxWrites
  /\ writes' = writes + 1
  /\ Goto(r, "delete")
  /\ key' = [key EXCEPT ![r] = k]
  /\ UNCHANGED <<table, cache, count, role, val, batch, top, faults, deleted,
                 skipped, tainted>>

\* Calls that have read the row of k and may yet cache it.
Late(k) == {q \in Requests : pc[q] \in {"count", "set"} /\ key[q] = k}

\* The DELETE.  If its answer is lost the cache is not touched.
DeleteRow(r) ==
  LET k == key[r]
  IN /\ pc[r] = "delete"
     /\ \E o \in Outcomes :
          /\ Counted(o)
          /\ table' = Effect(o, [table EXCEPT ![k] = Absent], table)
          /\ deleted' = Effect(o, deleted \union {k}, deleted)
          /\ tainted' = IF o = "unseen" \/ Late(k) # {}
                        THEN tainted \union {k} ELSE tainted
          /\ ProceedIfOk(r, o, "uncache")
     /\ UNCHANGED <<cache, count, writes, skipped>>

\* A variant of Uncache that deletes a key nothing is cached under.
UncacheOtherKey(r) ==
  /\ pc[r] = "uncache"
  /\ Proceed(r, "uncounted")
  /\ UNCHANGED <<table, cache, count, faults, writes, deleted, skipped,
                 tainted>>

\* The DEL of the cached answer; its error is only logged.
Uncache(r) ==
  /\ pc[r] = "uncache"
  /\ \E o \in Outcomes :
       /\ Counted(o)
       /\ cache' = Effect(o, [cache EXCEPT ![key[r]] = Miss], cache)
       /\ tainted' = Effect(o, tainted, tainted \union {key[r]})
       /\ ProceedIfOk(r, o, "uncounted")
  /\ UNCHANGED <<table, count, writes, deleted, skipped>>

\* The DEL of the counter, sent along with the first one.
UncountFollowers(r) ==
  /\ pc[r] = "uncounted"
  /\ count' = [count EXCEPT ![key[r]]["follower"] = 0]
  /\ Return({r})
  /\ UNCHANGED <<table, cache, faults, writes, deleted, skipped, tainted>>

-----------------------------------------------------------------------------
\* NewTasks.

NewTasks(r, b) ==
  /\ pc[r] = "idle"
  /\ writes < MaxWrites
  /\ writes' = writes + 1
  /\ Goto(r, "max")
  /\ batch' = [batch EXCEPT ![r] = b]
  /\ UNCHANGED <<table, cache, count, key, role, val, top, faults, deleted,
                 skipped, tainted>>

Used(level) == {p \in 1 .. MaxPos : table[<<level, p>>] # Absent}

\* A variant of ReadMax that returns the first free position, which Insert
\* then skips.
ReadFree(r) ==
  /\ pc[r] = "max"
  /\ top' = [top EXCEPT ![r] = Max(Used(batch[r][1].level) \union {0}) + 1]
  /\ Goto(r, "insert")
  /\ UNCHANGED <<table, cache, count, key, role, val, batch, faults, writes,
                 deleted, skipped, tainted>>

\* The largest position of the FIRST task's level.
ReadMax(r) ==
  /\ pc[r] = "max"
  /\ \/ /\ top' = [top EXCEPT ![r] = Max(Used(batch[r][1].level) \union {0})]
        /\ Goto(r, "insert")
        /\ UNCHANGED <<key, role, val, batch, faults>>
     \/ Return({r}) /\ Counted("lost")
  /\ UNCHANGED <<table, cache, count, writes, deleted, skipped, tainted>>

\* Where the i-th task of the batch goes.
Slot(r, i) == <<batch[r][i].level, top[r] + i>>
Slots(r) == {Slot(r, i) : i \in DOMAIN batch[r]}

\* The batch of r holds tasks of several levels.
Mixed(r) == \E i \in DOMAIN batch[r] : batch[r][i].level # batch[r][1].level

\* The free positions that an insertion leaves below its rows.
Passed(r) ==
  {k \in Keys \ Slots(r) :
     table[k] = Absent /\ \E s \in Slots(r) : s[1] = k[1] /\ k[2] < s[2]}

\* The INSERT of the whole batch, which the primary key refuses if one of the
\* positions was taken meanwhile.
Insert(r) ==
  /\ pc[r] = "insert"
  /\ Slots(r) \subseteq Keys
  /\ \E o \in Outcomes :
       /\ Counted(o)
       /\ IF o # "lost" /\ \A k \in Slots(r) : table[k] = Absent
          THEN /\ table' = [k \in Keys |->
                              IF k \in Slots(r) THEN batch[r][k[2] - top[r]].task
                              ELSE table[k]]
               /\ skipped' = skipped \union (IF Mixed(r) THEN Passed(r) ELSE {})
          ELSE UNCHANGED <<table, skipped>>
  /\ Return({r})
  /\ UNCHANGED <<cache, count, writes, deleted, tainted>>

-----------------------------------------------------------------------------
\* A variant of Expire in which entries have no time to live.
ExpireNever(k) ==
  /\ FALSE
  /\ UNCHANGED vars

\* A cached answer expires TASK_TTL after it was set, whether or not it is
\* read.
Expire(k) ==
  /\ cache[k] # Miss
  /\ cache' = [cache EXCEPT ![k] = Miss]
  /\ UNCHANGED <<table, count, calls, faults, writes, deleted, skipped,
                 tainted>>

\* A counter expires COUNT_TTL after its first increment.
ExpireCount(k, x) ==
  /\ count[k][x] > 0
  /\ count' = [count EXCEPT ![k][x] = 0]
  /\ UNCHANGED <<table, cache, calls, faults, writes, deleted, skipped,
                 tainted>>

\* The service stops, which ends every call, and is restarted.
Restart ==
  /\ \E r \in Requests : pc[r] # "idle"
  /\ Counted("lost")
  /\ Return(Requests)
  /\ tainted' = tainted \union {key[r] : r \in {q \in Requests : pc[q] = "uncache"}}
  /\ UNCHANGED <<table, cache, count, writes, deleted, skipped>>

Step(r) ==
  \/ FetchCache(r) \/ Land(r) \/ QueryDB(r)
  \/ CountMiss(r) \/ SetCache(r) \/ Uncount(r)
  \/ DeleteRow(r) \/ Uncache(r) \/ UncountFollowers(r)
  \/ ReadMax(r) \/ Insert(r)

Next ==
  \/ \E r \in Requests :
       \/ \E k \in Read : GetTasks(r, k)
       \/ \E k \in Read : DelTask(r, k)
       \/ \E b \in Batches : NewTasks(r, b)
       \/ Step(r)
  \/ \E k \in Keys : Expire(k) \/ \E x \in Roles : ExpireCount(k, x)
  \/ Restart

Spec == Init /\ [][Next]_vars

\* Calls to Redis and the database return or time out, and entries expire.
FairSpec ==
  /\ Spec
  /\ \A r \in Requests : WF_vars(Step(r))
  /\ \A k \in Keys : WF_vars(Expire(k))

-----------------------------------------------------------------------------
Labels == {"idle", "lead", "join", "fetched", "query", "count", "set",
           "uncount", "delete", "uncache", "uncounted", "max", "insert"}

\* Every variable has its type, and a key is only known to the calls that
\* have one.
TypeOK ==
  /\ table \in [Keys -> Tasks \union {Absent}]
  /\ cache \in [Keys -> Tasks \union {Absent, Miss}]
  /\ count \in [Keys -> [Roles -> Nat]]
  /\ pc \in [Requests -> Labels]
  /\ key \in [Requests -> Keys \union {NoKey}]
  /\ role \in [Requests -> Roles]
  /\ val \in [Requests -> Tasks \union {Absent, Miss}]
  /\ batch \in [Requests -> Batches \union {<<>>}]
  /\ top \in [Requests -> Nat]
  /\ faults \in Nat /\ writes \in Nat
  /\ deleted \subseteq Keys /\ skipped \subseteq Keys /\ tainted \subseteq Keys
  /\ \A r \in Requests : key[r] = NoKey <=> pc[r] \in {"idle", "max", "insert"}

\* A task that is not in the table any more is in the cache only while its
\* DelTask has yet to invalidate it, or if that was bound to miss: a reader
\* stood between its read of the row and its write to the cache when the row
\* was deleted, or the invalidation failed.
Pending(k) == \E r \in Requests : pc[r] = "uncache" /\ key[r] = k

StaleOnlyByRace ==
  \A k \in Keys :
    cache[k] \in Tasks /\ cache[k] # table[k] => k \in tainted \/ Pending(k)

\* A miss counter never runs away: it exceeds Hot only by the calls that are
\* about to cache the key and delete the counter, and by those that failed
\* to (a restart fails them all).
Caching(k, x) ==
  {r \in Requests : pc[r] \in {"set", "uncount"} /\ key[r] = k /\ role[r] = x}

CounterBounded ==
  \A k \in Keys, x \in Roles :
    count[k][x] <=
      Hot - 1 + Cardinality(Caching(k, x)) + faults * Cardinality(Requests)

\* Below the largest position of a level a position is missing only if its row
\* was deleted, or if a batch of several levels went past it: such a batch is
\* numbered by the level of its first task alone.  Insertions that run at the
\* same time, or fail, leave no gap, and neither does a batch of one level after
\* one of several.  (The user's position moves by one at a time, and would never
\* get past a gap.)
GapsHaveCauses ==
  \A l \in Levels : \A p \in Used(l) : \A q \in 1 .. p - 1 :
    q \in Used(l) \/ <<l, q>> \in deleted \union skipped

\* Every call returns, those that wait for another one's flight included.
EveryCallReturns ==
  \A r \in Requests : pc[r] # "idle" ~> pc[r] = "idle"

\* Once nothing is inserted or deleted any more, the cache ends up with what
\* the table holds, whatever raced before.
EventuallyFresh ==
  <>[](\A k \in Keys : cache[k] \in {Miss, table[k]})
=============================================================================
