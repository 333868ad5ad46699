# EnBooster-Local: TLA+ models, checks and proofs

EnBooster-Local is an English tutor for one user: a Vue page talks over a
WebSocket to a gateway, which keeps the dialogue in Redis and calls three gRPC
services (users, learn, ai). This directory holds TLA+ models of its own logic,
the TLC configurations that check them, and TLAPS proofs. All paths below are
relative to the root of the repository.

## 1. The system

| Part | State | Operations | Interacts with |
|---|---|---|---|
| state manager (`gateway/internal/statemanager`) | Redis hash `users:state1`: dialogue state and the JSON of the session in progress, 30 min to live; Redis list with the chat history, capped at 100 | `GetUserCtx`, `SetUserCtx`, `UpdUserStateCtx`, `UpdateUserDataCtx`, `AddMessage`, `GetHistory` | every handler of the gateway |
| WebSocket handler (`gateway/internal/delivery/wshandler.go`) | one goroutine per connection; `h.conn`, the connection opened last; pools of buffers | receive a message, save it, handle it, save and write the reply | state manager, scheduler |
| learning loop (`learning`, `handleUser` in state TaskLearning) | the task session in the user context; `task_id` and the theme columns of the users row | ask the task at the position; score an answer | users-service, learn-service |
| commands and modes (`handleMessage`, `handleAdmin`, `handleUser`) | the dialogue state | some 20 commands, 16 modes | all services |
| Shiritori (`handleUser` in state Shiritori, `UpdateUserShiritoriCtx`) | the game's session in the user context | a word, `stop` | words table of learn-service |
| scheduler (`notify.go`) | a timer | reminder at six hours of the day | users-service, `h.conn` |
| users-service | the one row of the users table | `GetUser`, `UpdStreak`, `UpdTaskID`, `UpdLangLevel`, `UpdSystemPrompt` | PostgreSQL |
| learn-service, tasks | tasks table with key (level, position); Redis cache and miss counters; singleflight group | `GetTasks`, `NewTasks`, `DelTask` | PostgreSQL, Redis |
| learn-service, words | words table with a serial key | `NewWords`, `GetWordsWithTarget`, `DelWord` | PostgreSQL |
| ai-service | the context of the conversation in Redis; the recogniser | generate text and audio, recognise audio, clear the context, change the model | Ollama, RHVoice, Vosk |
| frontend (`App.vue`) | the list of messages shown | send, append, stream | gateway |

What is hard here:

* **Several connections, one user.** Every browser tab is a goroutine of its
  own, and all of them share the user context and the users row. A handler
  reads the context once, at its start, and acts on this copy however long its
  remote calls take.
* **A handler is a sequence of remote calls, and there is no transaction.** A
  right answer is three writes and a reset; the errors of all of them are
  logged, and the next one is made all the same. A call whose deadline passes
  may have had its effect.
* **State expires.** The session and its state go away after 30 minutes, and the
  cached tasks and counters after their own times.
* **The cache of the tasks** is filled after a read of the table that may be
  outdated by then, by calls that shared a flight or did not.
* **One socket, several writers.** `h.conn` is shared by all handlers and the
  scheduler: what a handler writes on the way goes to the page opened last, and
  the library allows one writer at a time.
* **Answers stream for minutes**, while the conversation's context is read before
  and written after, and all voice messages go through one recogniser.
* **The gateway or a service may stop** between any two calls.

What makes each part correct, in a sentence:

* users-service: a streak consists of days that were really active, and a best
  or worst counter stands beside the theme it was reported with.
* learning loop: the position and the counters are earned; a failure does
  bounded harm; nobody is scored against a task that does not exist.
* commands and modes: a mode that asks for one payload takes what was asked
  for; the session always fits the mode.
* tasks: concurrent calls never wait for ever, leave no gap in the positions but
  by a deletion or a batch of several levels, and what is cached agrees with the
  table again after whatever race.
* Shiritori: words are new, they form a chain, and the statistics add up.
* connection: the history holds the newest messages without a gap, a page that is
  loaded shows all of it, and a message is answered on the page it was written on.
* scheduler: every slot is looked at once, none is skipped.
* AI modes: the language model remembers what was said since the last clear; a
  reply is made of what its own message was answered with.

## 2. The modules

| Module | Models | Abstracts |
|---|---|---|
| `UserContext` | the four operations of the state manager on the hash | a missing key and one with state None and no data read alike, and are one value; a session is a record of the fields its Go struct has, tagged with the struct |
| `UsersRow` | the users row and the `UPDATE`s as functions from old to new row, CASE by CASE | the identity of the row: there is one user |
| `UsersService` | the RPC handlers over the row; `UpdStreak` in two steps, as it reads the clock in Go before the statement is executed | connections and pools |
| `StreakLedger` | abstract: the streak is the run of consecutive active days that ends with the last one | how it is stored |
| `Learning` | `learning` and the answer, one action per remote call, with the outcomes of section 4 | texts that are no answer; the day of the streak |
| `Dialogue` | every command and mode of the gateway, their routing, and what they write | a session is its kind; whether a service likes a payload |
| `TaskService` | the three calls on tasks, the cache, the flights and both counters | a row holds one value; a key is a level and a position |
| `Shiritori` | the word game: session, rules, statistics; the words table and its query | other modes are one action that changes the state or replaces the session; a row's first letter is the one of its word, as the administrator is asked to give it |
| `ReminderClock` | `getNextSlotTime` over hours counted from day 0 | minutes |
| `Connection` | `HandleChatWS`, `saveMessage`, `loadHistory`, the Redis list command by command, the scheduler, `h.conn`, and the list of messages of the page in the browser (`App.vue`) | what a handler does with a message is `handle`, with or without a part written on the way (the page merges all parts of one answer, so one stands for several); a write is in progress from `Begin` to `End`; what a page shows of reminders |
| `AIService` | `GenerateText`, `RecognizeAudio`, `ClearAIContext`, `ChangeModel` over the context in Redis and the one recogniser | a context is the list of exchanges it stands for; an answer is a number of pieces; what is heard is the list of chunks |
| `AIChat` | the four AI modes and their commands in the gateway, over `AIService`: the streams as the callers see them, the last message, the pool of audio buffers | the mode is chosen between two messages; `GenerateAudio` is one step |
| `MC*` | constants, and symmetry of connections or calls, for TLC | |
| `*_proofs` | the TLAPS proofs | |

`Learning` and `Dialogue` cut the gateway differently: the first follows the
values of one mode through all its remote calls, the second follows all modes
with the sessions reduced to their kind. `Shiritori` does for the word game what
`Learning` does for the tasks. `Connection` has what surrounds the handling of a
message, and `AIChat` what an AI mode does in it; the sockets of `Connection` are not
repeated in it. The first three stand on `UserContext`; `Learning` and
`UsersService` share `UsersRow`.

A connection's handler is a program counter with the text, the copy of the user
context and what else it read (`pc`, `msg`, `uctx`, `pos`); the actions are named
after the functions of the code they stand for. Variables marked *history* in
their declaration are read by no action but the bounds and exist for the
properties.

Definitions with a comment "A variant of ..." model plausible mistakes in the
definition after them. No action uses them; each shows that some property would
notice the mistake.

## 3. What the runs check

| Run | Bounds | Checks |
|---|---|---|
| `users` | 2 calls at a time, 5 days, 2 themes, counters -1 and 1 | `StreakIsEarned`, `ThemesAreExtremes`; `LedgerSteps`: refinement of `StreakLedger`, unless a call was overtaken |
| `learning_one` | 1 connection, 3 tasks in 2 themes, 5 answers, 2 failures | `AskedTaskExists`, `AskedTaskIsCurrent`, `SkippedBoundedByFaults`, `StatsUpToDate`, `CreditsEarned`, `CreditsKept`, `CountersEarned`; `EveryMessageHandled` and `EveryRightAnswerCredited` under fairness |
| `learning_theme` | 1 connection, no failure | `BestThemeIsDeserved`: **violated** |
| `dialogue_all` | 1 connection, every command, 2 failures, 2 requests for a payload | `LearningHasTask` |
| `dialogue_payload` | 2 connections, 2 failures, 3 requests for a payload | `PayloadsAsked` |
| `dialogue_delete` | 1 connection, no failure | `PayloadsAsked`: **violated** |
| `tasks_cache` | 3 calls at a time, 1 key, hot after 2 misses, 2 writes, 1 failure | `StaleOnlyByRace`, `CounterBounded` |
| `tasks_live` | 2 calls at a time, 2 levels, 4 positions, batches of 1, of 2, and of 2 levels, 2 writes, 1 failure | `GapsHaveCauses`; `EveryCallReturns` and `EventuallyFresh` under fairness |
| `shiritori_game` | 1 connection, 6 words (mute ends, no sounding letter, a duplicate row), 6 counted words, 1 failure | `UserWordsAreNew`, `WordsFormAChain`, `BotRowsAreNew`, `StatisticsAddUp` |
| `shiritori_unique` | 1 connection, no failure, distinct words | `WordsAreUnique`: **violated** |
| `connection_pages` | 2 pages, 2 messages, history of 2, 1 failure, clash or crash; days of 3 hours with 2 slots, hours 4 to 7 | `HistoryIsRecent`, `PageIsHydrated`, `OneCheckPerSlot`, `EverySlotChecked`, `AnsweredWhereAsked` |
| `ai_modes` | 2 tabs, 2 messages in any of the 4 modes, 2 chunks, 1 piece of text, 2 models, 1 failure or restart | `ContextIsTheTalk`, `HeardIsOwn`, `TextIsWhole`, `AudioIsOwn` |

Each passing run also checks a type invariant where its module has one.

Why the bounds suffice for the questions asked:

* Two connections (or calls) give every order of two handlers' steps. Three in
  `tasks_cache` let a leader, a follower and a writer meet.
* One failure at every possible call, of either kind, is the interesting step;
  two allow for a failure of what follows a failure.
* Three tasks in two themes let the theme change with a counter that is not 0.
  Five days let a streak grow, end, and grow again.
* The cache's threshold is 2 in the runs (10 in the code): the first miss counts
  and the second caches.
* A one-shot mode asked for three times by two connections can be asked for
  again while an earlier handler still holds a stale copy.
* Two pages are the page a handler answers to and the one opened after it, where
  its parts and its history go. A history of two with four entries (two messages
  and their answers) is trimmed at every later one. The clock goes over the last
  slot of a day (hour 5 of the days of three hours) and the first of the next (hour
  6) and an hour beyond: a check that fails at the one is followed by the other, and
  the timer set for the next day goes off within the run.
* The batch of two levels reads the largest position of one level and inserts into
  both, before or after another call: levels come to have gaps.
* Two messages in two tabs, or two in one, are what can disturb each other in the
  context, the recogniser or a buffer; the second in one tab finds what the first
  left behind. The clearing of the context is not bounded.
* A game of three accepted words is the shortest one in which a word can be used
  again by either side after two others.

Some properties are stated for one connection only: `AskedTaskExists`,
`AskedTaskIsCurrent`, `SkippedBoundedByFaults`, `StatsUpToDate` and
`LearningHasTask`. With two, a handler that waits for a remote call writes back
a session that replaces the other's, and they do not hold. `CreditsEarned`,
`CreditsKept` and `CountersEarned` hold for any number of connections, which is
proved. The game's
properties speak of the session in the context, which is written as a whole; a second
connection adds games, not steps of one.

### What the violations show

* **`learning_theme`.** The counter of the task session runs on across themes
  (`gateway/internal/users/handler.go:147`). Right answers to "verbs" and then one
  to "nouns" make "nouns" the best theme, with all of them to its credit. The
  README (line 75) promises that the update adjusts the user's best and worst
  themes.
* **`dialogue_delete`.** `task_del` and `word_del` set `StateWordsAdding`
  (`gateway/internal/delivery/admin.go:34-41`). Their payload goes to `NewWords`:
  it is refused and the mode stays, or it is inserted. The help text
  (`wshandler.go:91-104`) says they delete.
* **`shiritori_unique`.** The bot's word is the next row beyond the letter's
  offset, whoever has said it. "net" (the bot says "tin"), then "nun": the bot says
  "net". The README (line 76) guarantees unique words.

## 4. Failures and fairness

A call over the network has three outcomes: `ok`; `lost`, where it fails before
it had an effect; `unseen`, where it has its effect but the caller sees an error,
as when its deadline passes first. `faults` counts the last two, and crashes.
A crash ends all handlers and keeps Redis and the database. Expiry may happen at
any time, except between two writes of one handler a few milliseconds apart,
the first of which has set the time to live to 30 minutes.

The liveness properties assume weak fairness of a handler's steps, per
connection or call: a goroutine that is not blocked runs, and every remote call these handlers make
has a deadline (`context.WithTimeout` in the state manager and in the clients of
users-service and learn-service). A step is enabled as long
as the handler has one; the bound on failures is in the step of the failing
outcome, and the `ok` outcome is always there. `EventuallyFresh` also assumes that
cached entries expire, which Redis does whether or not they are read
(`rdb.go:86`); writes are bounded, so it says what holds once they stop. Receiving
a message, beginning a call, midnight and crashes are not fair.

No liveness is claimed of the connections and the AI modes, for the code has no
deadline everywhere: `ClearAIContext` calls with `context.Background()`
(`gateway/internal/ai/handler.go:161`), and `WriteJSON` has no write deadline, so that a
page that no longer reads holds up its own handler and, as `h.conn`, those of
others. What is said of answers is the safety property `AnsweredWhereAsked`.

In `Connection` two writes to one socket that overlap each go through, fail or
panic: gorilla/websocket allows one writer and panics when it notices a second. A
panic in a connection's goroutine is recovered by the HTTP server and ends the
connection; one in the scheduler ends the gateway. A write to a page that is gone
may fail or go unnoticed. A pipeline of Redis may break off between two commands.

In `AIService` a restart cuts off all calls (`gracefulShutdown` calls `Stop`,
`src/ai-service/main.go:106`) and keeps the context in Redis. A handler may give
up at any time its deadline allows; ai-service does not notice and goes on.

## 5. What is proved

TLAPS proves these for every value of the constants, under the named
assumptions in the modules (`UsersAssumption`, `LearningAssumption`,
`DialogueAssumption`, `SlotsAssumption`, `ConnectionAssumption`, `TaskAssumption`,
`ShiritoriAssumption`, `AIServiceAssumption`, `AIChatAssumption`).

* **`UsersService_proofs`**: `TypeCorrect`, `StreakEarned`, `ThemesExtreme`. Any
  number of concurrent calls, days, counters and themes. `ThemesAreExtremes` is
  inductive with the types. For `StreakIsEarned` the induction
  needs the types (no update carries a day before day 2) and that a streak of 0
  comes with `last_done_day` 0 (`FreshRow`), so that this default is neither "today"
  nor "yesterday". The cases of the CASE are then: nothing changes; a streak that
  ends the day before is extended; a streak of one. `StreakIsLedger` is the
  refinement: as long as no call was overtaken (`late`), the streak is the length of
  the run of active days that ends with `last_done_day`, and every step of the row is
  a step of `StreakLedger` or leaves it as it is. It needs that a run is an interval,
  whose cardinality is known.
* **`Learning_proofs`**: `TypeCorrect`, `CreditsAreEarned`, `CreditsAreKept`,
  `CountersAreEarned` for any number of connections, tasks and failures. Credits
  need an inductive invariant that counts what is still owed: a handler that has
  judged an answer right and has not credited it holds a claim. `task_id - 1` plus
  the claims is at most the number of right answers, which is why two tabs cannot
  credit an answer twice: each judges it first. And the right answers are at most
  that plus one claim of each connection per failure, which is why none is lost:
  every step moves a claim on, or is a failure (`ClaimsNext`). The counters need
  that the copies held by handlers are within the bounds as well.
  For one connection: `AskedTaskAlwaysExists`, `SkipsArePaid`,
  `AskedTaskStaysCurrent`, `StatsStayUpToDate`. A handler past `SaveTask` has left a
  task in the context. The tasks skipped so far and one at risk are at most the
  failures (`SkipInv`): a task is at risk while learning mode, or a handler that scores
  an answer, holds another task than the one at the position, and only a failed call
  brings this about. While nothing failed, the extremes cover the counter of the
  session but between saving a score and recording it (`StatsInv`).
* **`Dialogue_proofs`**: `TypeCorrect`, `PayloadsBySetting` and
  `PayloadsAreAskedFor` for any number of connections, and `LearningAlwaysHasTask`
  for one: learning mode never holds the session of another
  mode. Its invariant adds that a handler about to enter learning mode has its
  task in the context, and that no handler about to save another session runs in
  learning mode. For the payloads, `PayloadInv` says of each mode that the payloads
  executed and the connections that may execute one are at most the
  connections times the grants: the commands that set the mode and the failures,
  less the commands still on their way to setting it. A connection may execute if it
  holds a copy of the mode, or can still read the mode in force before it resets it; so it holds one share whatever copies there are, and a re-entered mode
  grants it one more. `PayloadsBySetting` counts the commands as the code has them
  (`words_add` and both deletions set `StateWordsAdding`) and has no hypothesis.
  `PayloadsAreAskedFor` is `PayloadsAsked` itself, by what the commands mean, and
  needs that no deletion is among the texts: with one it is false (`dialogue_delete`).
* **`Connection_proofs`**: `TypeCorrect`, `ChecksAreSlots`, `SlotsAreChecked`,
  `HistoryKeepsNewest`, `HistoryIsShown`, `QuestionsAreAnswered`, for any slots in
  ascending order, any length of the day, any number of pages, messages and
  failures. For the slots, first
  that `NextSlot` is the first slot after a time (`NextSlotIsNext`): a set of indices
  has a smallest member, division with a remainder is unique, and the first slot of
  tomorrow follows the last of today. The invariant says that the timer is set to a
  slot, that none lies between the clock and it, and that no slot at or after it was
  looked at. A restart sets it to the slot after the current hour, which is why a
  slot is never looked at twice. For the history the invariant says that the list
  is what the sequence of all messages saved ends with (`Tails`), has at least the entries
  that fit, and too many only while a pipeline is between `RPUSH` and `LTRIM` or
  after one broke off. For the page (`PageInv`): a message is with one goroutine only
  (`OneBearer`); once its answer is in the history nothing else of it is written
  (`AnswersSettled`), which is why a part that comes late cannot overwrite what was loaded;
  and the page opened last is `h.conn` and shows what was pushed to it so far
  (`Hydrating`). For the answers (`AskedInv`): a goroutine past receiving a message has
  it in hand; the reply that ends the handling of a message goes to the page it
  was written on; and once a page shows an answer, or an entry with it waits to be
  pushed there, that message is settled, so that whatever is merged into it
  later leaves the answer as it is.
* **`TaskService_proofs`**: `TypeCorrect`, `CountersAreBounded`, `StaleByRaceOnly`
  and `GapsAreExplained`, for any number of concurrent calls, levels, rows and
  failures. `CounterBounded` is inductive with the types: an increment that
  reaches `Hot` makes its call one of those that reset the counter, and a failure
  or a restart pays for all calls it ends at once (one fault, at most
  `Cardinality(Requests)` calls). For stale entries the invariant adds that a call
  which has read a row and may cache it holds the row of the table, or its key is
  tainted (`ReadersKnown`). For gaps it adds that up to the position a call has
  read (`top`) its level has no gap: this is why the position may be stale and yet
  do no harm, for the primary key refuses an insertion that was overtaken and no
  insertion begins further up than the rows ever reached. A batch
  may have tasks of any levels: the code counts on from the largest position of
  the first task's level, and what it goes past in each level is recorded by the
  history variable `skipped`. `GapsHaveCauses` says that nothing else is missing below
  the rows of a level but what was deleted; batches of one level leave no gap.
* **`Shiritori_proofs`**: `TypeCorrect`, `WordsAreNew`, `WordsChain`, `RowsAreNew`,
  `Statistics`, for any words, table, number of connections and failures. All are
  conjuncts of what makes a session good (`GoodGame`), and the invariant is that the
  session in the user context and the one of every handler is good: a handler that
  writes back an old session may lose turns of another, and never breaks a game. A
  good session has marked the words of its turns, has the last letter of the chain,
  and, unless the bot once said the user's word again, offsets at or beyond the rows
  of its turns.
* **`AIChat_proofs`**: `TypeCorrect`, `TextsAreWhole`, `SoundIsOwn`,
  `ContextIsRemembered` and `HearsItsOwn`, for any number of tabs, audio buffers, calls, failures and restarts. For the text the
  invariant says that each message has a call of its own and makes it once
  (`Numbered`), that a call which ended well has sent all that was made (`Complete`),
  and hence that an ended call never changes (`DoneKept`): what was collected from it
  stays the whole answer. For the sound it says that of two handlers with one buffer
  one has lost it (it is in `shared`), that a handler at work holds a buffer that is
  not in the pool (`Apart`), and what the buffer of a handler that has not lost it
  holds between the text and the speech (`Own`). For the context
  (`ContextIsRemembered`) that only calls which ended are remembered, and that a
  call which read the context and was not disturbed since has read what is still
  there (`MemoryInv`): to write it back, extended by its own exchange, appends. For
  the recogniser (`HearsItsOwn`) that what it holds is of calls at work, which have
  met each other, and that what a call alone was told and what the recogniser holds are
  together the chunks sent so far (`HearInv`); this needs lemmas about
  `FlattenSeq` of the community modules: that the recursive function it chooses exists,
  and what appending a sequence adds to it.

Every invariant and action property that a passing run checks is a theorem. Only
model-checked are the liveness properties (`EveryMessageHandled`,
`EveryRightAnswerCredited`, `EveryCallReturns`, `EventuallyFresh`): fairness and ENABLED are out of the prover's reach. So is
the absence of deadlock. `CreditsKept` is what `EveryRightAnswerCredited` comes to
at rest, and is proved.

## 6. Not modelled

* **The language model, speech models and ffmpeg**: external programs; what
  ai-service does with their output is modelled. `GenerateAudio` only passes sound
  on, and is one step.
* **Frontend**: recording, playback and layout. A page whose connection is lost
  never connects again; a message typed on it is shown and never sent
  (`src/frontend/src/App.vue:71`), and is left out.
* **Levels**: `Learning` has one. `task_id` is kept when the level changes, and then
  counts the tasks of the other.
* **Rate limits, circuit breakers and retries**: the repository's README names
  such things; the code has none.
* **gRPC stubs, deployment, start-up**: generated or configuration.
* **Answers that are the text of a command**: commands are matched first, so such
  a task could never be answered; `LearningAssumption` excludes it.

## 7. Plan

Done: the modules above, in the order UserContext, UsersRow, UsersService,
Learning, Dialogue, TaskService, Shiritori, ReminderClock, Connection, AIService,
AIChat, with the proofs of section 5.

What is left: Learning over `TaskService`, with more than one level, and what a gap
or a stale cached task does to the user's position; what survives of the properties
stated for one connection when a second one answers in between.
