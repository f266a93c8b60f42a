# TLA+ models of the Canary server core

Canary is a Tibia game server: one *dispatcher* thread runs the game world, a
pool of threads and a few acceptors feed it work, and dedicated workers compute
what monsters want to do. This directory models the machinery the game relies
on for ordering, progress and durability, and the game rules whose mistakes
lose or double what players own. It checks the models with TLC on small
instances and proves their central safety properties with TLAPS for every value
of the constants. Paths below are relative to `src/src/` unless they say
otherwise.

Contents: 1 inventory, 2 modules, 3 model checking, 4 proofs, 5 what the checks
found, 6 what is not modelled, 7 plan.

## 1. Inventory of the system

| Part | State it keeps | Operations | What is hard | Correct when |
| --- | --- | --- | --- | --- |
| **Dispatcher** (`game/scheduling/dispatcher.cpp`, `task.hpp`) | a buffer per thread, a queue per lane, armed timers, the map from event id to timer, admission counters, three atomic flags | `addEvent` and its variants, `scheduleEvent`, `stopEvent`, the loop (merge, promote, execute, check, sleep), `shutdown` | flags read and written outside any lock, a condition variable whose mutex no notifier takes, buffers merged while others publish, slots given back on many paths | an accepted task is executed or dropped once, in the order of its producer; slots balance; no published work is slept on; shutdown ends the loop |
| **Weighted deficit round robin** (`dispatcher_wdrr.cpp`) | a deficit per lane, a cursor | `selectLane`, `consume`, `resetLane` | a bounded search over lanes whose readiness changes between calls | a ready lane is found and not starved |
| **MonsterComputeService** (`monster_compute_service.cpp`) | two request and two completion queues, counters, worker threads, a life cycle | `start`, `submit`, `drainCompletions`, `shutdown`, the worker loop | workers, submitters, the dispatcher's batch and shutdowns interleave; thread creation fails half-way; inline mode | no request lost, doubled or miscounted; the capacity and the visible reserve hold; shutdown returns and leaves nothing |
| **Monster intention protocols** (`creatures/monsters/monster.cpp`) | generations, epochs and pending requests per monster; post-think queues in `game/game.cpp` | request, prepare, complete, supersede, retry, reject | results that are stale when they arrive; a post-think held by one of many places | a stale path is never walked; who waits gets exactly one answer |
| **Save manager, thread pool** (`save_manager.cpp`, `lib/thread/`) | the last schedule of every player | `savePlayer`, `schedulePlayer`, `scheduleAll`, `saveAll` | two Player objects of one character, waits on the pool inside the pool, a mark erased before the read | who logs in again finds all it had; every change asked to be saved is saved |
| **Key-value store** (`kv/`) | an LRU cache, evictions to be saved | `get`, `set`, `remove`, `keys`, `saveAll` | loads without the lock, evicted values in flight | a reader sees the last value set; map and queue agree; no evicted value is forgotten |
| **Database** (`database/`) | one connection, a recursive lock | queries, transactions, retries | BEGIN before the lock, retries in a transaction | the lock comes back; a transaction leaves all its writes or none |
| **Connection** (`server/network/connection/`) | a write queue, a state, two timers | accept, read, `send`, `close`, completion handlers | close races with writes; a lock given back while a message is encoded | messages are written in order, by one writer; one read at a time; the protocol is released once |
| **Logins** (`server/network/protocol/protocolgame.cpp`) | the Player's client, `isConnecting` | `login`, `connect`, `logout`, `release` | a take-over in two tasks a second apart | one connection plays a character |
| **Waiting list** (`creatures/players/management/waitlist.cpp`) | two lists with timeouts | `clientLogin` | positions from the sizes of two lists | nobody is overtaken, nor kept out while there is room |
| **Decay** (`items/decay/`) | items by due time, one timer | `startDecay`, `stopDecay`, `checkDecay` | items and scripts that change the map while it is processed | the timer is armed whenever the map is not empty |
| **Money and bank** (`game/game.cpp`, `game/bank/`, `creatures/npcs/npc.cpp`) | stacks of coins, balances | `addMoney`, `removeMoney`, `Bank`, sales | change in stacks that fit in part | money is conserved |
| **Trade** (`game/game.cpp`) | partner, state and item of each player, `tradeItems` | request, accept, close, notifications | items that move, bags in bags | two-sided; what was accepted is handed over, both items or none |
| **Market** (`game/game.cpp`, `io/iomarket.cpp`) | rows of offers | create, accept, cancel, expire | queries whose results are ignored; rows read earlier | an offer pays out once |
| **Party** (`creatures/players/grouping/party.cpp`) | members, invitations, a weak leader | invite, join, leave, pass on, disband | calls that call each other on four lists and two pointers | party and players agree |
| **Houses** (`game/game.cpp`, `io/iomapserialize.cpp`, `map/house/`) | owner, bidder, state, in memory and in rows | bid, transfer, move out, load | restarts and crashes between separate transactions | stakes come back or buy the house |
| Adaptive budgets (`dispatcher_budget.cpp`), map and combat, player persistence, Lua, server start-up, metrics | | | hysteresis; rich data with little concurrency of its own | not modelled (section 6) |

How they interact. Network threads and the pool publish tasks to the
dispatcher; tasks run on the dispatcher thread (barrier lanes also on the pool)
and publish further tasks and timers. Monsters, on the dispatcher thread, submit
requests to MonsterComputeService; its workers publish completions and call the
notifier, which is `Dispatcher::notify`; the dispatcher drains them in its
WorkerCompletion lane, and the monster's completion handler runs there. A
Connection hands packets to the dispatcher and reads on when the task has run.
Logins, logouts and the game's own timer ask SaveManager for saves, which run on
the dispatcher thread or on the pool and go through the one database
connection. Everything a player does (money, trades, market, parties, houses)
is a task of the dispatcher, so its calls are atomic with respect to each other;
what makes these parts hard is long sequences of legal calls, calls that fail
half-way, and what happens on the pool (expired market offers) or at a restart
(houses). On shutdown the compute service is stopped first, then the
dispatcher, then the pool (`canary_server.cpp:640`).

The hazards this code is exposed to are listed, each at its line, in
`PROJECT.json`, with the properties aimed at them.

## 2. Modules

| Module | What it is |
| --- | --- |
| `MonsterCompute`, `ComputePromise` | the compute service, and what it promises: an abstract specification it implements |
| `Dispatcher` | publication, merge, lanes, timers, sleep and shutdown |
| `Wdrr` | which lane is served next |
| `MonsterFollowPath`, `MonsterThink` | how a monster gets a path; how it gets a target and comes to attack |
| `SaveManager` | who saves which Player object when |
| `KvStore`, `KvPromise` | the key-value store, and the persistent map its one client takes it for |
| `DbTransaction` | the shared database connection |
| `Connection`, `Sessions`, `WaitList` | a client's connection, the logins to one character, the waiting list |
| `Decay` | decaying items |
| `Money`, `Trade`, `Market`, `Party`, `House` | what players own and share |
| `MCMonsterCompute`, `MCDispatcher`, `MCKvStore`, `MCDbTransaction`, `MCMoney`, `MCMarket` | instances of one module for TLC |
| `MCServer`, `MCPool`, `MCGame` | suites: instances of several modules that share nothing |
| `MonsterComputeProof`, `DispatcherProof`, `KvStoreProof`, `PoolProof`, `ServerProof`, `SocietyProof`, `EconomyProof` | the proofs (section 4) |
| `FoldLemmas` | lemmas about the library's folds and sums, which the last two use |

Definitions called `Mut...` stand before the definition they are a faulty
variant of, and are used nowhere; they document which fault each property
detects.

In every module, variables carry the names of the members they model, and an
action is a whole handler, or one region of it between two points where another
thread can come in. The comment before an action names the function.
`PROJECT.json` maps every definition to its lines.

**Suites.** `MCServer`, `MCPool` and `MCGame` instantiate several components
that share neither state nor threads at the level they are modelled. A variable
chosen in the initial state (`part`, `game`) says which of them a behaviour
runs; the others stay where they are. This composes nothing, and says so: it
gives components of the same layer one run with one set of constants instead of
a run each. Where components do interact, one module models both sides
(`MonsterFollowPath` has the dispatcher's and the service's messages,
`SaveManager` the pool and the game, `Connection` the network and the
dispatcher, `House` the auction, the saves and the restart).

### MonsterCompute

Variables carry the names of the members they model; `requests` and
`completions` are functions of the priority where the code has two deques.
`at` and `held` say where each thread is and which request it executes,
`pending`, `next` and `selecting` are the locals of `drainCompletions`, `owner`
is the position of each caller of `start` and `shutdown`. One action is one
critical section of the code. `drainCompletions` is the exception: its
selection loop is kept as one action per record, and `selecting > 0` holds the
mutex for it (`MutexFree`). The condition variables are modelled by the
positions `asleep`, `drainAsleep` and `stoppedAsleep`, which only a
notification leaves.

| Action | Code |
| --- | --- |
| `Start`, `AbandonStart`, `FinishAbandon` | `start`, with its catch block when a thread cannot be created |
| `Submit`, `NotifyWorker` | `submit`; the notification comes after the unlock |
| `WorkerSleeps`, `WorkerExits`, `PopNextRequest`, `EnqueueCompletion` | `workerLoop`, `popNextRequest`, `executeRequest`, `enqueueCompletion` |
| `BeginDrain`, `SelectCompletion`, `CompleteRecord` | `drainCompletions` |
| `BeginShutdown`, `StopWorkers`, `JoinWorkers`, `AwaitDrained`, `FinishShutdown` | `shutdown` by the first caller |
| `JoinShutdown`, `AwaitStopped` | `shutdown` by a second caller |

What a request computes is left out, and so is whether it throws: the failure
completion takes the place of the result. Tokens are any values not in use
(2^64 in the code).

`ComputePromise` has three variables: the phase, the jobs waiting and the jobs
ready. The refinement mapping sends queued and executing requests to `waiting`
and published ones, with those in the dispatcher's batch, to `ready`.

### Dispatcher

Here the atomics matter, so an action is one access to a shared atomic or one
region under a thread's mutex without such an access. `at[t]` follows a
publishing thread through `addEvent` (or a variant) or `scheduleEvent`:
admitted (slot reserved), numbering (between the two reads of the id counter),
publishing (pushed, the unmerged flag still to be set), notifying (about to
read `hasPendingTasks`), signalling (read it as false, about to set it), waking
(about to notify). A thread holds its buffer's mutex from the push to the end
(`Locked`), so the merge has to wait. `dpc` follows the dispatcher thread
through its loop; `left` is the buffers a merge or a check has still to lock.
The condition variable's weakness is kept: `blocking` is the moment between the
test of the predicate and the sleep, and a notification that comes then is lost.

A task is an element of `Events`; the constants `Kind`, `LaneOf` and `TokenOf`
say which call adds it and where it goes (after the normalisation those calls
do). Time is left out: any timer may be due at a promotion, and a sleep may end
at any time. Which lane is served next is left open, so whatever `Wdrr` chooses
is allowed here. The completions of the compute service are a counter, raised
by the workers and lowered by the WorkerCompletion lane. As in the code, a
thread has a queue for each lane, and the merge joins each to its lane. Two
histories record what order means: `accepted[t]` is the immediate tasks of `t`
that have not started, and `ahead[e]` those that `t` had published into the
queue of `e` before it.

| Action | Code |
| --- | --- |
| `Admit` | the `shuttingDown` test and `tryReserveLaneSlot`, `reserveDispatcherSlot` |
| `PushTask`, `PushFails` | the body and the catch block of the enqueue calls |
| `TakeNumber`, `PushTimer` | `scheduleEvent` with `Task::getId` |
| `SetUnmerged`, `Notify`, `SetPending`, `WakeDispatcher` | `notifyThreadTaskPublished` and `notify` |
| `PublishCompletion` | a monster worker that calls `notify` |
| `StopEvent` | `stopEvent` |
| `LoopTop`, `BeginMerge`, `MergeThread`, `Promote` | the loop, `mergeEvents`, `promoteScheduledEvents` |
| `RunSerial`, `RunBarrier`, `RunCompletions`, `Finish`, `EndPass` | `executeReadyEvents`, the three lane executors, `executeScheduledTask` |
| `ResetPending`, `InspectOwn`, `InspectThread`, `KeepPending` | `checkPendingTasks` |
| `TestPredicate`, `Block`, `Timeout` | the sleep |
| `BeginShutdown`, `EndShutdown` | `shutdown` |

`Wdrr`: `selectLane` is a loop of up to LANE_COUNT * MAX_TASK_COST attempts.
The module states in closed form what it has done after attempt k (`Visits`,
`Turns`, `DeficitAfter`) and selects the first attempt that succeeds. A step of
the dispatcher is a selection (`Select`), with any lanes ready, any costs and
any of the lanes aged, followed by the consumption of the slice (`EndSlice`) or
a reset of the lane (`ExhaustLane`).

### MonsterFollowPath and MonsterThink

One monster and the calls that are on their way between the barrier phase, the
dispatcher and the compute service (`messages`, `calls`): a set, as they arrive
in any order. What is computed is left out; a request carries what it was
computed for (place, target, map version). `generation`, `active`, `pending`,
`superseded`, `outstanding` and the epochs are the members of those names.

| Action | Code in `creatures/monsters/monster.cpp` and (the first row) `creatures/creature.cpp` |
| --- | --- |
| `AskForPath`, `GoToFollowCreature` | `goToFollowCreature_async` sets the flag, `goToFollowCreature` asks in the barrier phase |
| `Request`, `Supersede`, `Discard` | `requestFollowPathCompute`, `supersedeFollowPathCompute`, `discardFollowPathCompute` |
| `Prepare`, `Complete`, `Reject` | `prepareFollowPathCompute`, `completeFollowPathCompute`, `rejectFollowPathCompute` |
| `Think`, `ThinkAsync`, `ExecuteRanking` | `onThink`, `onThink_async`, `onExecuteAsyncTasks` |
| `Request`, `Prepare`, `Complete`, `Clear` | `requestTargetSearchCompute`, `prepareTargetSearchCompute`, `completeTargetSearchCompute`, `clearTargetSearchCompute` |
| `QueuePost`, `ExecutePostThink`, `CancelQueue`, `Seen` | the post-think's way through the queues of `game/game.cpp` |
| `Changes`, `ChangeWorld` | what the rest of the world does meanwhile |

### SaveManager

`pc` and `doing` say where a thread is and which Player object it saves. A save
is three actions, the object's mutex (`TakePlayerLock`, with `m_playerMap.erase`
before it), the read (`ReadPlayer`) and the write at the commit (`WritePlayer`);
`Take` is a pool worker that starts its first task, with the test whether a later
schedule has replaced it. `saveAll` is `Begin`, which looks at who is online and
whether the pool has several threads, `Submit` for each task and `Awaited`, or
`Each` for one player after the other. The thread that the dispatcher loop holds
is one of the pool's (`PoolThreads`) though it takes no tasks. `Login` makes a new object from the table, `Release`
is the end of an object's last reference, which can come long after the logout.
`plan` fixes for a behaviour whether saves are asynchronous, how many threads of
the pool the dispatcher leaves free and how much is asked of it.

### KvStore

A value is a number and a deletion mark. `Set`, `Hit`, `Miss`, `ListCached` and
`GetStore` begin an operation; every later region without the mutex (`Load`,
`Fill`, `TakeEvictions`, `SaveEvicted`, `ListStored`, `SaveAllWrites`) is an
action. `SetLocked` is `KVStore::setLocked` with its eviction, `Place` the
iterator that the map keeps into the queue. `plan` says which operations each
thread calls, how large the cache is and how many queries fail. `KvPromise` is a
map and a table: the refinement mapping takes as the map what the cache, the
evictions under way and the table say together (`Content`).

### DbTransaction

The MySQL session is external: it applies a write to the open transaction or at
once. `Begin` and `Lock` are the two halves of `beginTransaction`; `Statement`
is a query of the callback, `Finish` the commit or the rollback of the two
`executeWithin...` functions, `GiveUp` what each of them does when a statement
of the callback has failed, `Single` a query outside a transaction, `LoseConnection` the loss that
`retryQuery` repairs.

### Connection, Sessions, WaitList

`Connection`: the handlers run on the network thread, `Send`, `Disconnect`,
`StartTask` and `ResumeWork` on the dispatcher. `InternalWorker` and
`InternalSend` are the two sides of the point where `connectionLock` is given
back while a message is encoded. A read or write that is under way ends well
(`HeaderArrives`, `ParsePacket`, `Written`), fails, or is timed out.

`Sessions`: `FirstMessage` posts a login; `Place`, `TakeOver` and `ConnectNow`
are the branches of `ProtocolGame::login`, `Connect` and `ConnectFails` those of
`connect` a second later; `Release`, `Logout` and `Kick` end a session. Three
history flags name what the code gets wrong: `raced`, `late`, `dropped`
(section 5).

`WaitList`: `WalksIn` is a login for which `clientLogin` returns at once, `Asks`
one that looks at the lists; `Leave` and `RunOut` are a logout and an entry
whose time is up. `stray` counts the premium entries that were erased through
the wrong list (section 5).

### Decay

`Outcomes` says how an item ends; `StartDecay` and `StopDecay` are operators on
a record of the whole state, since `checkDecay` calls both while it runs and
scripts call them too (`Acts`). `Fire`, `DecayNext` and `Rearm` are the three
parts of `checkDecay`: the buckets are copied and erased, each item decays, the
next event is armed.

### Money, Trade, Market, Party, House

Each call of a player is one action, since they all run on the dispatcher.

- `Money`: an inventory of a few places; coins of three units; `AddMoney`,
  `RemoveMoney`, `DeliverChange` and `AddCoinStack` are the functions of
  `game/game.cpp`, `Withdraw`, `Deposit` and `TransferTo` those of
  `game/bank/bank.cpp`, `Buy` and `Sell` those of a shop.
- `Trade`: `RequestTrade`, `AcceptTrade`, `CloseTrade` and, from the
  notifications in `player.cpp`, `MoveItem` and `WalkAway`, which may close what
  they touch (`Disturbed`). `where` says what each item is in; `Holds` is
  `isHoldingItem` at any depth, without recursion: an item is in every set that
  is closed under nesting.
- `Market`: `CreateOffer`, `AcceptOffer`, `CancelOffer`; `CheckExpired` is the
  query on a pool thread, `ProcessExpired` the task that its rows come back in.
  Queries whose result the code ignores may fail (`Writes`).
- `Party`: `Invite`, `Join`, `Revoke`, `PassLeadership`, `Leave`,
  `SetSharedExperience`, `Walk`, `Fight`, `TicksEnd`, `Logout`. The functions of
  `party.cpp` that call each other are operators on a record of the parties.
- `House`: bids for houses in any state, move-outs and transfers (`named` says
  whether the bidder's name is stored as the bidder spells it); logins and
  logouts, which read and write a player's row; `SavePlayers` and `FinishSave`, in
  which the houses are saved in a transaction of their own; `Crash` at any moment;
  and the restart, which loads house by house and settles what is due, the account
  and the house in two writes (`PayWinner` before `EndAuction`, `PayFormerOwner`
  after `CompleteTransfer`; `half` and `due` in between). `strayed` is a ledger of
  what the code gives or takes where it should not: each of the places in
  section 5 that do so books the amount, and `HousesKept` says that nothing else
  strays.

## 3. Model checking

All runs finish with the whole state space explored; the state counts are those
of distinct states.

| Run | Instance | Shows |
| --- | --- | --- |
| `compute_safety` | two workers or none (inline mode), one submitter that is also the dispatcher, two owners, capacity 3 with a reserve of 1, streak limit 1, two starts | counters, admission, a quiet service after every shutdown, and the refinement of `ComputePromise` |
| `compute_live` | one worker or none, capacity 2 | every request leaves, every shutdown returns |
| `dispatcher_safety` | six workloads of twelve tasks (a task, one of the pool and a timer; creature work with the workers beside a timer or a task; two connections, two timers beside a task, more ordinary work than a barrier lane takes), a publisher, a monster worker | slots, places, flags, the reserve, order per connection, stopped timers stay stopped |
| `dispatcher_live` | a barrier task beside a cyclic timer, both threads scheduling | progress and the end of the loop |
| `dispatcher_lost_wakeup` | one task, no timer | **violated**: section 5 |
| `kv` | three keys, two threads, three plans: one client alone with a cache too small, a client beside a saver with a failing query, two clients that both evict | nothing is lost, evictions are taken, and the refinement of `KvPromise` |
| `server` | `DbTransaction`, `Connection`, `Decay`, `Wdrr`, `Sessions`, `WaitList` | locks, atomicity, order of messages, one reader, one player per character, the waiting line, the decay timer, no starvation, and that everything ends |
| `pool` | `MonsterFollowPath`, `MonsterThink`, `SaveManager` | every request has its answer, no stale path, no lost save, and saveAll ends unless every free thread waits in one |
| `game` | `Money`, `Trade`, `Market`, `Party`, `House` | money and goods, two-sided trades, offers paid once, parties, houses over restarts and crashes |
| `db_begin_race`, `money_vanishes`, `market_clones` | one module each | **violated**: section 5 |

Why the bounds are enough.

- The compute service tells tokens apart only by identity and priorities by two
  values; capacity 3 with a reserve of 1 makes the two admission limits differ.
  The streak limit is a constant because the code's 3 only makes the state space
  longer. Two owners make one shutdown join another, two starts make one life
  of the service follow another.
- Publishing threads share nothing but flags and counters, so two (one of them
  the dispatcher, from a task) give every race; each workload has the tasks of
  the kinds its properties are about.
- `kv`: with three keys and a cache of two, an eviction meets a load and a set
  of either of the others; two writes to the same key and one to another tell a
  stale value from a new one. It has 1.8 million states.
- `server`: two threads and two transactions make BEGIN race with everything;
  three messages let one be sent while one is written and one encoded; three
  connections let one take over while another waits; two places for five
  characters fill the waiting list; two items share a bucket or do not.
- `pool`: four changes let a request be replaced twice and the map change in
  between; three Player objects are two sessions of one character beside one of
  another. One free thread is enough for a saveAll to wait for itself, two for
  one to save while another waits and for two to wait for each other. Of the five
  plans one saves on the dispatcher thread; the others have two saves of players,
  one beside a saveAll, two saveAlls, and one free thread.
- `game`: a stack of three coins and three places can overflow in part; three
  players with a bag, two halves of a stack and an item make an offer that is
  touched from outside and a bag in a trade; two offers, one old, with a result
  on its way; two parties; one house, free or a tenant's, three calls and two
  restarts, which let a bid be outbid, then offered or given up, and be settled
  after a crash. `MaxRefusals` is 0 as the
  scripts that are shipped (`data/events/scripts/party.lua`,
  `data/scripts/eventcallbacks/party/on_disband.lua`) never refuse.
- Every bound is a constant named `Max...` or stands in a plan. `Events` is
  finite because a task is admitted once.

Deadlock checking is off where the system may stop: the dispatcher's loop ends
by design, the service is shut down, and clients and players may stop asking.

Fairness. A thread that can go on does (weak fairness), and a lock is granted to
one that keeps asking (strong fairness), as the schedulers the server runs on
do. Nobody is obliged to submit, publish, log in, bid, or shut down.

- Compute service: the steps of workers, the batch and owners that have begun.
- Dispatcher: its loop goes on, the tasks it runs return, a sleep with an armed
  timer ends and a timer is due at some promotion (strong, since promotions come
  and go). `LeavesWhileTicking` and `LoopEnds` have the premise that some timer
  is armed again and again, as the server's recurring events are.
- Connection: handlers whose operation has failed or timed out run, queued tasks
  run, and a write that the peer takes ends. Nothing makes a silent peer send;
  the timers do what they are for.
- Database, saves: a thread inside a call goes on (`Goes`).
- Monsters: the barrier phase comes round and messages are delivered.
- Logins: the dispatcher runs its tasks. Waiting list: clients that are `Patient`
  come back in time; the others need not.
- Decay: the clock and armed events go on. Market: the expiry query and its task
  run.

`SavesLand`, `WaitsEnd` and the other liveness properties of suites are of the
forms `<>[]` and `[]<>`: behaviours of the models are finite but for stuttering,
so these say that a state that is wanted is reached and kept.

## 4. Proofs

`tlapm` checks every module `*Proof` and `FoldLemmas`. Liveness and ENABLED
stay with TLC. Assumed are only the named assumptions of the models: finite or
disjoint sets, sizes that are positive and amounts that are naturals, the shape
of plans, and for `Trade` that items, players and the ground differ.

| Theorem | Property | Module |
| --- | --- | --- |
| `AccountingHolds`, `AdmissionBounded`, `RoomWhenPublishing`, `StoppedQuiet`, `TokensInOnePlace` | `Accounting`, `AdmissionBound`, `RoomToPublish`, `StoppedIsQuiet`, uniqueness | `MonsterComputeProof` |
| `PromiseIsKept` | the service refines `ComputePromise` | `MonsterComputeProof` |
| `MergeFindsWork`, `SleepIsAnnounced`, `SlotsBalance`, `BucketsFindRoom` | `MergeFinds`, `SleepSeesWork`, `SlotsMatch`, `BucketRoom` | `DispatcherProof` |
| `TasksHaveOnePlace`, `TasksKeepTheirOrder` | `OnePlace`, `OrderKept` | `DispatcherProof` |
| `StoppedTimersStayStopped` | `StoppedNeverRuns`, if one thread alone schedules | `DispatcherProof` |
| `EvictionsAreTaken`, `NothingIsLost` | `EvictionsTaken`, `NothingLost` | `KvStoreProof` |
| `StoreKeepsPromise` | the store refines `KvPromise`, and saveAll saves all (an action property) | `KvStoreProof` |
| `LockIsBalanced`, `TransactionsAreAtomic` | `LockBalanced`, `AllOrNothing` | `ServerProof` |
| `PathsAreItsOwn`, `CallsAreAnswered` | `WalksItsOwnPath`, `Answered` | `PoolProof` |
| `RequestsHaveAnswers`, `LoginsLoadAll` | `RequestsAnswered`, `LoginLoadsAll` | `PoolProof` |
| `SentIsWritten`, `ReadsAlternate`, `OneConnectionPlays` | `Written`, `OneReader`, `LoginsKept` | `ServerProof` |
| `TradesAreKept`, `TradesAreFair`, `PartiesAreKept` | `TradeKept`, `TradeFair`, `PartyKept` | `SocietyProof` |
| `LanesAreServed`, `ReadyIsSelected` | `NoStarvation`, `SelectsWhenReady` | `ServerProof` |
| `DecaysAreKept`, `LineIsKept` | `DecayKept`, `LineKept` | `ServerProof` |
| `HousesAreKept`, `MarketIsKept`, `MoneyIsKept` | `HousesKept`, `MarketKept`, `MoneyKept` | `EconomyProof` |

Type correctness is a theorem of its own for the compute service, the database
and the follow path, and part of the property (`OnePlace` in the dispatcher's
case) for the others. The theorems of
`ServerProof` are about `Peer!Spec`, `Logins!Spec`, `Lanes!Spec`, `Decays!Spec`
and `Line!Spec`, the components by themselves, those of `PoolProof` about the suite.

**MonsterComputeProof.** The invariant is `IInv /\ LInv`. `IInv` adds to the
checked invariants that a thread holds a request exactly while it executes
(`HeldWhileExecuting`) and that the batch and its index fit (`BatchShape`):
without the first a popped request could be counted twice, without the second
`CompleteRecord` could read past the batch. `LInv` says that the service is
Stopping exactly while one owner leads it out (`OneLeader`), that no request is
queued unless it is running, and what is already quiet at each point of that
way; `StoppedIsQuiet` alone says nothing of the steps before Stopped and is not
inductive. The counters are sums of four numbers per priority; lemmas say how
each changes when a thread takes or gives away a request and when a record
joins or leaves the batch. The refinement needs one fact more, `OnePlaceEach`:
a token is in one queue, at one thread or in the batch at most once. With it,
every step maps to a step of the promise or to a stutter: taking a request out
of its queue, putting a completion into the batch and all the waiting are
invisible; a completion that is published moves a job from waiting to ready.

**DispatcherProof.** `MergeFindsWork` and `SleepIsAnnounced` follow from `FInv`.
The first needs only itself: a buffer with work is still on the merge's list,
or the unmerged flag is up, or its thread is just about to raise it.
`SleepSeesWork` speaks of the sleep alone and is not inductive; the
strengthening `NothingMissed` follows the check from the first buffer it looks
at: work in a buffer already inspected, and a completion, came after
`hasPendingTasks` was reset, so that the flag is up again or a thread is about
to raise it. `SlotsBalance` and `BucketsFindRoom` follow from `SInv`: the tasks
that hold a slot are known and admitted, every counter is the number of its
holders, and holders other than creature buckets never exceed the capacity
without the reserve. The proofs say that work is announced before the sleep,
not that the sleep ends: the lost notification of section 5 is compatible with
both.

`TasksHaveOnePlace` and `TasksKeepTheirOrder` follow from `TInv /\ PInv`. `TInv`
is the types, with what a thread in a call holds (`Calls`) and that a lane, and
a buffer for it, has tasks of that lane only and timers only in the lane
(`Sorted`). `PInv` says that the stages of a task exclude each other (`Staged`),
that a stage with a thread is with one thread (`Owned`), that no queue has a
task twice (`Single`), and that what holds a slot, an id or a place in the
history is in a stage where it may (`Found`): only a cycle keeps slot and id
while it runs. `Ordered` carries the order from the buffer into the lane: of two
tasks of one queue the one ahead stands before the other, in the same buffer, in
the same lane, or already in the lane while the other is in the buffer. Merging
appends whole buffers, so it keeps this; a slice takes the first task of its
token (`FairFirst`, with `Min` of a set of numbers from `Smallest`) and a
barrier a prefix (`FirstOut`), so nothing overtakes. `StoppedTimersStayStopped`
adds `NInv`: ids are unique and not above the counter, whoever is between the
increment and the second read sees a number above every id, and a timer that may
still run has an id under which it is registered, or is canceled. Its hypothesis,
that one thread schedules, is needed only where a number is taken.

**KvStoreProof.** `KvInv` is the types with what each thread does: what it has
to save is in its batch, and a thread that is at work is one whose plan has it
work. Lemmas about sequences without duplicates (`InFront`, `AtTheEnd`,
`TakenOut`, `LastOut`) carry the agreement of map and queue, which setLocked
needs to erase the right victim. `NothingLost` speaks of quiet states only; its
strengthening `Kept` says where the last value of every key is while an
operation runs: in the cache, or waiting in `pendingEvictions_` or a batch, or
in the table; that a value being loaded is of a key that is not cached and not
older than what was set; and that a copy taken by saveAll is of keys that have
not been evicted since. That at most one thread is outside saveAll makes
`Waiting` empty whenever a client acts, so that an eviction cannot overtake an
older one of the same key. From `Kept`, the store's content is the last values
(`ContentIs`), and each step is a Put, a Persist, a SaveAll or a stutter of
`KvPromise`.

**ServerProof.** Of transactions, `LockBalanced` needs only the current transaction of each
thread (`KnowsCurrent`). Atomicity is proved for calm behaviours, those in which
nobody came between a BEGIN and its lock and no connection was lost: a calm
state is preceded by calm ones, and while calm one thread at a time is in a
transaction (`Alone`) and the session holds exactly what that thread has
executed (`SessionKept`).

`PeerInv` adds to the checked properties where every message is
(`Accounted`) and that nothing happens before onAccept. `LoginsInv` says who may
play: as long as no login came between another and its connect, only the client
does, and nobody once somebody waits to take over (`ClientPlays`).

That no lane starves is not inductive: the bound is reached over many
selections. What a lane has saved and where the cursor stands bound the turns
another lane may still have before it (`TurnsLeft`), hence what the other can
spend (`Spends`), and `Waits` says that this, summed over the others, and what
they have been served so far stay within their shares. A selection moves the
cursor by any number of rounds at once; that a visit to the waiting lane saves at
least what a visit to another may cost it is a count of visits by quotient and
remainder (`VisitsAre`, `CountsChosen`). The sum is edited one lane at a time
with `FoldLemmas`. `Thrifty` bounds what is saved: a lane that could pay would
have been selected. `ReadyIsSelected` needs a task to cost less than the most it
may cost: otherwise the lane at the
cursor may be in a turn that has nothing left, and one of its visits adds no
quantum.

Decay works on records of the item attributes, the map, the armed events and
`eventId` (`Fresh` and what the handlers make of it), so that a handler that calls
others is followed record by record. `Covered` says that an event comes in time
for the first bucket of such a record; `FirstCovered` excepts the time inside
checkDecay, in which what its iterator stands at is covered by the event that is
still to be armed. `Agrees` is the agreement of the map with all items but the one
in hand, which startDecay and stopDecay take out and put back; what a bucket
keeps when its last element takes the place of the removed one is a lemma about
sequences, and so is what the due buckets, one after the other, hold.

Of the waiting list, what is checked is inductive once the players online are known
to be finitely many (`LineInv`). Erasing is a fold, followed with `FoldWithin`:
what is left is who is not gone, in the order of the list (`Thinned`), so whoever is
ahead stays ahead (`AheadStay`). The slot a client is given leaves a place for
each ahead and one for itself (`AheadFits`), because a node erased through the
wrong list makes one size too large and the other too small: a place that is
computed from one size can only come out too far back, and their sum is right.

**PoolProof.** One call per outstanding request
(`OneCall`), and a computation for the newest generation is the pending
request's (`ComputesPending`), because whoever replaces or drops that request
draws a new generation; this is why a test of the generation at completion is
enough. For the post-think the invariant names its holder (`Somewhere`) and that
a queued one is in the queue it is said to be in. For saves (`SaveInv`):
when they run on the dispatcher thread, there are tasks of saveAll only while the
game makes them or waits for them (`Joined`), and whoever is offline is in the table as it left,
unless it is the one the game is saving right now (`Saved`).

**SocietyProof.** `Holds` is the least set closed under nesting; lemmas prove that
moving an item that is not held by an offer leaves what the offer holds
(`Kept`), for bags nested to any depth, and that closing both sides of a set of
trades leaves the others paired. `Paired`, `OffersApart` and `AcceptedStands`
are inductive together.

The invariant of parties is the types with `Orderly`, the four lists and
pointers of every party seen together (`Fine`), its sharing (`Shared`), and that
parties that do not exist and players that are gone are in nothing (`Calm`). An
operation of `party.cpp` takes one party through states that are not fine, so
the lemmas speak of the others (`Others`), which each change leaves `Untouched`,
and of the one, whose members are followed call by call (`PassIs`, `LeaveIs`,
`DisbandIs`). `std::erase` and the loop over invitations are folds.

**EconomyProof.** Of houses, `HousesKept` is inductive with `BidHeld`, since who is
outbid gets back the limit, which must be what it put up; `Settled`, since what
loading moves counts once; `Halfway`, which says between the two writes of a house
what the other will bring; and `Reloads`, since a house that is loaded may be
loaded again after a crash, from a row that must be worth as much. An action is a
call that moves no money, one that moves it between a player and a house, one that
books in the ledger, or a load; the stake of a player is a sum over houses in which
one house changes (`StakeChanges`). Of the market, money and goods are sums over traders and
offers: each action is shown to take from one sum what it gives to another, and
what comes back with expired offers is summed twice, over offers and over their
owners (`SumGroups`). `FoundAgrees` is the strengthening: what a result has of
an offer still listed is that offer but for its amount, which is why `outdated`
is the only exception.

Of money, `MoneyKept` is inductive as it stands; the work is in the folds that a
call makes. What is carried, and the room for a kind of coins, are sums over the
places (`WorthIs`, `RoomIs`), so a coin that is put takes one of the room and adds
its worth (`PutCoinIs`). A sum is paid out in stacks worth exactly that sum, by
quotients and remainders (`CoinsAre`), and `Added` follows addMoney over them: what
is placed and what is reported agree until a stack vanishes. removeMoney is followed
by `Paying`: until the sum is covered nothing is given back, and the stacks that it
has come to are gone. That the stack which covers the rest is still the one that was
collected takes an argument the code does not spell out: its change is less than one
of its coins, and what is added as change touches no stack of a greater coin
(`StaysAbove`). What is left to pay in the end is therefore what the coins did not
cover, and that much is in the bank.

**FoldLemmas.** A fold is defined in the library by recursion on sets, through a
function that is chosen. The prover has no induction rule it can use for it, but
the theorem that strict inclusion of finite sets is well founded gives the least
set for which a statement fails (`LeastSubset`), and that is enough to show that
the function exists, that a fold takes one element at a time, and that sums do
not depend on the order and can be split, edited and swapped. Where the order
matters, `FoldWithin` follows a fold with a set of values per set of elements it
has come to, as an invariant follows steps.

Only model-checked, and why:

- under fairness: `RequestLeaves`, `ShutdownReturns`, `LeavesWhileTicking`,
  `LoopEnds`, `AllEnds` (with the waiting list's `RoomIsUsed`), `SavesLand`,
  `WaitsEnd`, `OldOffersLeave`.

Every other property of a run that passes, its invariants and action properties,
is stated by a theorem.

## 5. What the checks found

Four runs end in a violation; `PROJECT.json` quotes the lines.

`dispatcher_lost_wakeup`: the dispatcher tests its predicate, finds nothing and
is about to sleep; a thread publishes a task, sets `hasPendingTasks` and
notifies, and no one is asleep yet; the dispatcher sleeps. Later publishers see
`hasPendingTasks` set and do not notify. As `dummyMutex` is never taken by a
notifier (`dispatcher.hpp:231-236`, comment at 273), nothing excludes this. Only
a timer ends the sleep, so on a running server the cost is latency up to the
next recurring event; with none armed, the task is never executed. `shutdown`
has the same race.

`db_begin_race`: BEGIN is sent under a lock of its own and the lock of the
transaction is taken afterwards (`database.cpp:178-187`). Another thread's write
that comes in between belongs to the transaction and is rolled back with it
though it was reported as done.

`money_vanishes`: `internalAddItem` for a player goes on when there is room for
a part of a stack only; the rest is neither placed nor reported, so that a sale
that says it sends the rest to the bank (`npc.cpp:297`) sends nothing.

`market_clones`: a row of an old offer is read on a database thread; if the
offer is accepted in part before the task runs, all of it is given back.

The other properties hold. Where one is stated under a condition, the condition
is in its comment; these are the conditions, and what else was met on the way.

- Dispatcher: two threads that schedule timers at once can be given one event id
  (`task.hpp:38-46` increments and then reads again), after which `stopEvent`
  stops the wrong timer or none. The model contains this (`TakeNumber`,
  `PushTimer`); `StoppedNeverRuns` fails when `Schedulers` has two threads, and
  the run has one, the usual case.
- Compute service: with a restart in between, a second caller of `shutdown` that
  waits for Stopped can miss it and waits until the next shutdown; `compute_live`
  has one start.
- Saves: with asynchronous saves a login can read rows from before the last save
  (`player.hpp:257-262`; `config.lua.dist:370` calls them experimental), so
  `LoginLoadsAll` is about saves on the dispatcher thread.
- Saves: `saveAll` waits on a thread of the pool for tasks that only the pool can
  run, and `get_thread_count()` counts the thread that the dispatcher loop holds
  (`save_manager.cpp:33`, `dispatcher.cpp:133`). With a pool of two threads the
  first asynchronous saveAll of two players waits for itself; with one of three, two
  do that have both passed the test of `m_scheduledAt` before either has made its
  tasks. The model does this, and `SavesLand` and `SaveAllEnds` except it by name
  (`Stuck`); the pool's default leaves at least three threads free.
- Database: `executeWithinTransaction` commits what a callback that returned
  false has written; a connection that is lost in a transaction is replaced and
  the rest of the callback runs outside of one. Both are excepted in
  `AllOrNothing`.
- Key-value store: a get that misses overwrites what another client set in the
  meantime (`kv.cpp:89-96`), and a forced get (`KV.get(key, true)` of scripts)
  overwrites what was set and not saved, even for one client alone; so
  `NothingLost` is about clients that do not force. The keys that `keys` lists
  include deleted ones whose rows are still there.
- Logins: `eventConnect` is a member of the new protocol, so the guard "Already
  trying to connect" never fires, and two logins within a second end in two
  connections that control one character (`raced`). When the new connection is
  gone before its connect, `isConnecting` stays set (`dropped`): the player
  cannot be logged out, and the kick for missing pings is put off for good; only
  the kick for idleness ends it.
- Waiting list: premium entries are erased with `info->waitList.erase`, which is
  undefined for a node of another list; with libstdc++ it unlinks the node and
  lowers the wrong size. After `MaxPlayers` premium characters went through the
  list, regular clients that retry are not admitted even to an empty server
  (`stray` in `RoomIsUsed`).
- Decay: the iterator of `checkDecay` dangles when a script empties the bucket
  it points at; the model then lets any delay be chosen, and `TimerArmed` leaves
  that case out.
- Trade: the result of the second move is ignored, and the test before it counts
  room on stacks that the move does not merge with, so a trade can be one-sided
  (`leftBehind`); who accepts before the other has offered accepts whatever will
  be offered.
- Market: `removeOfferItems` takes what there is before it finds that this is not
  enough, and the player loses it, as a comment admits; results of queries are
  ignored in create and accept; a cancelled offer is paid back before its row is
  deleted. `MarketKept` holds as long as none of this happens.
- Money: `deliverChange` hands out all of the change again when a part of it did
  not fit. `MoneyMoves` excepts this and `money_vanishes`.
- Party: if a script refuses, a disband that was refused after the leader left
  keeps the leader in `m_leader`, and the later disband takes it out of its new
  party; a forced leave at logout that is refused leaves a party without a leader
  that nobody can leave. That somebody has stopped fighting is noticed at the
  next update only, and healing a partner never counts, for
  `onTargetCreatureGainHealth` asks `isPartner(nullptr)`.
- Houses: an error of `canBidHouse` is sent and the bid goes on (`houseBidId` is
  never set, so one may bid for many houses); the highest bidder may lower its
  bid. Nor is the state of the house asked for (`game.cpp:12803-12856`): a bid for
  a rented house is taken, and lost if the house is then offered to somebody; one
  for a house in transfer pays back rent and limit to a recipient that may have paid
  nothing, and a recipient that changes the price is paid or charged the
  difference. A transfer stores the name as it was typed (`game.cpp:12955`), and
  the comparison of `processBankAuction`, unlike the lookup, heeds the case, so an
  accepter whose name was typed otherwise gets rent and limit back. When an auction
  or a transfer is settled at a start, a crash between the two writes pays the
  difference twice or the former owner never (`iomapserialize.cpp:335-350`), and
  `setOwner` leaves `transfer_status` as it was, so a later transfer may count
  as accepted although nobody has paid. All of this is in the model; `MoneyHeld` counts the amounts
  in `strayed`. `loadHouseInfo` loads neither what is paid nor the warnings and sets
  `paidUntil` a period ahead at every start, so `payHouses`, which runs only
  then, never collects rent. A house taken from an inactive owner keeps the
  state Rented and is never available again. `payHouses` for a player that does
  not exist means to reset the owner and keeps it. Players and houses are saved
  in separate transactions; a crash between them loses or doubles a stake
  (`torn`, which `HousesKept` excepts).

## 6. What is not modelled

Game data, map, combat, items' attributes, player serialisation, the encoding
of protocol messages, Lua bindings: most of the code, rich in data and with
little concurrency of its own (the models cover about 6,600 of 178,000 lines).
The adaptive budgets, the combat intention of monsters (which follows the
pattern of the target search), the guilds and the map in `saveAll`. Telemetry,
logging and statistics; memory lifetime and allocation failure beyond the catch
blocks the code has; data races on ordinary members, such as `m_playerMap`,
below the level of an access. `asyncWait`'s partitions (a barrier runs its tasks
all at once); task expiry in time (a task may expire at any moment). Server
start-up, signals and the order of shutdown as a whole, in which the backup may
be taken before the pool's last saves have finished. `PROJECT.json` lists every
part with its reason.

## 7. Plan

1. Done: the modules of section 2, their runs, and the theorems of section 4,
   with both refinements (`ComputePromise`, `KvPromise`).
2. Done: a theorem for every invariant and every safety property the runs check.
3. A composition of `Dispatcher` and `MonsterCompute` with the shutdown order of
   `canary_server.cpp`, which needs both modules with smaller constants; the
   adaptive budgets.
