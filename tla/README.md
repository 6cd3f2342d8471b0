# TLA+ models of the LL2Games RPG server

A verification project for the C++17 server of a 2D MMORPG (`src/SERVER`). It holds TLA+ modules translated
from the code, TLC configurations that check them on small instances, and theorems about them that TLAPS
proves for every value of the constants. Everything is translated from the source; section 5 lists where a
document or a comment says something the code does not do.

Paths below are relative to `src/SERVER/src` unless they start with `src/`.

## 1. Inventory

Five processes, each a program of its own, talk over TCP and share one MySQL database and one Redis.

| process | threads | role |
|---|---|---|
| MAIN | one, after a double fork | polls `/proc`, restarts processes that died |
| LOGIN | one `select` loop | checks passwords, issues WORLD tickets |
| WORLD | one `select` loop | creates and deletes characters, issues CHANNEL tickets |
| CHANNEL | `epoll` main thread, packet, authentication and save pools, map thread, state update thread, signal thread | the game |
| CHAT | one `select` loop and a signal thread | relays text, sends commands to CHANNEL over a POSIX message queue |

CHANNEL holds two thirds of the code and nearly all of the concurrency.

### Components

**Task executor** (`COMMON/thread`). State: per worker a mutex, a condition variable, a FIFO and a flag; per
pool a round-robin index. Operations: Start, Stop, Submit, SubmitByKey, Run. Used by CHANNEL for everything
that is not the main loop. Hard: stopping while others submit and workers go to sleep. Correct when an
accepted task runs exactly once, tasks of a key run in order and one at a time, and a stopped pool has left
nothing behind.

**Session life** (`CHANNEL/app`, `CHANNEL/packet/PacketProcessTask.cpp`, `CHANNEL/manager/PlayerManager.cpp`).
State: the session of each descriptor, its authentication state, the count of its tasks in flight, its
`Player`; the number of connected users and its limit; the players online; the authentication results on the
way back. The main thread creates and deletes sessions, tasks on the pool and the map tick use raw pointers to
them, `Gameplay::gate` serialises handlers and ticks. Hard: descriptors are reused while tasks for the old
session are queued; a result arrives after its session is gone; `OnDisconnect` blocks the main thread. Correct
when nothing deleted is used, a task only sees its own session and its player, a character is online once, and
nothing waits for ever.

**Send path** (`CHANNEL/app/ChannelSession.cpp`, `ChannelServer::EnqueueSend`, `OnSend`). State: the queue and
offset of a session under a mutex, EPOLLOUT on or off outside of it. Many threads enqueue, only the main
thread writes. Hard: turning EPOLLOUT off races with turning it on; partial writes. Correct when the client
gets the accepted packets whole and in order and none stays behind.

**Player persistence** (`CHANNEL/db`, `CHANNEL/service/*Save*`, `FinalizePlayer`). State: rows in MySQL, a
hash in Redis that caches two parts of them for ten minutes, the `Player` in memory with its save version, the
set of characters whose final save is pending. Loading runs on one pool, periodic saves on another, final
saves on a third. Hard: reads and writes of three stores in several steps, retries of a commit whose answer
was lost, a crash between two stores, a login between two of the steps. Correct when a login sees the newest
state, no save overwrites a newer one, and no character is locked out.

**Server life cycle** (`ChannelServer::Run`, `RequestStop`, `StartWorkers`, `StopWorkers`,
`CHANNEL/main.cpp`). State: three flags, the life of each pool and thread. Hard: a stop that arrives before or
during the start; one of the starts throws; the order in which things are stopped. Correct when a stop is
never forgotten and every player is saved before the connection pool is closed.

**Connection pools** (`COMMON/db`). State: idle MySQL connections and a count of those believed to exist; idle
Redis clients and a condition variable. Hard: replacing dead connections and refilling lost slots from many
threads at once; a user that closes a connection itself (`TradeService::Execute`). Correct when a connection
has one user, the count is exact and no thread waits beside an idle client.

**Tickets, LOGIN and WORLD** (`COMMON/auth`, `LOGIN/packet`, `WORLD/packet`, `WORLD/app`). State: tickets in
Redis with a time to live, the tables `character` and `character_stat`, the authenticated connection of an
account. Hard: a command took effect and its answer was lost; a character is deleted while a ticket names it;
WORLD dies between two INSERTs. Correct when a ticket works once and only as the account that logged in, and a
player in the game has stats.

**Trade** (`CHANNEL/service/TradeService.cpp`, `CHANNEL/packet/HandleTrade.cpp`). State: trade sessions of two
players with their offers, `executing`, and a MySQL transaction over both inventories. Hard: sessions hold raw
`Player` pointers and outlive their players; validation against rows while memory has moved on; a save that
was taken before the trade and commits after it; a COMMIT whose answer is lost. Correct when both sides are in
the same trade or neither is, and what changes hands is what was agreed on.

**Inventory, items, shops** (`CHANNEL/domain/Inventory.cpp`, `CHANNEL/manager/InventoryManager.cpp`,
`CHANNEL/service/ShopService.cpp`, `ItemService.cpp`). State: slots, stacks and gold in memory. Sequential
under the gate; hard are the boundaries: full slots, stack limits, gold near 2^63, and a refund when the
second half of a purchase fails. Correct when an item is added whole or not at all and gold moves only against
items.

**Maps** (`CHANNEL/map`, `CHANNEL/service/MapService.cpp`). State: the maps that exist, the players in each,
the map of each player. Players enter, leave and change maps; empty maps are removed. Hard: a map removed
while someone moves into it. Correct when a player is in one map, which exists.

**Movement** (`Player::AcceptMovement`, `CHANNEL/util/MovementPhysics.h`). State: the epoch, the last sequence
number, the input held. Hard: inputs from before a change of map arrive after it.

**Combat and drops** (`CHANNEL/map/MapInstance.cpp`, `CHANNEL/domain/Monster.cpp`, `CHANNEL/domain/behavior`,
`CHANNEL/service/CombatService.cpp`, `CHANNEL/domain/stat`). State: monsters with a raw pointer to whom they
hunt, hit points, experience, drops with an owner. Hard: targets leave, die and come back as another object;
several hits and kills in one tick; levels. Correct when no target dangles and every kill and death is counted
once.

**Packet framing** (`COMMON/packet/PacketParser.cpp`). A byte stream cut into packets; the state is the
receive buffer of a client.

**CHAT server and commands** (`CHAT`). State: the list of clients, their receive buffers, the message queue.
Hard: a handler deletes a client that the loop still has on its list; blocking calls in a single loop. Correct
when all hear one order of messages and the process stops when told to.

**Process supervision**, **static data and formulas**, **configuration, logging and vendored libraries**: see
section 7.

`PROJECT.json` names the sources of every component; its `hazards` list what in this code is hard to test,
each at its line, with the properties that watch it or the reason why none does.

## 2. Plan

The order is: what everything else runs on, then what touches players' data, then the rest of the game.

1. Done. `TaskExecutor`, `ThreadPool`: the pools.
2. Done. `ChannelSessions`: the life of a session on top of the promise of 1.
3. Done. `PlayerPersistence`: three stores and three pools, with a crash.
4. Done. `PacketStream`, `SendQueue`: the send path.
5. Done. `ServerLifecycle`: composes the pools, the threads and the final saves at start and stop.
6. Done. `ConnectionPools`.
7. Done. `ServerEntry`: LOGIN, WORLD and CHANNEL around Redis and MySQL.
8. Done. `Inventories`, `Trade`: memory and rows of what characters own.
9. Done. `Maps`: maps, the way between them, and movement inputs.
10. Done. `Combat`: attacks, monsters, experience, drops.
11. Done. `ChatRoom`, `ChatServer`: the CHAT process with packet framing, and its promise.
12. Done. A theorem for every invariant, action property and refinement that a run checks (section 6), with
    `FoldTheorems` for what folds over slots, drops and offers compute.

Left, in this order:

* a second CHANNEL server in `PlayerPersistence`, whose pending set the first does not see;
* the lists of WORLD, registration in LOGIN, quick slots.

## 3. The modules and the code

Each definition that models code has an entry in the `map` of `PROJECT.json` with its lines. Names are those
of the code where TLA+ allows it (`OnDisconnect`, `TryMarkSaved`, `SubmitByKey`). In every module an action is
one atomic piece of the code: a critical section no other thread can see half-way, one command to Redis or
MySQL, or the code between two of those that touches only the data of its own thread. Packet handlers,
`FinalizePlayer` and the map tick run whole under `Gameplay::gate`, so that in `Trade`, `Maps` and `Combat`
each of them is a step; `ChannelSessions` is where the gate itself is modelled. Operators named like a bug
(`PopForgotten`, `BuyWithoutRefund`, `AddItemInPlace`, ...) are not used by the specifications: they are the
mutated forms the runs must be able to tell from the code.

Most models call their parts `Init`, `Next`, `Spec`, `TypeOK` and `vars`. Those whose theorems are in one
module with the theorems of another model have the component's name in front, so that both can be extended
there: `PoolsSpec`, `SendSpec`, `EntrySpec`, `LifecycleSpec` and what belongs to them.

### TaskExecutor and ThreadPool

`TaskExecutor` is the abstract specification: lanes that are open or closed, a FIFO and an active task each,
and an outcome for every task. `ThreadPool` is the code: `pc[w]` is where `WorkerThread::Run` is,
`submitter[t]` where the call that submits `t` is, `control` where `ThreadPool::Start` or `Stop` is.
`WorkerThread::PushTask` is `Push` (under `m_mutex`) and `NotifyOne` (outside). `Run` is `TakeTask`, `Leave`,
`PredicateFalse`, `Block`, `Execute`, and the wait may wake up spuriously. `Stop` is `StopStore`, `StopNotify`
and `StopJoin`: it stores `m_running` without `m_mutex`, so a worker may be between its false predicate and
its wait (`"block"`), and that is a step of its own. The refinement mapping (`Outcome`) takes `m_running` for
the open lane and reads a task's outcome off its caller.

### ChannelSessions

Session numbers are `m_sessionId`; `sessions[fd]` is `m_sessions`; `users` is the count that
`OnAccept` compares with the limit. `OnAccept`, `ReceiveAuth`, `ReceivePacket`,
`ProcessAuthResult`/`FinishAuth` (before and after the load result is published), and
`OnDisconnect`, `WaitForNoTasks`, `FinalizePlayer`, `DeleteSession` are the main thread. `TaskBegin`
is `BeginValidSessionTask`, with the lookup by descriptor and the comparison of the session id;
`TaskEnterGate` and `TaskLeaveGate` bracket the handler. `DeleteSession` needs the gate, which
`~ChannelSession` takes once more. `TickBegin`/`TickEnd` are the map tick, which may send to the
session of any player online. `reach` is a history variable: the sessions whoever holds the gate can
have read a pointer to. The pool is that of `TaskExecutor` with one lane for each session, which
allows more interleavings than shared workers do. The gate is one variable.

### PlayerPersistence

A version number stands for the state of a character; each part that is stored on its own (`info`, `stat`,
`inventory`, `quickSlots`) carries one, in MySQL (`db`), in the hash (`cache`, two parts only) and in the
`Player` (`mem`). Loading goes part by part (`CheckPending`, `ReadCache`, `LoadPlayerInfo`, `LoadPlayerStat`,
`FillCache`, `LoadInventory`, `LoadSlotSetting`), a periodic save is `SaveSnapshot`, `SaveCommit`,
`SaveInvalidate`, `SaveMark`, and a final one `FinalizePlayer`, `FinalCommit`, `FinalInvalidate`, up to
`kMaxSaveAttempts`. `CommitFails` covers the commit whose answer was lost: the rows may be new or old. `Crash`
ends the process at any step: players, pending set and queued saves are gone, MySQL and Redis stay, and the
newest state of a character is from then on what was committed. `excused` remembers the three cases in which
the code gives no guarantee: two connections of a character were open at the same time, a final save was given
up, or the process died with the hash older than the rows.

Trades are the other writer, seen here from one of the two characters (`Trade` has both and what they
exchange): `TradeAccept` opens a session, which a disconnect does not close; `TradeCommits` is
`TradeService::Execute`, a new version of the inventory rows, with the gate held from there to the load
(`GateIsFree`) or with the answer of COMMIT lost; `TradeLoads` is the `LoadInventory` of `HandleTradeReady`,
which leaves an inventory in memory that is neither the rows nor what was there, and marks nothing for saving;
`TradeEnds` is every other way out. `drifted` remembers the characters whose inventory a trade has changed and
no save has stored in its newest state since. What the properties say of stored and loaded parts they say of
the inventory only outside of that time (`Sure`): a save whose snapshot is older than the trade takes the rows
back, and memory differs from them although the Player has nothing to save. Of `info`, `stat` and `quickSlots`,
which no trade touches, they say it always.

### PacketStream and SendQueue

`PacketStream` promises that the bytes on the wire are those of the accepted packets in order. `SendQueue` is
`EnqueueSend` in three steps (look at `m_closing`, push, turn EPOLLOUT on if the queue was empty), `OnSend`
with `FlushSend` (`SendBytes` of any length the buffer takes, with `m_sendMutex` held), and the end of
`OnSend`: `CheckPending`, `DisableWriteEvent`, `RecheckPending`, `EnableAgain`.

### ServerLifecycle

`main` is the position of the main thread in `Run`, `StartWorkers` (the sequence `Starting`), the loop and
`StopWorkers` (the sequence `Stopping`); `request[t]` that of the two callers of `RequestStop`, the main
thread and the signal thread. `StateLooks` ... `StateTimesOut` are the state update thread with its wait under
`m_stateUpdateWaitMutex`. A pool has a life and a count of tasks: its `Stop` returns when the count is zero,
which is `StoppedPoolFinishedAll` of `ThreadPool`, or never (`"stuck"`), when a worker of the pool missed its
notification, which is how `StopReturns` of `ThreadPool` is violated. A start that fails may leave a pool of
which some workers run. Merged: `BroadcastServerShutdown` and
`DrainSessionSendQueues` change none of this state and are passed over; a second call of `RequestStop` or
`StopWorkers` by the same thread finds everything done and is not repeated.

### ConnectionPools

MySQL: `GetConnection` either pops an idle connection (then `Ping`), reserves a lost slot (then
`CreateConnection` or `CreateFails`) or returns null; `ReleaseConnection`; `CloseConnection` is the
`mysql_close` of a user, of which the pool never hears; `ConnectionDies` is the network. Redis: `Acquire` with
its wait, `EnsureConnected`, `Release` and `NotifyOne` as two steps, as the code notifies after it unlocked.
Start and Shutdown of the pools happen with one thread and are the initial state and the end.

### ServerEntry

One handler at a time in LOGIN (`login`) and in WORLD (`work`), as both are single loops; a handler stops
between two commands of Redis or MySQL. `Login`, `IssueWorldTicket`, `WorldInit`, `CharacterNew`,
`InsertCharacterStat`, `DeleteCharacter`, `ChannelSelect`, `IssueChannelTicket` and, in CHANNEL,
`ConsumeChannelTicket`, `LoadCached`, `LoadPlayerInfo`, `LoadPlayerStat`. `SetIfAbsent` and `GetAndDelete` are
the two Redis commands; each may take effect and lose its answer. Merged: counting the characters and
inserting the row is one step, since only WORLD's loop inserts rows; `DeleteCharacter`, with its transaction,
is one. Abstracted: the rows of `InsertCharacterInventoryMeta` are not tracked; a ticket value is not drawn
again once it is consumed or expired, while a collision with a live one is modelled; the occupancy of a
channel only refuses.

### Inventories and Trade

`Inventories` holds operators only: the inventory in memory, where every slot exists and an empty one holds
item 0 (`AddItem` as two folds over the slots, `RemoveItemBySlot`, `MoveItemSlot`), the rows, where only slots
with something in them exist (`DecreaseItem`, `IncreaseItem`, with the queries they are made of), and what
carries one to the other (`ItemInfos` for a save, `SetSlotItems` for a load, which leaves a slot without a row
as it was). `Refused` stands for a change that the code refuses, `Count` is how many of an item there are, and
`Room`, how many still fit, is the reference that `AddItem` is compared with. One inventory type stands for
the four: nothing moves between types.

`Trade` has every operation that changes what a character owns. A `Player` pointer is an address, so
that `at[x]` may be nothing or another character's `Player` when a `TradeSession` uses the pointer
it kept. `inTrade` is `m_sessions`, `trade` the session objects. `Start`, `Accept`, `Cancel`,
`UploadItem` and the ready packet are the handlers. Ready is `ReadyFirst`, `ReadyRefused` or
`ReadyExecutes`; after the last the gate is held by `handler` until `LoadInventories`, since a save
task that took its snapshot before may commit between the transaction and the load. A trade whose
confirmation does not fit `kMaxPacketSize` (`Oversized`; the bound is `MaxConfirm` offers) ends with
the exception of `MakePacket`: the session stays. `CommitUnanswered` is the COMMIT that took effect
and whose answer was lost. `StartSave`, `EndSave` and `SaveFails` are one save of a character,
snapshot and commit apart; `Disconnect` ends with a final save and does not end a trade; `Buy`,
`Sell`, `UseItem`, `PickUp`, `Rearrange` change memory only; `Crash` loses memory. `seen` in a
session is history: the offers of both sides when the one who was ready first said so. `Execute` is
the transaction as two folds over the offers, one statement after the other, and `RolledBack` its
end when one of them changes no row.

### Maps

`map` is `m_maps` with the list of players in each, `player` the `Player` with its pointer to the map
(`current`), its saved map id, epoch, sequence number and input. `EnterMap`, `MoveByPortal`, `Dead`,
`RevivePlayer`, `FinalizePlayer` and `MovementInput` are handlers, `Update` is the map thread's tick: all
maps, then the removal of those that were requested and are empty. `Snapshot` tells a client its map and
epoch, `Send` is a client that acts on the last one it saw, and `wire` the inputs that have not been handled,
in order, across as many changes of map as happen meanwhile. `stay` is history: it numbers the places and
lives of a player, and an input carries the one it was made for. `TimePasses` is the clock of an empty map. A
portal to the map the player is already in is modelled like any other.

### Combat

One map with its monsters, projectiles and drops. A pointer to a `Player` is a character together with the
number of its login, so that it does not match the next `Player` of the same character. `HandleSkillAttack`
and `HandleBasicAttack` are the attacks, with levels for the kills in the order of the loop; `Update` is the
whole tick: `SpawnMonster`, `Monster::Update` with its behaviour, projectiles, contact damage, deaths.
`Portal`, `FinalizePlayer`, `RevivePlayer`, `UseItem`, `UpStat`, `PickupDropItem` are the other handlers. Both
attacks need a map; for the basic attack that is a precondition of the model and not a check of the code
(section 5).
Positions, cooldowns and luck are chosen anew in each step, so that every outcome of the geometry is among the
behaviours.

### ChatRoom and ChatServer

`ChatRoom` is the abstract specification: one order of all messages which keeps that of each speaker, heard by
each client without a gap from where it came in. `ChatServer` is the process, statement by statement of its
loop: `Select`, `Receive`, `TryParse` with `NeedMoreData` and `InvalidPacket`, `Dispatch`, `BroadCast` with a
blocking send to one client after another, `EndOfRound`, `ShutdownGracefully`, beside `RequestStop` of the
signal thread and clients that connect, write packets in pieces, read and close. A send to a client that has
closed ends the process (`BrokenPipe`). `readable` is the copy of the clients that `select` reported, which
the loop walks while handlers delete clients. LOGIN and WORLD have the same loop with other handlers.

## 4. The runs

States are distinct states; times are for two workers of TLC.

| run | module | states | time | properties |
|---|---|---|---|---|
| `thread_pool` | MCThreadPool | 64,736 | 25 s | StoppedPoolFinishedAll, ImplementsExecutor, AcceptedIsExecuted |
| `sessions` | MCChannelSessions | 119,170 | 90 s | NoUseAfterDelete, TaskHasItsPlayer, OneSessionPerPlayer, DisconnectReturns, AuthEnds |
| `persistence` | MCPlayerPersistence | 1,177,442 | 132 s | LoadsNewest, CleanIsStored, StoredNeverRegresses, PendingEnds |
| `send_queue` | MCSendQueue | 3,388 | 3 s | NeverStranded, ImplementsStream, AcceptedIsSent |
| `lifecycle` | MCServerLifecycle | 34,170 | 11 s | ShutdownIsComplete, StopEnds |
| `connection_pools` | MCConnectionPools | 411,520 | 12 s | ExclusiveUse, SlotsAccounted, NobodyWaitsBesideIdle |
| `server_entry` | MCServerEntry | 1,136,553 | 43 s | TicketUsedOnce, SessionIsItsLogin, EntersAsAuthorised, PlaysWithStats |
| `trade` | MCTrade | 108,235 | 27 s | TradeIsPaired, AddItemIsExact, TradeMovesWhatWasAgreed, GoodsForGold |
| `maps` | MCMaps | 300,414 | 51 s | InOneMap, InputIsOfThisStay, EmptyMapGoes |
| `combat` | MCCombat | 160,025 | 54 s | TargetsArePresent, LevelFitsExp, DropsAreAccounted, ExpIsAccounted, MonsterReturns |
| `chat` | MCChatServer | 307,036 | 83 s | NoStaleClient, ImplementsChatRoom, MessagesAreRelayed, StopEnds |
| `thread_pool_stop` | MCThreadPool | 32,140 | 10 s | StopReturns, which is violated (section 5) |

`TypeOK` is part of another invariant of the run, except for `ThreadPool`, `SendQueue`, `ConnectionPools` and
`ServerEntry`, where it is proved (section 6) and not checked again.

What they show, beyond the comment above each property, and why their bounds are enough:

* `thread_pool`: two workers and four tasks. Two of the tasks share a key, so that a reordering or a parallel
  run of one key would show; two go through the round robin, which comes back to the first worker. `Stop` may
  come at any moment. Though `Stop` can hang (section 5), no accepted task is lost: the pool implements
  `TaskExecutor`, and every accepted task is executed, with a hung join or without.
* `sessions`: three connections on two descriptors, so that a descriptor is reused while another session is
  open, and one character all of them may ask for; one queued task for each session beside the running one.
  The in-flight count, the lookup by descriptor and id and the gate make `delete session` safe, and the
  blocking disconnect always returns. The limit of users is two, so that it is reached when both descriptors
  are in use; the proof of section 6 is for any limit.
* `persistence`: one character and two connection slots, each used again and again, so that logins overlap or
  follow each other without a limit; two versions after the first, by play or by trades: an old, a middle and a
  newest state, so that a stale snapshot, the rows and memory can all differ, and a trade can change the rows and
  then memory once more; two failures (crashes among them) and two attempts of a final save (`kMaxSaveAttempts`,
  three in the code and any number in the theorems), so that a final save is given up. With `Sure` replaced by
  all parts TLC finds each of the three safety properties violated by a trade. Characters share nothing in the
  code but the pending set and the pool, whose order between characters no property needs.
* `send_queue`: three packets of one and two bytes into a buffer of two: a packet is split, several fit at
  once, and the queue becomes empty and full again while others enqueue.
* `lifecycle`: two clients, two tasks in each pool, a signal at any moment including before `Run`,
  any of the starts failing, `epoll_wait` failing, any pool stuck in its `Stop`. `StopEnds` promises
  the end of the process or that the main thread is in the `Stop` of a pool that is stuck, and
  nothing else. `ShutdownIsComplete` depends on the order of `StopWorkers`, which a swap of two
  calls breaks.
* `connection_pools`: four threads for two MySQL slots and two Redis clients, so that two threads wait while
  two hold and the lost slots are fewer than the threads that find them.
* `server_entry`: two accounts of one character each (`MAX_CHARACTERS` is 1 in the model), two row ids, two
  tickets of each kind, one WORLD session, used again after a disconnect, and two CHANNEL servers: enough for
  a collision and a retry, for a ticket of a deleted character, and for a ticket that is shown to the wrong
  channel.
* `trade`: three characters and two addresses, so that the address a session kept comes to hold another
  character; two slots, an item that stacks to two and one that does not stack, so that inventories are full
  and stacks split; the largest balance is 2. `MaxEvents` = 2 counts sessions opened, changes of memory
  outside of a trade, and crashes; logins are at most three, the offers of a player in one trade two. `MaxConfirm`
  is two: a trade with more offers does not fit its confirmation. Saves, cancels, readies
  and disconnects are not counted.
* `maps`: two characters, a village that is persistent and a cave that is not, with portals each way and one
  from the cave into the cave. Three stays, two inputs for each epoch, one input on the wire, two logins: an
  input meets the stay after its own, in the same map and in another, and the stay of the next session.
* `combat`: two characters with one hit point, an archer (with projectiles) and a boss, two hit points each;
  two logins, one projectile in flight, and one kill in a behaviour: two are out of TLC's reach here in five
  minutes. The boss is worth two levels at once, so that a kill crosses two thresholds and reaches the last level
  exactly. What several kills add up to is left to the theorems of section 6, which are for any number of them.
* `chat`: three clients, four plans of what they send (messages, commands, malformed, unknown, broken and too
  long packets), a window of one packet, a message queue of one command, one client that may close. The plans
  meet each path of `TryParse` and of the handlers; the windows are as small as they can be so that every send
  may block.

`CHECK_DEADLOCK FALSE` is set where the system really comes to rest: all packets of the run are sent
(`send_queue`), the process has ended (`lifecycle`, `chat`), the bounds on events, stays and kills are used up
(`trade`, `maps`, `combat`), a worker sleeps for ever (`thread_pool_stop`). The other runs check that there is
no deadlock. Symmetry is used in `server_entry` and in `trade` (addresses and session objects), which have
no liveness property.

Every property of a passing run has a mutant in `PROJECT.json`: a definition of the model changed the way a
slip in the code would change it, under which TLC finds the property violated.

### Fairness

* `ThreadPool`: weak fairness for the controller, the notifiers and the workers, since the operating system
  schedules runnable threads and the mutex is free but for moments. Nobody has to submit or to stop, and no
  wait is promised a spurious wakeup.
* `ChannelSessions`: weak fairness for the main loop, the lanes, the authentication tasks and the end of a
  tick; strong fairness for the two steps that take the gate, as `std::mutex` under contention is not owned by
  one thread for ever. Clients may do nothing.
* `PlayerPersistence`: weak fairness for the steps of a final save: what `ThreadPool` is proved to promise,
  and commands of MySQL and Redis that return, successfully or not.
* `SendQueue`: weak fairness for the threads, strong for `OnSend` because `epoll` is level-triggered, and a
  client that stays connected reads.
* `ServerLifecycle`: weak fairness for every thread, except that `ThreadPool::Stop` may not return;
  strong for the two that contend for `m_stateUpdateWaitMutex`. Signals and clients need not come.
* `Maps`: weak fairness for the tick of the map thread and for the clock. `Combat`: for a tick while a monster
  is due, and for the respawn delay. Players need not do anything, and in `EmptyMapGoes` and `MonsterReturns`
  they may come and go.
* `ChatServer`: weak fairness for the main thread, which includes that a blocking call returns when it can,
  and for each client that is connected and has something to read. Nobody has to connect, write or close. The
  full message queue, on which the main thread waits for ever, is excepted by the properties by name
  (`Stalled`).
* `ConnectionPools`, `ServerEntry` and `Trade` have safety properties only.

## 5. Where the code and its documents disagree

One run checks a statement of a document that TLC finds violated.

* `thread_pool_stop`: `src/README.md:51` and `:86` say that waiting threads are notified and joined at the
  shutdown. `WorkerThread::Stop` (`COMMON/thread/WorkerThread.cpp:20`) stores the flag and notifies without
  the mutex: a worker that has just found the predicate false and does not wait yet misses it, and `join()`
  does not return. Accepted tasks are executed all the same.

The models do what the code does also where that is not what a reader of its documents and comments expects.
No run is spent on each of these; the properties above are stated so that they hold beside them, and their
mutants and excuses name them.

Persistence and entry:

* `src/SERVER/docs/Improvements/server_stability_improvements_2026-08.md:241` says that a login is refused
  while a final save is pending. The check (`CHANNEL/app/ChannelAuthTask.cpp:106`) comes before the load and
  is not repeated: a second connection of a character that is online passes it, loads the state the first has
  not saved yet, and is published after the first one left (`excused`).
* A process that dies between the commit of a save and the invalidation of the hash leaves an old hash; a
  login within ten minutes reads it and its next save stores it (`excused`).
* `src/docs/db/DB_DESIGN.md:216` says that `character` and `character_stat` are 1:1.
  `CharacterService::CreateCharacter` (`:472`) writes them in statements without a transaction. The character
  that is left behind counts against the limit and cannot be loaded (`PlaysWithStats` holds).
* The comment at `COMMON/db/MySqlConnectionPool.cpp:157` says that all connections are in use when there is
  neither an idle one nor a lost slot. `TradeService::Execute` (`:421`) closes a connection whose ROLLBACK
  failed and does not tell the pool; the slot stays counted for ever.

Trade:

* The comment at `CHANNEL/packet/HandleTrade.cpp:352` says that after a trade the inventories are updated as the
  database was. `LoadInventory` sets the slots that have a row and leaves the others: the slot of the giver that
  became empty keeps its item in memory, nobody is marked for saving, and the next save stores the item again
  (`LoadInventories` of `Trade`, `TradeLoads` of `PlayerPersistence`).
* A save whose snapshot was taken before a trade and commits after it takes one side of the trade back
  (`drifted` and `Sure` of `PlayerPersistence`).
* The comment at `CHANNEL/service/TradeService.cpp:351` says that `HandleTradeReady` removes the session of an
  executed trade after it made the packets of the result. The confirmation names the offers of both sides, whose
  number nothing limits; when it does not fit `kMaxPacketSize`, `MakePacket` throws at
  `CHANNEL/packet/HandleTrade.cpp:383`, `PacketProcessTask` logs it, and the session stays `executing`, which
  `Cancel` refuses (`Oversized`; `TradeIsPaired` excepts it).
* A disconnect leaves the trade session with a stale `Player` pointer, and the character in it, at its next
  login too.
* `IncreaseItem` knows neither the largest stack nor the number of slots: rows, and memory once they are
  loaded, may exceed both.
* When the answer of COMMIT is lost the trade is reported as failed although the rows have changed.

Combat and maps:

* The owner of a drop is a raw pointer (`CHANNEL/map/MapInstance.cpp:813`) that is not cleared when the player
  goes: `CheckDropItem`, which would release it, is not called from anywhere. `PickupDropItem` of the model
  lets anyone or nobody take such a drop.
* `CHANNEL/packet/OnDamagedPacket.cpp:16` speaks of a second without damage after a hit.
  `ProcessContactDamage` and `ProcessRangedDamage` look whether it is over before their loop over monsters or
  projectiles and not in it: several of one kind may hit a player in one tick.
* `CombatService::HandleBasicAttack` (`CHANNEL/service/CombatService.cpp:92`) uses the map of the Player without
  the check for null that `HandleSkillAttack` (`:21`) has: before the Player is in a map the process goes
  through a null pointer. `HandleBasicAttack` of the model asks for a map; the end of the process is not
  modelled.
* A player who is dead may use items; one who logs out dead comes back alive with 0 hit points; a boss keeps
  its pointer to a player who died.
* `CHANNEL/map/MapManager.cpp:387` constructs a `std::scoped_lock` without a name, which unlocks at once; the
  removal of maps is protected by the gate alone.

CHAT:

* `msgsnd` is called without `IPC_NOWAIT` and CHANNEL never starts its `CommandReceiver`: when the queue is
  full CHAT waits for ever, and a stop request does not end it (`Stalled`).
* Neither `MSG_NOSIGNAL` nor a handler of SIGPIPE is set in CHAT, LOGIN and WORLD: a send to a client that has
  gone ends the process. A blocking send to a client that does not read stops the server for everyone.
* A message near `kMaxPacketSize` makes `MakePacket` throw in `BroadCast`, and `Run` ends.

## 6. What is proved

The `*Proofs` modules prove the following for all values of the constants (any number of workers, tasks,
packets, threads, accounts, tickets, sessions, characters, maps, items, offers, levels, clients) from the
assumptions the modules name (`PoolSizeAssumption`, `SendAssumption`, `EntryAssumption`, `MapsAssumption`,
`TradeAssumption`, ...), which only say that bounds are numbers, that prices, stacks and thresholds are
positive where the tables have them so, and that null values are not elements of the sets they stand beside.
Components that lie next to each other share a module of proofs, which extends all of their models.

| module | of | theorem | states |
|---|---|---|---|
| InfrastructureProofs | ThreadPool | `TypeCorrect` | `Spec => []TypeOK` |
| | | `StopDrains` | `Spec => []StoppedPoolFinishedAll` |
| | | `PoolImplementsExecutor` | `Spec => ImplementsExecutor` |
| | ConnectionPools | `PoolsTypeCorrect` | `PoolsSpec => []PoolsTypeOK` |
| | | `UseIsExclusive` | `PoolsSpec => []ExclusiveUse` |
| | | `CountIsExact` | `PoolsSpec => []SlotsAccounted` |
| | | `WaitersAreWoken` | `PoolsSpec => []NobodyWaitsBesideIdle` |
| | SendQueue | `SendTypeCorrect` | `SendSpec => []SendTypeOK` |
| | | `NothingStranded` | `SendSpec => []NeverStranded` |
| | | `QueueImplementsStream` | `SendSpec => ImplementsStream` |
| SessionProofs | ChannelSessions | `DeletedIsUnused` | `Spec => []NoUseAfterDelete` |
| | | `TasksRunOnTheirPlayer` | `Spec => []TaskHasItsPlayer` |
| | | `OnePlayerOneSession` | `Spec => []OneSessionPerPlayer` |
| | ServerEntry | `EntryTypeCorrect` | `EntrySpec => []EntryTypeOK` |
| | | `TicketsWorkOnce` | `EntrySpec => []TicketUsedOnce` |
| | | `SessionsAreTheirLogin` | `EntrySpec => []SessionIsItsLogin` |
| | | `PlayersAreAuthorised` | `EntrySpec => []EntersAsAuthorised` |
| | | `PlayersHaveStats` | `EntrySpec => []PlaysWithStats` |
| SavingProofs | PlayerPersistence | `LoadedIsNewest` | `Spec => []LoadsNewest` |
| | | `CleanMatchesRows` | `Spec => []CleanIsStored` |
| | | `RowsOnlyGetNewer` | `Spec => StoredNeverRegresses` |
| | ServerLifecycle | `ShutdownCompleteness` | `LifecycleSpec => []ShutdownIsComplete` |
| TradeProofs | Trade, Inventories | `SessionsArePaired` | `Spec => []TradeIsPaired` |
| | | `AddItemExactness` | `Spec => []AddItemIsExact` |
| | | `TradesMoveWhatWasAgreed` | `Spec => TradeMovesWhatWasAgreed` |
| | | `GoldForGoods` | `Spec => GoodsForGold` |
| MapsProofs | Maps | `PlayersAreWhereTheyPoint` | `Spec => []InOneMap` |
| | | `InputsAreFresh` | `Spec => []InputIsOfThisStay` |
| CombatProofs | Combat | `MonstersHuntThePresent` | `Spec => []TargetsArePresent` |
| | | `LevelsFitExperience` | `Spec => []LevelFitsExp` |
| | | `DropsAreExact` | `Spec => []DropsAreAccounted` |
| | | `ExperienceIsExact` | `Spec => ExpIsAccounted` |
| ChatServerProofs | ChatServer | `NoStaleClients` | `Spec => []NoStaleClient` |
| | | `ChatRoomImplemented` | `Spec => ImplementsChatRoom` |

`FoldTheorems` holds what `TradeProofs`, `CombatProofs` and `ChatServerProofs` share, and no theorem of its
own about the code.

The arguments:

* **Folds.** The induction theorems of the library take a predicate as a parameter, which the provers here
  cannot instantiate, and a fold of the community modules is a recursive function chosen by `CHOOSE`.
  `FoldTheorems` goes round both: its induction is over sets (`NatSetInduction`: a set of numbers with 0 and
  every successor is `Nat`; `FiniteSetInduction` likewise for the subsets of a finite set), a property is put
  as the set of what has it, and the function that a fold chooses is shown to exist. `FoldLeftChain` then
  gives, for a fold over a sequence, the values after each element, and `SumFacts`, `SumSame`, `SumBut` and
  `SumZero` what a sum over a set does when an element is added, changed or left out. Each use names its
  folded operator, since an operator cannot be passed to a lemma.
* **ThreadPool.** `StoppedPoolFinishedAll` says nothing of states before the stop, so it is strengthened to
  `IInv`: the type; `BusyInv` (a worker runs a task exactly when it is at `"exec"`); `HeldInv` and `OnceInv`
  (what a worker has queued or runs was accepted for it, is not finished and is there once, so that it cannot
  run twice); `PlacedInv` (the other way round: an accepted task that is not finished is held by the worker it
  was pushed to); `ExitInv` (a worker that has left has an empty queue, and its flag is false, so that no
  `PushTask` fills it again) and `ControlInv` (how far the loops of `Start` and `Stop` are fixes which flags
  are set and which workers have exited). When `Stop` has returned, all workers have exited, their queues are
  empty, and by `PlacedInv` every accepted task is finished. The refinement maps each step to a step of
  `TaskExecutor` or a stutter, and needs `OnceInv` where a finished task must not be in a queue.
* **SendQueue.** `NeverStranded` is inductive with the type and the position of the main thread. For the
  refinement, `StreamInv` states that the queue with its offset is exactly what is accepted and not on the
  wire yet (`QueueIsRest`, `WireEnd`), that each accepted packet was accepted by its own sender
  (`AcceptedBySender`), that a session open in `OnSend` stays open until the main thread closes it
  (`OpenInOnSend`), and that the wire is in order; a piece of a packet then continues the wire where it ended.
* **ConnectionPools.** `PoolsIInv` has two halves: `MySqlInv` (idle and held connections are disjoint, and the
  count is exact) and `RedisInv` (clients are in one place; as many threads are on the way as clients are
  idle, when any thread waits) are inductive separately, since no step changes both halves. Assumed is that
  the sets of threads and clients are finite.
* **ServerEntry.** `KeyInv` says that a live WORLD ticket has been the answer for no account but the one
  stored under it, and that a ticket with a key was neither used nor expired; it is what makes `SET NX` and
  `GETDEL` enough for `TicketUsedOnce` and `SessionIsItsLogin`. `CharacterInv` follows a character from its
  row through the claims of a ticket to the player: ids are not reused (`nextId`), so an owner is the account
  of the claims or null, and a profile in Redis exists only for a character that had stats.
* **ChannelSessions.** `IInv` has eight parts beside the type. `Table`: what `m_sessions` holds under a
  descriptor is alive and has that descriptor. `Main`: which session the main thread disconnects, and how far
  it is. `Requests` and `Players`: an authentication is under way in one place only, for a session that waits
  for it; a session and its player point to each other. `Lanes`: what a task that has begun knows of its
  session. `Counts` is the heart: the in-flight count of a session is the number of its running tasks plus the
  publication the main thread is in, so that when `WaitForNoTasks` returns nothing holds the session;
  `Reachable` says that what the gate holder can have read is not deleted, since `FinalizePlayer` needs the
  gate before the delete. `UserCount`: as many users as sessions in the table.
* **PlayerPersistence.** Beside the type: `Connections` (only an online connection has a save to do) and
  `Queues` (a character is pending exactly when one final save of it is submitted), for all characters; and
  `Kept(c)` for a character that is not excused: one connection at most is open (`Alone`), no row is newer than
  the newest state (`Rows`), a pending save has the newest state and nobody is admitted beside it (`Final`),
  when nobody plays and nothing is pending the rows are the newest state and the hash agrees with it
  (`Settled`), the parts a login has read so far are the newest (`Loads`), and what is known of clean players
  and of saves under way (`Clean`, `Saves`). `UpToDate` says of the inventory "the newest" only while it is
  sure and "no newer" otherwise, so that a trade disturbs none of it; `Restores`, a part of `Saves`, is what
  makes it sure again: a snapshot that has the newest inventory is still in memory when it is committed.
  `Settled` and `Final` are what carries the state from one session to the next.
* **ServerLifecycle.** `ShutdownIsComplete` speaks of the end only. `ShutdownIInv` follows the main
  thread there: `RunInv` (when `m_running` can still be set), `ThreadInv` (at which places the map
  and the state update thread can run: the latter only while the task pool is open, which is why its
  submits are never rejected), `PoolInv` (which pools are open, stopped and empty at each place of
  `StartWorkers` and `StopWorkers`; a stuck one keeps the main thread where it is), and `SaveInv`:
  who is online can still be saved, since the save pool is open until everybody was disconnected,
  and the tasks of the save pool are exactly as many as the players that left and are not stored.
  When the pool has stopped it is empty, so nobody is left.
* **Inventories.** `Adds(acc, inv, i, n)` is the invariant of the two passes of `AddItem`: what was taken out
  of the rest is in the slots, the room shrinks by as much, and slots that changed hold the item and no more
  than a stack. `Full` and `Taken` say which slots are behind the pass: after both, a rest that is left means
  that there is no room (`FilledFacts`), which makes `AddItemFacts` an equivalence. `DecreaseItemFacts` and
  `IncreaseItemFacts` give the counts of every item after a statement; `GiveFacts` chains them over the offers
  of one side, `ExecuteFacts` over both.
* **Trade.** `PairedInv` carries `TradeIsPaired`: it is inductive with the types of the sessions
  (`SessionsTyped`) and `HandlerHasSession` (a handler between its transaction and its end has a session that
  executes). `IInv` adds what the lemmas about the operators ask for: who plays has an inventory at one
  address (`PlayersTyped`), rows and saves are rows (`StoredTyped`), sessions hold offers of at least one
  piece, and what a character saw when it was ready is what is offered (`TradesTyped`: nothing can be uploaded
  afterwards), and the handler's pointers are addresses (`HandlerTyped`). `AddItemIsExact` is then
  `AddItemFacts` for the inventories of `PlayersTyped`; `TradeMovesWhatWasAgreed` is `ExecuteFacts` for the
  sessions of `TradesTyped`, of which the two sides are different by `PairedInv`; `GoodsForGold` holds step by
  step (`BuyIsFair`, `SellIsFair`), as no other step changes the gold of someone who stays.
* **Maps.** `Placement` is `InOneMap` itself. `FreshPlayers` and `FreshClients` relate epoch and stay: the
  epoch of a player counts its stays, a snapshot and an input carry an epoch and a stay that belonged
  together, so an input with the current epoch and map is of the current stay.
* **Combat.** `IInv` is the type, that who does not play has something stored (`SavedInv`),
  `TargetsArePresent`, `LevelFitsExp` and `DropInv` (the items on the map are finitely many, their numbers are
  below the next, and the count is right). A tick folds over the monsters and the projectiles, and an attack
  over its kills, so that each piece has a lemma that a fold carries through (`FoldSetInduction`,
  `FoldLeftChain`); `LevelFitsExp` needs that `AddExp` climbs until the experience no longer suffices, an
  induction over the levels.
* **ChatServer.** `MemberInv`: a client is in the backlog or on the list, once. `PointerInv`: what the loops
  still have to visit (`readable`, `pending`) is on the list, once, and not the client in hand, so that
  deleting that one leaves no stale pointer; this is `NoStaleClient`. The refinement needs three more:
  `StreamInv` (the pieces received and those on their way are the packets not taken yet, and of those taken
  what is to be said was said in order), `HandInv` (what the handlers hold) and `HearInv` (every member has
  heard all since it came in but for the message being relayed).

TLC checked each inductive invariant on the instances above before it was proved.

Only model-checked are the liveness properties (`AcceptedIsExecuted`, `DisconnectReturns`, `AuthEnds`,
`PendingEnds`, `AcceptedIsSent`, both `StopEnds`, `EmptyMapGoes`, `MonsterReturns`, `MessagesAreRelayed`):
fairness and `ENABLED` are out of the prover's reach. `StopReturns` is violated. Every other property of the
runs is stated by a theorem.

## 7. What is not modelled

* **Process supervision** (MAIN): one loop that polls `/proc` and starts what is gone, without state to
  relate. Its effect on the data is `Crash` of `PlayerPersistence` and of `Trade`.
* **Static data**: JSON loaded at the start and formulas of damage and statistics over it, which no
  interleaving touches; random numbers are choices.
* **Geometry and physics**: floating-point arithmetic. `Maps` and `Combat` choose what the geometry decides.
* **Encodings**: the bytes of packets, SQL statements and log lines. Framing is in `ChatServer`, with packets
  in pieces instead of bytes.
* **Registration** in LOGIN is one INSERT; the accounts of `ServerEntry` exist from the start. The lists of
  characters and channels and the nickname check of WORLD read only. The report of the channel to Redis
  (`UpdateChannelStateToRedis`) is a count nobody decides by but the refusal in WORLD.
* **Quick slots**: assignments, stored with the other parts in `PlayerPersistence`.
* **A second CHANNEL process** in `PlayerPersistence` (planned).
* **Configuration, logging, tests and vendored libraries.** `src/SERVER/json.hpp` (25,526 lines) and two
  copies of slog are about half of all lines of the repository, and the tests another tenth; that is why the
  map stays well below a third of the lines although it covers most of what CHANNEL, CHAT and `COMMON` decide.

Components that `PROJECT.json` calls `partly` modelled name in their note what is missing.

## 8. Running it

    tlc -workers 2 -config MCThreadPool.cfg MCThreadPool
    tlapm InfrastructureProofs.tla

and likewise for the other rows of the tables in sections 4 and 6; `thread_pool_stop` is `tlc -workers 2
-config MCThreadPoolStop.cfg MCThreadPool`.
