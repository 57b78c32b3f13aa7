# srvgame in TLA+

Specifications of srvgame, a multi-process game server in C++, with their
model-checking configurations for TLC and proofs for TLAPS.
Paths are relative to the repository (`src/network/BinarySession.cpp` is
`src/src/network/BinarySession.cpp` from the directory above `tla/`);
`PROJECT.json` maps every definition to the lines it stands for.

## The system

A **master** process holds the game: players, world, NPCs, database. It forks
**workers** that hold nothing but client connections. Master and workers talk
through one `socketpair` per worker; the workers also send their log lines to
the master over TCP.

```
 client --- BinarySession ----+
 client --- WebSocketSession -+- ConnectionManager    (worker, 2 or 4 io threads)
                                      |  IPCChannel   (socketpair, one io thread per end)
                                MasterRouter          (master, io thread)
                                      |
              GameLogic / LogicCore --+-- PlayerManager --- DbManager --- SQLite / PostgreSQL
                game loop, world loop     save thread                     pool + maintenance
              LogicWorld, LogicEntity, CollisionSystem, MobSystem, InventorySystem,
              LootTableManager, PredictionSystem, SkillSystem, QuestManager, ...
```

| Component | State it keeps | Operations | Who runs it |
|---|---|---|---|
| `process/IPCChannel` | `writeQueue_`, `writing_`, the socket | `SendAsync`, `doWrite`, `doRead`, `Stop` | any thread sends; the io thread of the end writes and reads |
| `network/BinarySession` | `write_queue_` under `write_mutex_`, `closing_`, sequence numbers, four timers, the payload being read | read loop, `Send`, `SendRaw`, `SendAcknowledgment`, heartbeat, payload deadline, adaptation, `Stop` | the worker's io threads without a strand, and the IPC thread |
| `network/WebSocketProtocol`, `WebSocketSession` | `state_`, the socket, `current_message_` | handshake, frames, fragments, ping, close, `SendFrame` | the same threads, no strand, no write queue |
| `network/ConnectionManager` | `sessions_`, `pendingReplies_` | accept, client message, close, master push and broadcast | the same threads |
| `network/MasterRouter` | none but references | one handler per message type | the master's io thread |
| `game/LogicCore`, `GameLogic` | session ↔ player maps, pending world generation, `running_` | login, position, state, attack, loot, leave; game loop, world loop, save loop; shutdown | io thread and three loops |
| `game/PlayerManager`, `Player` | `players_`, `usernameToId_`, `playerToSession_`; the character | create, authenticate, save all, announce; fight, level, buff | io thread and save thread |
| `network/PredictionSystem` | inputs not yet acknowledged | record, replay | io thread |
| `game/LogicWorld`, `WorldChunk`, `WorldGenerator` | the chunks loaded, their blocks and meshes | load, evict, unload far chunks, generate around a player | io thread, game loop, world loop |
| `game/LogicEntity`, `NPCManager`, `NPCEntity`, `MobSystem` | NPCs, spawn zones | spawn, update, damage | game loop and io thread |
| `game/EntityManager`, `CollisionSystem` | entity table and owners, spatial grid | register, destroy later, move, query | game loop and io thread |
| `game/InventorySystem`, `LootTableManager` | inventories, loot, tables, each under one mutex | add, remove, move, transfer, save; draw | io thread and NPC update |
| `game/QuestManager`, `SkillSystem` | quest progress, skills and cooldowns | accept, progress, complete; use, update | io thread and game loop |
| `game/ChunkStreamer`, `ChunkPool`, `ChunkCache`, `SpatialGrid` | queues and promises, pooled and cached chunks, where sessions are | request, load, unload; put, get, evict, save | loaders, unloaders, a save thread (none of it is built) |
| `process/ProcessPool`, `MasterServer`, `main` | workers, their pids and channels, `running_` | start, fork, shut down | main thread and signals |
| `database/DbManager`, `SQLiteClient`, `PostgreSqlClient`, `DatabaseService` | backend, connections and their marks, migrations | connect, create, migrate, statements, transactions | every thread that saves, and the maintenance thread |
| `logging/Logger`, `config/ConfigManager` | the queue of lines and the files; one JSON document | enqueue, write, rotate, stop; load, validate, get, set | a writer thread; everyone |
| `scripting/*` | Python modules, watched files | load, reload, fire events | see "Not modelled" |

What is hard in this code:

* **Handlers without strands.** Several io threads run the completions of one
  socket while the IPC thread sends through it. Order and exclusion come from
  mutexes and flags only (`writing_`, `closing_`, `write_mutex_`), and in the
  WebSocket connection not even from those.
* **Locks given back and taken again.** `QuestManager`, `ChunkCache`,
  `LootTableManager`, `NPCManager` and the SQL clients decide in one locked
  section and act in another.
* **Locks taken twice.** Many operations lock a `std::mutex` they hold; what
  that does is undefined, and the models choose between the outcomes that the
  build can produce.
* **Two views of one fact.** Which session a player plays in is kept by
  `LogicCore` and by `PlayerManager`; which sessions exist is known to the
  worker only; what a player owns is in memory and in a row; where a body is
  is in its entity and in a grid.
* **Failure.** The database refuses statements and goes away; clients vanish
  without closing; workers hang; the process ends in `_Exit` without a last
  save.
* **Limits.** Connections, chunks in memory, bytes of a cache, quests, slots,
  loot, log files.

`PROJECT.json` lists the hazards line by line, and with each the properties
that would catch it going wrong.

## Modules

Processes, connections and messages:

| Module | Models | Properties |
|---|---|---|
| `OrderedChannel` | what a channel promises: accepted envelopes are delivered in order, each at most once, and losslessly until the stream is damaged | - |
| `IPCChannel` | one direction of `IPCChannel.cpp`: queue, `writing_`, the `doWrite` chain, the kernel buffer, `doRead`, `Stop` | `ChannelInv` (one chain of writes, nothing lost or overtaken, no frame stranded), `EventuallyRead`, `ImplementsOrderedChannel` |
| `BinarySession` | one binary client of a worker: read loop, write queue, acknowledgments, timers, `Stop` | `SessionInv`, `SilentClientDropped`; violated: `ReliableAcknowledged` |
| `WebSocketConnection` | one WebSocket client: handshake, fragments, control frames, writes, close | `ConnectionInv`, `DisconnectNoticed`, `MessagesHandled` |
| `WireFormats` | WebSocket frames and messages cut into frames, the fields of the binary protocol, URLs and the client's handshake | `FrameInv` (in `WireInv`): what is written is what is read, a part is never taken for the whole, a client is open only towards a server that answered its key |
| `MessageLayouts` | the fields of each message as `ConnectionManager`, `MasterRouter` and the clients write and read them, binary and JSON | `LayoutsInv` (in `WireInv`): a request reaches its handler and an answer its client with the values it was written with, except for the messages listed there |
| `Traffic` | rate limiter, network quality monitor, compression streams and the list of `WebSocketServer` | `TrafficInv`: no window lets more through than burst and rate, a packet counts once, the list of a server holds each open connection once |
| `GameSessions` | the sessions of all workers, the channels, and the master's maps | `CoreAgreesWithManager`, `MutualVisibility`, `Delivered`, `LoginAnswered` |
| `Supervisor` | what the master promises about its workers: started once, lost at any time, gone when the server is down | - |
| `ServerLifecycle` | `main`, `MasterServer`, `ProcessPool` and the signal side of a worker | `LifecycleInv`, `SignalStops`, `ImplementsSupervisor` |
| `LogService` | the queue of log lines, its writer, rotation, the workers' sockets, `Stop` | `LogInv`: lines in order and without a gap, files within bounds, what was queued is written before `Stop` returns |
| `Configuration` | the JSON document: load, validate, getters, setters, worker groups, `GetConfig` and `SetConfig` of scripts | `ConfigInv`: valid until somebody sets a value, readers agree, what is set is read |

Accounts and storage:

| Module | Models | Properties |
|---|---|---|
| `PlayerAccounts` | accounts in memory and their rows: creation, login, save thread, cleanup of offline players, refused statements, restart | `NamesAgree`, `RowBehindMemory`, `LoginsSound`, `ProgressSaved` |
| `ConnectionPool` | the PostgreSQL pool: take, wait, release, maintain, disconnect, cuts and server stops | `PoolSafe`, `PoolRecovers` |
| `SqlClients` | the statements of SQLite and PostgreSQL, parameters, transactions, prepared statements | `SqlInv`: parameters stay apart, what was reported as stored is loaded, a failed transaction leaves nothing |
| `DatabaseManager` | start-up with the creation of database and tables by several servers, migrations, `SQLProvider`, `DatabaseService` | `DatabaseInv` |
| `ChunkStore` | `ChunkCache`: memory, disk, policies, save thread, restart | `CacheInv`: books agree, limits hold, nothing is found that was not put, or written from freed memory |

The game:

| Module | Models | Properties |
|---|---|---|
| `Characters` | `Player`: health, levels, attributes, buffs, combat, possessions, friends, quests, the row | `CharacterInv`, `ExperienceCounts` |
| `Movement` | the replay of stored inputs by `OnPlayerState`, `InputBuffer` | `MovementInv`: the newest input counts, an old jump is forgotten in the end, who stands is at rest |
| `Inventory` | `InventorySystem` and the two handlers that use it | `InventoryInv` (in `ItemsInv`): slots in order and within their limits, checks tell what operations do; `ItemsKept` |
| `LootTables` | `LootTableManager`: tables, draws, the table registered for a weighted draw | `LootInv` (in `ItemsInv`): only what is deserved, no more than allowed, no table left |
| `Creatures` | NPCs, their states, attacks of several io threads during the game loop's update, spawn zones | `CreaturesInv` |
| `Skills`, `Quests` | `SkillSystem`; `QuestManager` section by section | `SkillsInv`; `QuestsInv` |
| `Terrain` | chunks of `LogicWorld`, the loops of `GameLogic`, positions, shutdown | `TerrainInv` (in `LandInv`); violated: `RequestsHandled` |
| `ChunkMesh` | ground and block meshes, levels of detail | `MeshInv` (in `LandInv`): watertight blocks, seamless chunks, usable messages |
| `Collision` | `CollisionSystem` on a line: bodies, grid, queries, rays, the shape tests and the push they give | `CollisionInv`: the grid finds whoever is near, contacts push out, rays stop at the first body |
| `Entities` | `EntityManager` and `BroadcastGrid` | `EntitiesInv` |
| `ChunkStream` | `ChunkStreamer` and `ChunkPool`: loaders, unloaders, promises, cleanup | `StreamInv` |

A named invariant such as `SessionInv` is the conjunction of named parts, each
with its comment, in the module it belongs to.

### How the modules are composed

`GameSessions` composes workers and master over the queues that
`OrderedChannel` promises, and `IPCChannel` is shown to implement
`OrderedChannel`; `BinarySession` and `WebSocketConnection` stand for the
connections that `GameSessions` sees only as sessions that open and close.
`ServerLifecycle` implements `Supervisor`; the other modules are what happens
while it is `running`. `SqlClients` takes any connection of the pool that
`ConnectionPool` guards, and `PlayerAccounts` is what calls it. `Terrain` and
`Creatures` each have the game loop, and in both it ends in
`CollisionSystem::Update`, which `Collision` models.

Modules that share no state are checked side by side in one run. An MC module
with a variable `focus` (`MCConnections`, `MCServerLifecycle`, `MCActors`,
`MCWorld`, `MCServices`) picks one part at the start, runs that part and leaves
the others as they start, in one state; so the run covers the sum of the state
spaces and not their product, and an invariant is evaluated where its variables
change. Nothing is lost by it: two parts that share no variable cannot disturb
each other.

### How state and actions correspond to the code

* **IPCChannel.** `queue` and `writing` are `writeQueue_` and `writing_`;
  `posting` callers have set `writing_` and not yet run their `asio::post`.
  `async_write` gets a pointer into a local vector while the lambda keeps a
  copy, so a frame the socket buffer does not take at once may go out *torn*:
  a choice in `StartWrite`. `doRead` treats a length of zero or above
  `MAX_MESSAGE_SIZE` as the code does: it starts over without skipping, in the
  middle of the frame, whose bytes may then be read as several envelopes that
  mean nothing (`Pieces` bounds them), and go on in the frames after it.
* **BinarySession.** `todo[t]` is the list of steps left in the handler thread
  `t` runs, so a handler is as atomic as its locks make it. `write_mutex_` is a
  plain `std::mutex`: a thread that asks for it while holding it stays where it
  is. The sequence number is taken before the lock, as in `Send`.
* **WebSocketConnection.** `tasks[t]`, as `todo[t]` above. `SendFrame` puts an
  operation into `writes`, which the socket serves piece by piece; `Close` is
  the test of `state_`, its assignment, the closing of the socket and the close
  handler, in steps of their own. The client keeps to the protocol.
* **GameSessions.** A worker's `sessions_`, one queue per direction and worker,
  and the four maps of the master. The handlers of the master are one action
  each, as its only io thread runs them to their end; pushes to the workers are
  part of the action that causes them.
* **PlayerAccounts.** `io` is where `OnAuthentication` is between the locks it
  takes: insertion into `players_` (`CreatePlayer`), into `usernameToId_`
  (`NamePlayer`), the save (`SaveNew`), the end of the creator's reference
  (`DropNew`, whose destructor may save once more), `FindPlayer` and
  `ConnectPlayer`. The save thread and the cleanup thread run between any two.
  `PlayerDisconnected` has no caller, so only a player who is not connected yet
  is offline for the cleanup; it collects under one lock (`CollectInactive`) and
  removes under another (`RemoveInactive`). Ids are those of the static counter,
  which a restart sets back. `GameSessions` leaves the cleanup out: there a
  player is in the master's maps from the login on.
* **ServerLifecycle.** `main` is where the main thread is, which is also the only
  io thread of the master, and `proc` what the kernel knows of each worker. A
  worker is `starting` until it has its own `signal_set`; before, it runs the
  handler it inherited, so a signal to it is written to the master's pipe. The
  forty waits of 50 ms are one choice between `Reap` and `Kill`.
* **LogService.** `writer` is where the writer thread is between its locked and
  its unlocked parts; `Test` and `Sleep` are two steps because `Stop` does not
  take the mutex. Files are sequences of lines, the size of a line is one.
* **ConnectionPool.** A connection is the address of its `PGconn`, which may be
  given out again once finished. Threads hold the lock except while they wait.
  A connect may fail with the server up, too; `CreateNewConnection` then returns
  null without `PQfinish`, so the `PGconn` stays `open` and is in nobody's hands
  (`Leaked`). After `MaxLeaks` of them the others are not followed.
* **DatabaseManager.** `backend.open` is `poolInitialized_` or `db_`.
  `PostgreSqlClient::Disconnect` clears it and its `Reconnect` fills the pool
  without setting it, while `DbManager` takes itself for connected (`renewed`).
* **Traffic.** `Close` of a connection sets `state_` (`closed`) and calls the
  close handler (`closing`), which takes it off the list once it has
  `connections_mutex_`: two actions, with accepts, other closes and `Stop`
  between them.
* **SqlClients.** Each call takes any link of the pool (SQLite has one); BEGIN,
  operation and COMMIT are three steps, each of which may fail. `claims` are the
  rows a caller was told are stored.
* **ChunkStore, ChunkStream, Quests, LootTables.** A step runs from one lock to
  the next; what a thread still has to do is in its record (`store`, `job`,
  `calls`, `draw`). A loot table that was freed meanwhile is read as it was, or as
  nothing. The save thread and `Flush` keep an iterator without the lock: when
  its entry was erased (`dangling`), they write any content to the file and clear
  the mark of any entry, or of none.
* **Creatures.** `job[s]` is where the handler of session `s` is: it looked its
  NPC up under `npcMutex_` and goes on without it, while `turn` is what is left
  of the game loop's update. Health is counted in hits.
* **Characters, Inventory, Skills, Movement, Configuration.** One action per
  method, each under its own mutex or on one thread; times that run out, and
  numbers never initialised, are choices. `LevelUps`, `Price` and
  `SimulateMovement` are recursive functions over levels and inputs, as the
  loops they stand for. A second lock of a held `std::mutex`
  ends in a thread that hangs (`hung`, `stuck`, `jammed`) or in going on. The
  saves of `Inventory` and `Skills` store nothing, as their statements name a
  column and a table that the server's schema does not have: `Save` is the
  change in memory, and loading finds no row.
* **MessageLayouts.** A message is a list of fields, a value its bytes; each
  writing and each reading function is the list of its calls. `backwards` is the
  order in which the compiler evaluates the three reads of `ReadVector3`, and
  `Leftovers` are the bytes a number has that was never initialised.
* **Terrain.** `loop` is where the game loop is between the mutexes it takes;
  `holder` has `world_generation_mutex_`. The hash map's `begin()` is any chunk.
* **Collision, Entities, Terrain.** The world is a line, which keeps cells,
  neighbours and distances and drops what is the same in the other directions.

## Runs

Each run is complete for its bounds. `CHECK_DEADLOCK FALSE` throughout, because
every module is a system whose clients may stop asking, and whose counters are
bounded; what must not stop is stated as a liveness property.

| Run | Bounds | Shows |
|---|---|---|
| `channel` | 2 callers, 4 sends of 2 envelopes and an oversized one, socket buffer of 1, 2 envelopes at most from one damaged frame | one chain, nothing lost, reordered or forgotten; every envelope is read or an end is closed; refinement of `OrderedChannel` |
| `session_safety` | 2 io threads and the IPC thread, 1 client message, 1 push, 2 firings of the adaptation timer, payload deadline, malformed and huge messages | one carrier of the write chain, frames in the order of the queue, the session is closed once |
| `sessions` | 2 workers, 2 players, 1 session per worker, 3 messages | the maps agree, players see each other, answers match, chat has one order, logins are answered |
| `accounts` | 2 names, 2 passwords, 2 ids, 1 step of progress, 1 refusal, 1 restart | accounts and rows agree, with save thread and cleanup at any point; the right password decides; progress reaches its row |
| `pool` | 3 threads, 4 addresses, 1 to 2 connections, 3 faults, 2 leaked `PGconn`s | exclusive use, maximum, no working connection lost; the minimum is restored, waits end |
| `connections` | WebSocket: 2 io threads and the IPC thread, 1 message of up to 2 fragments, 1 ping, 1 push of up to 2 pieces; binary: 1 io thread, 1 ping, 1 push, the heartbeat; traffic: 2 packets, 4 ticks, latencies of 20, 120 and 600 ms | messages whole and in order, removed only when closed; clients that leave are noticed, messages handled, a silent client is dropped; traffic control |
| `lifecycle` | 3 workers, 2 signals; for the log 1 worker, 2 lines, files of 1 line, 1 or 2 of them; for the database 2 servers, 2 tables, 2 migrations, 4 calls of the service | the master ends after a signal, no worker survives it, no foreign process is signalled; refinement of `Supervisor`; the log loses nothing; the database is complete |
| `actors` | 4 deeds of a character up to level 4; 6 inventory operations of 2 players with 2 slots; 2 threads drawing 3 times from 3 tables; 2 sessions, 4 attacks on one NPC of three hits; 5 inputs with 2 remembered | the invariants of the five modules, and what levels are worth and items in the game |
| `world` | 6 casts of 3 skills with 2 slots; 2 threads, 4 calls, 3 quests with a limit of 1; 2 players, 2 moves, 4 chunks at most; meshes of 2×2 columns; 2 bodies; 2 entities, 2 sessions; 2 loaders, 1 unloader, 3 tiles, 2 requests | the invariants of the seven modules |
| `services` | bytes of 8 values, frames of up to 65, 3 fields; every message once, with one to three values for a field; 2 clients of the cache, 3 uses, limits of 1 to 3; 2 threads, 2 links, 2 statements; 8 documents, 2 changes | the invariants of the five modules |
| `session_reliable` | 2 io threads, reliable messages | **violated**: see findings |
| `world_requests` | the bounds of `world`, terrain only | **violated**: see findings |

Why the bounds are enough. The code treats threads, sessions, players,
envelopes, chunks and quests alike, so two of a kind meet in every way that a
pair can; the third participant that matters (IPC thread, save thread,
maintenance, a third thread waiting for a pool of two) is there. Queues hold at
least two elements where order matters; limits (slots, chunks, quests, cache,
pool, history, files) are smaller than what the environment asks for, so that
they are reached and passed; two faults cover one that is repaired
and one that comes while the first is being repaired. `accounts` has one refused
statement, which meets every place where the code looks at the result or does
not; the theorems about accounts hold for any number. A byte of 8 values keeps
all three encodings of a length within payloads that can be enumerated, as the
numbers of `WireFormats` are stated for any `Radix`. The bounds `MaxSent`,
`MaxIn`, `MaxPush`, `MaxAdapt`, `MaxSends`, `MaxSessions`, `MaxId`,
`MaxProgress`, `MaxRestarts`, `MaxFailures`, `MaxFaults`, `MaxLeaks`, `MaxWaits`,
`MaxMessages`, `MaxFragments`, `MaxPings`, `MaxPushes`, `MaxPieces`,
`MaxSignals`, `MaxLogLines`, `MaxDeeds`, `MaxGold`, `MaxOps`, `MaxAttacks`,
`MaxInputId`, `MaxLootCalls`, `MaxCasts`, `MaxCalls`, `MaxMoves`, `MaxChanges`,
`MaxEntities`, `MaxFutures`, `MaxViews`, `MaxUnloads`, `MaxFields`, `MaxTime`,
`MaxPackets`, `MaxUses`, `MaxStatements`, `MaxLines`, `MaxSettings` and `Pieces`
cap what the environment does, never what the code does, with two exceptions:
`MaxWaits` is the number of times the ten seconds of `GetConnection` allow a
wake-up, and `MaxLeaks` is how many lost `PGconn`s keep an address of their own. `session_safety` has
one constraint, `OneConcern`: nothing else happens once the client is silent
for a period of the heartbeat; that combination is in `connections`, with one
io thread.

`session_safety` uses the symmetry of its io threads, `services` that of the
threads that call databases and cache, `world` that of the loaders; every run
with a liveness property goes without, as symmetry is not sound there.

### Fairness

Weak fairness, and only for what the process itself schedules: handlers that
run go on to their end, asio starts handlers of finished operations as long as
`ioContext_.run()` has a thread, timers that are armed expire, the save thread
and the maintenance thread come round, the main thread of the master runs, the
game loop goes on unless it hangs. Nothing is assumed of a worker that starts or
stops, as its threads may hang, nor of clients, of the network, of the database
or of who sends next. There is no strong fairness. The fairness of the write
side of `WebSocketConnection` covers connected clients that read; `gone` ends
it. `RequestsHandled` has weak fairness of the game loop and of an io thread
that holds the mutex, and none for one that waits for it.

`SignalStops` takes two things for granted that the code does not give: that
`LogService::Stop`, the last thing `main` waits for, ends (its notification may
be lost, see below), and that the io thread of the master is not stuck in
another component's lock (`Collision`, `Inventory`) when the signal comes.

### Findings

* `session_reliable`: `SendAcknowledgment` calls `DoBinaryWrite` with
  `write_mutex_` held, which locks it again: the first reliable message of a
  client whose queue is empty blocks its io thread for good. `SendRaw` does the
  same, and the adaptation timer reaches it, because `ProcessAcknowledgment` has
  no caller and every packet counts as lost.
* `world_requests`: `CollisionSystem::Update` locks `mutex_` and then, in
  `GetPotentialCollisions`, again. The game loop waits for itself in its first
  iteration, mostly with `world_generation_mutex_` locked: no queued position is
  generated around, NPCs stop, and a later `OnPlayerPosition` never returns.

The assertions behind these are sentences of the repository's `README.md`,
quoted in `PROJECT.json`.

Met while modelling, without a run of their own; where a module is named, it has
this behaviour, and its properties are stated around it.

*Processes and connections.* After a length of zero or above
`MAX_MESSAGE_SIZE` `doRead` starts over inside the frame, so one frame may be
read as several envelopes (`IPCChannel.cpp:75`). When a connection closes, no one tells the master,
and the player stays in the game (`ConnectionManager.cpp:235`); a leave that
arrives after a newer login through another worker takes the player out of the
newer session (`GameSessions`). Writes of one WebSocket overlap and frames mix
(`WebSocketProtocol.cpp:660`); `HandleError` during the handshake closes
nothing, so the session of a client that gives up early stays registered
(`WebSocketConnection`; `DisconnectNoticed` therefore speaks of open
connections). `WebSocketURL::ToString` drops a port, `WriteString` cuts lengths
to 16 bits (`WireFormats`). `ReadVector3` reads in the order the compiler
evaluates arguments. Answers about NPCs, familiars, entities, loot and
inventory are pushed without the kind of their message, so a client takes them
for one of kind 0; a refused familiar command is answered with numbers never
initialised. `PLAYER_UPDATE` and `PLAYERS_UPDATE` have no decoding; the sizes
in chunk data are written twice and read once, so the reader gets garbage or
throws, on an io thread of the worker that nobody catches for. The
`player_state` of a JSON client is passed on as text and read as numbers, and
one that is too short throws in the master. A WebSocket client that negotiates
the binary format gets binary pushes, while its binary requests are dropped
(`MessageLayouts`). `WebSocketServer::Stop` locks twice (`Traffic`). A worker that
dies is not started again, although `README.md:38` lists "automatic worker
restart": `ServerLifecycle` has no such step because the code has none. The
loops of the game are not joined at the shutdown (`LogicCore::Shutdown` returns
at its first line, as `GameLogic::Shutdown` has already taken `running_`).
`LogService::Stop` notifies without the mutex, so the writer may sleep through
it and `main` waits for ever; the queue a worker inherits from `fork` has no
writer and grows; "compression" of `README.md:35` does not exist.
`GetWorkerGroups` cuts ports to 16 bits after they were validated, and throws
when a field that is not validated has another type; a script's
real number is stored as text that `GetFloat` does not read; `GetJson("a[0]")`
on an object drops the index (`Configuration`).

*Accounts and storage.* The cleanup may remove a new player before it is
connected, and then the name can lead to nobody: the next login of that name
ends the process (`PlayerAccounts`). Each connect that fails leaves a `PGconn`
nobody finishes (`PostgreSqlClient.cpp:266`, `ConnectionPool`). A PostgreSQL
backend that was reconnected never works again, because `Reconnect` does not set
`poolInitialized_`, while `DbManager` says it is connected (`DatabaseManager`).
Player ids start again at the same number in every
process, so the first account created after a restart overwrites a row of the
last run (`PlayerAccounts`). On PostgreSQL BEGIN, statements and COMMIT may land
on different connections; `SavePlayerData` fills two of three placeholders and
always fails; a failed COMMIT in SQLite's `SaveChunkData` leaves the transaction
open; `ListChunksInRange` throws when there is a chunk (`SqlClients`). Without a
pool PostgreSQL never starts; a version matches the files of all that begin with
it (`DatabaseManager`). `ChunkCache::Put` evicts only above the limit, so a full
cache refuses every `Put`; `Flush` of a dirty chunk locks twice, and saving goes
on with an entry that may have been erased (`ChunkStore`). No inventory is ever
saved: the statement names the column `inventory_data`, the schema has `data`,
SQLite has no `NOW()`, and for PostgreSQL the text is quoted twice
(`InventorySystem.cpp:564`, `Inventory`). Nor are skills: no schema has the table
`player_skills`, and the failure is reported as success
(`SkillSystem.cpp:1312`, `Skills`).

*The game.* A failing `TransferItem` doubles items, one over several stacks
leaves a negative one (`Inventory`). A
killed character ends in COMBAT, equipping over an occupied slot loses the old
item, attributes grow with every reload, achievements are not saved
(`Characters`). Every message replays the whole input history, so an old jump
lifts a landed player again; `jumping` is never read (`Movement`). Operations
of `SkillSystem`, `QuestManager`, `EntityManager` and `InventorySystem` lock the
mutex they hold; a quest chain never starts its first quest, a claimed
repeatable quest never restarts, `TrackQuest` throws (`Quests`). Two draws from
one unregistered table may leave one of them empty, and a table really
registered meanwhile may be removed; quests required by an entry are never met;
`loot_table` files lack fields the loader reads, and no one loads them
(`LootTables`). `GetMob` finds nothing, so mobs leave no loot; respawns ignore
`maxMobs` (`Creatures`). Two players far apart unload each other's chunks; a
late request after the shutdown makes the generator again (`Terrain`).
`UpdateChunkLOD` exchanges its own parameter only (`ChunkMesh`). A touched
triangle makes a collision report none; the push that `TestSphereSphere`
computes points into the body met, and `OnPlayerPosition` adds it; a ray that
meets a chunk before an entity keeps the entity's id, and the chunk at the
origin has the id 0 of nothing (`Collision`). An id added twice stays in both cells of the broadcast grid
(`Entities`). The streamer drops queued requests with their promises, its
unload queue never finds a chunk, so pooled chunks stay active for ever
(`ChunkStream`).

## Proofs

All for every value of the constants that satisfies the named assumptions of
the modules (finite sets of threads, natural bounds, distinct special values).

| Theorem | Argument |
|---|---|
| `IPCChannelProofs`: `TypeCorrect`, `AtMostOneWriter`, `NothingLost`, `NothingStranded`, `LosslessDelivery`, `BreaksOnlyWhenClosed`, together `ChannelSound` (`ChannelInv`) | one inductive invariant. The properties need each other: that there is one chain makes the frame in `asio` the next of the queue, so conservation is kept, and it adds that `posting` is finite, so that its cardinality can be counted, and that asio holds no frame unless a write is pending |
| `IPCChannelProofs`: `Refinement` | each step is one of `OrderedChannel` or a stutter under the mapping of `IPCChannel`; a damaged frame takes any number of meaningless envelopes behind what was delivered |
| `GameSessionsProofs`: `MapsAgree` | login and leave change the maps of `LogicCore` and of `PlayerManager` in one handler; in the model the maps are total and a session or player without an entry has the null one; the invariant says that an entry of `LogicCore` has its equal in `PlayerManager` (a leave removes only the former) |
| `PlayerAccountsProofs`: `AccountsTyped`, `NamesAlwaysAgree`, `RowsAreEarlierStates` | the strengthening says who may hold a `Player`: nobody holds an id that was not given out, and what the save thread is about to write is an earlier state of the object; who is in `players_` and has a name is there under that name, unless the cleanup has removed it, and who the cleanup holds was created by this process |
| `ServerLifecycleProofs`: `LifecycleTyped`, `NoWorkerSurvives`, `SignalsOnlyChildren`, together `ShutdownSound` (`LifecycleInv`) | the workers before the index `at` are exactly those that were waited for, and `workers_` names each forked worker once; without the second fact an id could come up twice and be signalled after its end |
| `ServerLifecycleProofs`: `SupervisorImplemented` | each step is one of `Supervisor` or a stutter; that the game stops only with no child left is `NoSurvivor` of the next state |
| `ServerLifecycleProofs`: `LogsAreComplete` (`LogInv`) | `Lists` says that a file, or what a sender's lines have become, is what stands at some places of the log in order; the lemmas move one place at a time: a line is written at the end of the first file, an empty one moves its border, a rotation adds a border or drops the last. `StopInv` adds that the writer ends with an empty queue after `running_` fell, `WriterInv` that nothing is pushed while the writer holds the mutex on its way to sleep |
| `StorageProofs`: `NoSharedConnection`, `NoLeak`, `PoolBounded`, together `PoolIsSafe` (`PoolSafe`) | in-use marks are exact while the pool is open; an address that is given out again is held by nobody; what is open and not in the pool is broken, which no step repairs |
| `GameSessionsProofs`: `SessionTypes`, `PlayersSeeEachOther` (`MutualVisibility`) | who plays at an open session either has learned of every other player or has the announcement before him: in the queue to his worker, or in the login that the master has yet to take. Logins that replace a session, leaves and closes keep that |
| `GameSessionsProofs`: `SessionsGetWhatIsSaid` (`Delivered`) | what a session got and what the queue to its worker still holds for it is together what the master said to it; each handler appends to both sides, each delivery moves the border |
| `PlayerAccountsProofs`: `LoginsAreSound` (`LoginsSound`) | of two rows with one name one was written by a creation that the process refused or by a player its cleanup removed; a login under way stands for a player in memory or one the cleanup removed; passwords in rows are those in memory |
| `ConnectionsProofs`: `SessionSound` (`SessionInv` of `BinarySession`) | every handler is a list of steps; the invariant says which lists there are, that the front of the queue and the write chain belong together, and that a frame in the queue is carried by a write under way, by a step that is left, or by a thread that waits for itself |
| `ConnectionsProofs`: `ConnectionSound` (`ConnectionInv` of `WebSocketConnection`) | what `current_message_` holds is a prefix of the message whose fragments come; whoever is on the way to the close handler has passed the test of `state_`, once per connection |
| `ActorsProofs`: `FightsAreSound` (`CreaturesInv`) | a death is *owed* while the thread that took the last hit has not told it; where a body is may differ from where its NPC is only while the game loop is between its move and `UpdateEntity` |
| `ActorsProofs`: `CharactersAreSound` (`CharacterInv`) | a character is `Sound`: its fields, a level in range, health within its maximum, whole base attributes and the derived ones that follow from them; each method takes a sound one to a sound one. A row need not have the derived ones right, as a reload makes them anew |
| `ActorsProofs`: `ExperienceIsKept` (`ExperienceCounts`) | induction over the levels gained at once: the worth of a character, the price of its level and what it has towards the next, is the same after each round of the loop of `AddExperience` |
| `ActorsProofs`: `MovementFollows` (`MovementInv`) | induction over the inputs replayed: what holds after each is what its last one and its jumps say. The history is the newest part of all that arrived; trimming the buffer after each id keeps what trimming once would, because whatever was given up has enough above it in what was kept |
| `ActorsProofs`: `LootIsDue` (`LootInv` of `LootTables`) | a draw is what it is *due*: the sure entries first, found by induction over the entries, each met and none twice, then at most as many random ones as `maxDrops` has left, from those that are eligible. With `DrawsIInv` a draw keeps the table it looked up, its id and what it was granted, whatever other threads do to the map |
| `ActorsProofs`: `ItemsAreSound` (`ItemsInv`) | an inventory is `Intact`: slots in order, each with at most a full stack, gold within its bounds. `AddItem`, `RemoveItem` and `HasSpaceFor` walk the slots, so what is left of a quantity after k of them is followed by induction over k; that `HasSpaceFor` agrees with `AddItem` is that the rooms walked through add up to what is put into them, and arithmetic of `\div` for the new slots |
| `ActorsProofs`: `NoTableStays` | `NoTableLeft` alone is not inductive: a draw could read another table than the one it looked up and then remove that one. The invariant adds that a pointer which does not dangle points to a table of the map, and `Freed` marks every pointer whose table goes, so the id a draw removes is the one it registered |
| `ServerLifecycleProofs`: `DatabaseIsReady` (`DatabaseInv`) | `StartInv` says what is known at each step of a start: only on the game's database are tables looked for, and tables that are there stay; a backend is open exactly while it is connected and was not reconnected. A call of the service is answered, in the queue or with one worker. What was read of a .sql file after n lines is a statement about its first n lines, shown for all n |
| `ConnectionsProofs`: `TrafficKept` (`TrafficInv`) | what the limiter let through since any of its decisions, with what it may let through now, is paid for by the burst and the time since the refill that the decision rested on (`Paid`); rounding down is arithmetic of `\div`, in lemmas. Packets are told apart by the number of their sending, and no two samples have one. An accepted connection that is open stands in the list once; one that is closed has its handler on the way, which takes it off unless `Stop` has |
| `StorageProofs`: `CacheIsSound` (`CacheInv` of `ChunkStore`) | `MemorySound` and `DiskSound` say what memory and disk are, and there is a lemma for each way of changing them: a key goes, comes to the front, comes in, or all goes. The bytes in use are a sum over a list, which an entry leaves by induction over the places after its own. A thread between two locks carries a chunk that was given (`CallSound`), or what it put or spilled later could be anything; what it loads was put under a key of the same file. The index as it was saved is kept to the limit too, as a restart reads it |
| `WorldProofs`: `ChunksAreCounted` (`TerrainInv`) | the set of chunks is finite, so that adding and removing one changes its cardinality by one; eviction comes before creation at the limit |
| `WorldProofs`: `SkillsAreSound` (`SkillsInv`) | the properties and the shape of a player's book; each operation disturbs one or two parts |
| `WorldProofs`: `QuestsAreHonest` (`QuestsInv`) | every journal in memory, on paper and in the hands of a thread between two sections is proper, and what is left of a call is an order its operation may leave: only so can a completion decided in one section be honest in the next |
| `WorldProofs`: `EntitiesAreFound` (`EntitiesInv`) | an entity stands in the cell of its place; that two places in range are in neighbouring cells is arithmetic of `\div` with a variable divisor, which the solver does not know and the lemmas `DivisionBounds`, `ProductGrows`, `DivisionGrows` give it |
| `WorldProofs`: `CollisionsAreFound` (`CollisionInv`) | a body is in all cells its box touches, or its id was left behind; the least hit of a ray exists because a set of naturals that is not empty has a least member (`LeastNatural`); that a push leads out of what is touched is the arithmetic of each pair of shapes |
| `WorldProofs`: `ChunksAreAwaited` (`StreamInv`) | two invariants that need nothing of each other. `WaitingInv`: a promise not yet kept stands in the queue, is in a loader's hands or was forgotten by the streamer, and no two keys of `pending_promises_` hold one promise. `PoolIInv`: the types and the books, proved key by key: active are just the pooled chunks in use, each other one stands among the available ones, and the memory counted covers the pool, which is finite and so changes its size by one |

The parts that an MC module with a `focus` runs side by side are proved about
under the specification of that module: `ActorsProofs` extends `MCActors`,
`ServerLifecycleProofs` extends `MCServerLifecycle`,
`WorldProofs` extends `MCWorld` and `ConnectionsProofs` extends
`MCConnections`. Their theorems hold for every value of the constants that the
assumptions of the parts admit; those are named where the constants are declared
(or, for a part that is an instance, stated there as an operator and assumed in
the MC module), and TLC evaluates them in the runs.
What they rule out that the code does not check: `InventoryAssumption` has no
negative amounts, which `OnInventory` takes from the message as they are.

**Induction.** The library's induction theorems take the induction hypothesis as
an operator, which no installed prover instantiates. Two lemmas with sets in its
place do: `LeastNatural` (a set of naturals that is not empty has a least member)
and `EveryNatural` (a set with 0 and the successor of each member holds all
naturals), both from the well-foundedness of `<`. For a recursive function `f`
the first set is that of the `n` up to which a function with f's equation
exists, which gives the equation for `f` itself; the second is that of the `n`
at which `f[n]` is what the lemma claims.

Only model-checked:

* fairness and liveness, which the prover does not reach: `EventuallyRead`,
  `LoginAnswered`, `ProgressSaved`, `PoolRecovers`, `DisconnectNoticed`,
  `MessagesHandled`, `SilentClientDropped`, `SignalStops`;
* what `SelectSeq` and folds over sequences and sets compute: the prover does not
  know `SelectSeq`, and a fold is a recursive function over sets behind an operator
  parameter (`ItemsKept`, `SqlInv`, `WireInv`, `ConfigInv`);
  `WireFormats` uses `Bitwise` besides;
* `MeshInv` within `LandInv`, a statement about every mesh of a chunk.

## Plan

What is left, in this order.

1. Theorems: `ItemsKept`, once the folds in it are recursive functions as in
   `ChunkStore`, and `SqlInv`.
2. The routing of messages by index in `workers_` when a fork has failed
   (`ProcessPool.cpp`), in `GameSessions`.
3. `PlayerManager`: parties, bans and gifts, once something but a script calls
   them.

## Not modelled

* **Python scripting.** Disabled by default; `Py_InitializeFromConfig` leaves the
  interpreter's lock with the main thread, and nobody calls
  `PyEval_SaveThread`: the watcher's `LoadModule` waits for the lock for ever
  with `watchedModulesMutex_` and `modulesMutex_` held, and the shutdown joins
  it. Handlers are registered before any module is loaded, so `FireEvent` finds
  none. A model of the interleavings that never run would show nothing;
  `GetConfig` and `SetConfig` are in `Configuration`.
* Noise, biomes, friction and restitution: floating-point functions without
  state.
* CRC, compression, TLS, the text of JSON: messages are what they carry
  (`WireFormats` and `MessageLayouts` have the bytes that decide where a frame or
  a field ends).
* `CitusClient`, off by default, which does not compile
  (`CitusClient.cpp:795`).
* `PredictionSystem::ReconcileWithServer`, `LogicCore`'s handler tables, rate
  limiter and event queue, `MasterServer::GameLogicClient`, `SendWithAck`,
  groups and properties of a session: nothing calls them.
* Dialogue, trade, patrols and squads of NPCs, transforms and hierarchies of
  entities, quantities and modifiers of items: data no property tells apart.
* Clients, scripts and tests: the environment of the modules.

The note of each component in `PROJECT.json` says what of it is left out.

## Running

```
tlc -config MCIPCChannel.cfg MCIPCChannel
tlapm IPCChannelProofs.tla
```
