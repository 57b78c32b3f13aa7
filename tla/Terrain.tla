-------------------------------- MODULE Terrain --------------------------------
(***************************************************************************)
(* The chunks of the world: LogicWorld, the game loop of GameLogic that    *)
(* generates and unloads them, its save loop, and the handlers of          *)
(* positions and chunk requests that run on the master's io thread.        *)
(*                                                                         *)
(* The world is one row of chunk columns (z is treated as x is) and a      *)
(* position is the column it lies in.  loadedChunks_ is a hash map, so the *)
(* chunk that begin() gives up for a new one is any chunk.  What a chunk   *)
(* is made of is left to ChunkMesh, the entities and NPCs that the loop    *)
(* updates meanwhile to Creatures, what collides with what to Collision.   *)
(***************************************************************************)
EXTENDS Integers, Sequences, FiniteSets

CONSTANTS
    Travellers,          \* players PlayerManager knows
    Places, Columns,     \* where players may go, and what a client may ask for
    preloadRadius, view_distance, unload_distance, max_active_chunks,
    MaxMoves             \* bound on the positions that are received

ASSUME TerrainAssumption ==
    /\ Places \subseteq Int /\ Columns \subseteq Int
    /\ {preloadRadius, view_distance, unload_distance, MaxMoves} \subseteq Nat
    /\ max_active_chunks \in Nat \ {0}

VARIABLES
    loaded, activeChunkCount, \* the keys of loadedChunks_, and their number
    generator,     \* worldGenerator_ is there
    savedCount,    \* active_chunks of the last SaveGameState
    place,         \* the position of each player
    seated,        \* the players of playerToSessionMap_
    pending,       \* pendingWorldGeneration_
    holder,        \* who has world_generation_mutex_
    io,            \* the handler of the io thread
    loop,          \* where the game loop is, and what it still has to visit
    running,       \* running_ of GameLogic, and of LogicWorld
    moves, handled \* positions queued, positions generated around

chunks == <<loaded, activeChunkCount, generator>>
terrainVars == <<chunks, savedCount, place, seated, pending, holder, io, loop,
                 running, moves, handled>>

Around(x, d) == {x + k : k \in -d..d}
Distance(a, b) == IF a < b THEN b - a ELSE a - b
Handler == [pc |-> "idle", at |-> 0]

(* Initialize asks for the chunks around the origin, as many as may be.    *)
TerrainInit ==
    /\ loaded \in SUBSET Around(0, preloadRadius)
    /\ Cardinality(loaded) = IF 2 * preloadRadius + 1 < max_active_chunks
                             THEN 2 * preloadRadius + 1 ELSE max_active_chunks
    /\ activeChunkCount = Cardinality(loaded)
    /\ generator = TRUE
    /\ savedCount = 0
    /\ place = [p \in Travellers |-> 0]
    /\ seated = {}
    /\ pending = <<>>
    /\ holder = "nobody"
    /\ io = Handler
    /\ loop = [pc |-> "tick", todo |-> {}]
    /\ running = [game |-> TRUE, world |-> TRUE]
    /\ moves = 0 /\ handled = 0

-----------------------------------------------------------------------------
(* LogicWorld; chunksMutex_ makes each operation one step.                 *)

(* A generator that is gone is made again.                                 *)
GetOrCreateChunk(x) ==
    /\ generator' = TRUE
    /\ CASE x \in loaded -> UNCHANGED <<loaded, activeChunkCount>>
         [] x \notin loaded /\ activeChunkCount >= max_active_chunks /\ loaded # {} ->
              /\ \E first \in loaded : loaded' = (loaded \ {first}) \cup {x}
              /\ UNCHANGED activeChunkCount
         [] OTHER -> /\ loaded' = loaded \cup {x}
                     /\ activeChunkCount' = activeChunkCount + 1

(* A variant that does not count.                                          *)
UnloadUncounted(center) ==
    /\ loaded' = {x \in loaded : Distance(x, center) <= unload_distance}
    /\ UNCHANGED <<activeChunkCount, generator>>

UnloadDistantChunks(center) ==
    LET far == {x \in loaded : Distance(x, center) > unload_distance}
    IN /\ loaded' = loaded \ far
       /\ activeChunkCount' = activeChunkCount - Cardinality(far)
       /\ UNCHANGED generator

(* LogicWorld::Shutdown, which GameLogic::Shutdown reaches while the game  *)
(* loop may still be in an iteration.                                      *)
WorldShutdown ==
    /\ ~running.game /\ running.world
    /\ running' = [running EXCEPT !.world = FALSE]
    /\ loaded' = {} /\ activeChunkCount' = 0 /\ generator' = FALSE
    /\ UNCHANGED <<savedCount, place, seated, pending, holder, io, loop, moves, handled>>

-----------------------------------------------------------------------------
(* The io thread.                                                          *)

Handling == running.game /\ io.pc = "idle"

(* The position is resolved against collisions (it may be any), which      *)
(* takes the mutex of the collision system, then set, then queued under    *)
(* world_generation_mutex_.                                                *)
OnPlayerPosition(p, x) ==
    /\ Handling /\ moves < MaxMoves
    /\ \/ loop.pc = "hung" /\ io' = [pc |-> "stuck", at |-> x] /\ UNCHANGED place
       \/ loop.pc # "hung" /\ io' = [pc |-> "lock", at |-> x] /\ place' = [place EXCEPT ![p] = x]
    /\ UNCHANGED <<chunks, savedCount, seated, pending, holder, loop, running, moves, handled>>

LockPending ==
    /\ io.pc = "lock" /\ holder = "nobody"
    /\ holder' = "io" /\ io' = [io EXCEPT !.pc = "emplace"]
    /\ UNCHANGED <<chunks, savedCount, place, seated, pending, loop, running, moves, handled>>

Emplace ==
    /\ io.pc = "emplace"
    /\ pending' = Append(pending, io.at) /\ moves' = moves + 1
    /\ holder' = "nobody" /\ io' = Handler
    /\ UNCHANGED <<chunks, savedCount, place, seated, loop, running, handled>>

(* A client may ask for any chunk, loaded or not.                          *)
OnChunkData(x) ==
    /\ Handling /\ GetOrCreateChunk(x)
    /\ UNCHANGED <<savedCount, place, seated, pending, holder, io, loop, running, moves, handled>>

Sessions(set) ==
    /\ Handling /\ seated' = set
    /\ UNCHANGED <<chunks, savedCount, place, pending, holder, io, loop, running, moves, handled>>

OnPlayerConnected(p) == Sessions(seated \cup {p})
OnPlayerDisconnected(p) == Sessions(seated \ {p})

(* GameLogic::Shutdown runs on the same thread.                            *)
Shutdown ==
    /\ Handling /\ running' = [running EXCEPT !.game = FALSE]
    /\ UNCHANGED <<chunks, savedCount, place, seated, pending, holder, io, loop, moves, handled>>

-----------------------------------------------------------------------------
(* The game loop.                                                          *)

Goes(pc, todo) == loop' = [pc |-> pc, todo |-> todo]

(* UpdateWorld: once a second the positions of the players with a session  *)
(* are copied, and the chunks far from each of them unloaded.              *)
UpdateWorld ==
    /\ loop.pc = "tick"
    /\ IF running.game
       THEN Goes("unload", {}) \/ Goes("unload", {place[p] : p \in seated})
       ELSE Goes("stopped", {})
    /\ UNCHANGED <<chunks, savedCount, place, seated, pending, holder, io, running, moves, handled>>

Unload ==
    /\ loop.pc = "unload"
    /\ \/ \E center \in loop.todo : /\ UnloadDistantChunks(center)
                                     /\ Goes("unload", loop.todo \ {center})
       \/ loop.todo = {} /\ Goes("drain", {}) /\ UNCHANGED chunks
    /\ UNCHANGED <<savedCount, place, seated, pending, holder, io, running, moves, handled>>

(* try_lock succeeded: take a position and unlock to generate around it.   *)
Drain ==
    /\ loop.pc = "drain" /\ holder = "nobody" /\ pending # <<>>
    /\ Goes("generate", Around(Head(pending), view_distance))
    /\ pending' = Tail(pending)
    /\ UNCHANGED holder

(* With nothing left the loop keeps the lock to the end of its iteration;  *)
(* a try_lock that fails ends the draining.                                *)
EndDrain ==
    /\ loop.pc = "drain" /\ Goes("rest", {})
    /\ \/ holder = "nobody" /\ pending = <<>> /\ holder' = "loop"
       \/ holder = "io" /\ UNCHANGED holder
    /\ UNCHANGED pending

DrainPending ==
    /\ Drain \/ EndDrain
    /\ UNCHANGED <<chunks, savedCount, place, seated, io, running, moves, handled>>

(* GenerateWorldAroundPlayer, chunk by chunk.                              *)
GenerateWorldAroundPlayer ==
    /\ loop.pc = "generate"
    /\ LET x == CHOOSE a \in loop.todo : \A b \in loop.todo : a <= b
       IN /\ GetOrCreateChunk(x)
          /\ IF loop.todo = {x} THEN Goes("drain", {}) /\ handled' = handled + 1
             ELSE Goes("generate", loop.todo \ {x}) /\ UNCHANGED handled
    /\ UNCHANGED <<savedCount, place, seated, pending, holder, io, running, moves>>

(* CollisionSystem::Update holds its mutex when GetPotentialCollisions     *)
(* locks it again: a std::mutex hangs the thread, with both mutexes, or    *)
(* throws, and the handler at the end of the iteration goes on.            *)
UpdateCollisions ==
    /\ loop.pc = "rest"
    /\ \/ Goes("hung", {}) /\ UNCHANGED holder
       \/ Goes("tick", {}) /\ holder' = IF holder = "loop" THEN "nobody" ELSE holder
    /\ UNCHANGED <<chunks, savedCount, place, seated, pending, io, running, moves, handled>>

GameLoop ==
    UpdateWorld \/ Unload \/ DrainPending \/ GenerateWorldAroundPlayer \/ UpdateCollisions

(* The save loop writes how many chunks there are.                         *)
SaveGameState ==
    /\ running.game /\ savedCount' = activeChunkCount
    /\ UNCHANGED <<chunks, place, seated, pending, holder, io, loop, running, moves, handled>>

Queueing == LockPending \/ Emplace

TerrainNext ==
    \/ GameLoop \/ Queueing \/ Shutdown \/ WorldShutdown \/ SaveGameState
    \/ \E p \in Travellers : \/ \E x \in Places : OnPlayerPosition(p, x)
                             \/ OnPlayerConnected(p) \/ OnPlayerDisconnected(p)
    \/ \E x \in Columns : OnChunkData(x)

(* The game loop keeps running, and an io thread that holds the mutex lets *)
(* go of it.  Whoever waits for it may wait for ever: the loop has it to   *)
(* the end of an iteration and takes it again at once.                     *)
TerrainFairness == WF_terrainVars(GameLoop) /\ WF_terrainVars(Emplace)

TerrainSpec == TerrainInit /\ [][TerrainNext]_terrainVars

-----------------------------------------------------------------------------
(* The counter that limits the chunks is their number, and no order of     *)
(* requests, generation, unloading for several players and shutdown makes  *)
(* them more than max_active_chunks, in memory or in what is saved.        *)
TerrainInv ==
    /\ activeChunkCount = Cardinality(loaded)
    /\ {activeChunkCount, savedCount} \subseteq 0..max_active_chunks

(* The world is generated around every position that was queued, unless    *)
(* the game ends: what the loop's queue of positions is for.               *)
RequestsHandled ==
    \A n \in 1..MaxMoves : (moves >= n) ~> (handled >= n \/ ~running.game)
=============================================================================
