------------------------------- MODULE MCWorld -------------------------------
(***************************************************************************)
(* Skills, Quests, Terrain, ChunkMesh, Collision, Entities and ChunkStream *)
(* for TLC, side by side: a behaviour runs one of them, the focus, and the *)
(* run covers the sum of the state spaces.                                 *)
(***************************************************************************)
EXTENDS Skills, Quests, Terrain, ChunkMesh, TLC

CONSTANTS Bodies, Heavy, Centers, Radii, Sizes, Bounds, ChunkColumns, CHUNK_WIDTH, Meshes,
          Types, Spots, MaxEntities, chunk_size, Walkers, cell_size_, Ranges,
          Tiles, Views, Loaders, Unloaders, load_radius, load_distance, high_distance, Cached,
          initial_pool_size_, max_pool_size_, MaxFutures, MaxViews, MaxUnloads

VARIABLES focus,
          entities_, spatialGrid_, gridCellSize_, worldBounds_, chunks_, stuck,
          entities, pool, marked, ownership_, wedgedEntities,
          position, cellOf, cells, wedgedGrid,
          running_, load_queue_, unload_queue_, loaded_chunks_, pending_promises_,
          loading_in_progress_, view_position_, thread, job, chunk_pool_, available_chunks_,
          active_chunks_, memory_usage_, futures, viewMoves, forgotten

Col == INSTANCE Collision
Ent == INSTANCE Entities
Str == INSTANCE ChunkStream

collisionVars == <<entities_, spatialGrid_, gridCellSize_, worldBounds_, chunks_, stuck>>
entityVars == <<entities, pool, marked, ownership_, wedgedEntities>>
gridVars == <<position, cellOf, cells, wedgedGrid>>
streamVars == <<running_, load_queue_, unload_queue_, loaded_chunks_, pending_promises_,
                loading_in_progress_, view_position_, thread, job, chunk_pool_, available_chunks_,
                active_chunks_, memory_usage_, futures, viewMoves, forgotten>>
bodies == <<collisionVars, entityVars, gridVars>>
rules == <<skillsVars, questsVars, terrainVars, meshVars>>
vars == <<focus, rules, bodies, streamVars>>

(* A beam and a nova are channeled, the nova needs the beam; an aura is    *)
(* switched on and off.                                                    *)
TheLevels == [beam |-> 2, nova |-> 2, aura |-> 2]
TheRequirements ==
    [s \in {"beam", "nova", "aura"} |->
       IF s = "nova" THEN [skill |-> "beam", level |-> 2] ELSE NoRequirement]

Objective(e, required, optional, timed) ==
    [event |-> e, required |-> required, optional |-> optional, timed |-> timed]

(* Rats has a time limit and leads to cats; daily can be repeated.         *)
TheQuests ==
    [rats |-> [objectives |-> [kill |-> Objective("rat", 2, FALSE, TRUE)],
               prerequisites |-> {}, next |-> <<"cats">>, repeatable |-> FALSE,
               type |-> "SIDE", giver |-> "none", discoverable |-> FALSE],
     cats |-> [objectives |-> [talk |-> Objective("elder", 1, FALSE, FALSE),
                               pet |-> Objective("cat", 1, TRUE, FALSE)],
               prerequisites |-> {"rats"}, next |-> <<>>, repeatable |-> FALSE,
               type |-> "SIDE", giver |-> "elder", discoverable |-> TRUE],
     daily |-> [objectives |-> [see |-> Objective("rat", 1, FALSE, FALSE)],
                prerequisites |-> {}, next |-> <<>>, repeatable |-> TRUE,
                type |-> "DAILY", giver |-> "elder", discoverable |-> TRUE]]
TheChains == [saga |-> <<"rats", "cats">>]

(* A chunk two blocks wide, flat or with a hole in one corner, and four of *)
(* its cells: three side by side and one across.                           *)
TheGrounds ==
    {[k \in (0..1) \X (0..1) |-> 1],
     [k \in (0..1) \X (0..1) |-> IF k = <<0, 1>> THEN 0 ELSE 1]}
TheCells == {<<0, 0, 0>>, <<1, 0, 0>>, <<0, 1, 0>>, <<1, 1, 1>>}

(* Positions on a line.                                                    *)
TheCenters == {-2, 0, 1}
TheViews == {0, 3}
TheSpots == {-1, 2}
TheBounds == {[min |-> -4, max |-> 6], [min |-> 0, max |-> 6]}

ASSUME EntitiesAssumption == Ent!EntitiesConstants
ASSUME CollisionAssumption == Col!CollisionConstants
ASSUME StreamAssumption == Str!StreamConstants

Init ==
    /\ focus \in {"skills", "quests", "terrain", "mesh", "collision", "entities", "grid", "stream"}
    /\ SkillsInit /\ QuestsInit /\ TerrainInit /\ MeshInit
    /\ Col!CollisionInit /\ Ent!EntitiesInit /\ Str!StreamInit
    /\ \/ focus = "collision"
       \/ gridCellSize_ = Max(Sizes) /\ worldBounds_ = CHOOSE b \in Bounds : TRUE
    /\ focus = "mesh" \/ (chunk.blocks = {} /\ chunk.ground = CHOOSE g \in Grounds : TRUE)

RulesStep ==
    \/ focus = "skills" /\ SkillsNext /\ UNCHANGED <<questsVars, terrainVars, meshVars>>
    \/ focus = "quests" /\ QuestsNext /\ UNCHANGED <<skillsVars, terrainVars, meshVars>>
    \/ focus = "terrain" /\ TerrainNext /\ UNCHANGED <<skillsVars, questsVars, meshVars>>
    \/ focus = "mesh" /\ MeshNext /\ UNCHANGED <<skillsVars, questsVars, terrainVars>>

BodiesStep ==
    \/ focus = "collision" /\ Col!CollisionNext /\ UNCHANGED <<entityVars, gridVars>>
    \/ focus = "entities" /\ Ent!ManagerNext /\ UNCHANGED collisionVars
    \/ focus = "grid" /\ Ent!GridNext /\ UNCHANGED collisionVars

Next ==
    /\ UNCHANGED focus
    /\ \/ RulesStep /\ UNCHANGED <<bodies, streamVars>>
       \/ BodiesStep /\ UNCHANGED <<rules, streamVars>>
       \/ focus = "stream" /\ Str!StreamNext /\ UNCHANGED <<rules, bodies>>

Spec == Init /\ [][Next]_vars

(* Terrain alone, with its fairness.                                       *)
TerrainAlone(A) ==
    /\ focus = "terrain" /\ A
    /\ UNCHANGED <<focus, skillsVars, questsVars, meshVars, bodies, streamVars>>

RequestsSpec ==
    /\ Init /\ focus = "terrain" /\ [][Next]_vars
    /\ WF_vars(TerrainAlone(GameLoop)) /\ WF_vars(TerrainAlone(Emplace))

(* The loaders of the chunk streamer are alike.                            *)
Alike == Permutations(Loaders)

(* Stated in their modules: the grid of the collision system answers for   *)
(* its entities and rays stop at the first of them; an entity has one      *)
(* owner, and a broadcast finds its receivers; whoever waits for a chunk   *)
(* is waited for, and the books of the chunk pool agree.  Each is          *)
(* evaluated where its variables change.                                   *)
CollisionInv == focus = "collision" => Col!CollisionInv
EntitiesInv == focus \in {"entities", "grid"} => Ent!EntitiesInv
StreamInv == focus = "stream" => Str!StreamInv

(* The land and what clients are shown of it: the invariants of Terrain    *)
(* and of ChunkMesh.                                                       *)
LandInv == TerrainInv /\ MeshInv
=============================================================================
