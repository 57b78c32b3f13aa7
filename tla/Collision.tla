------------------------------- MODULE Collision -------------------------------
(***************************************************************************)
(* CollisionSystem: bodies in a hashed grid, the boxes and triangles of    *)
(* chunks, and the questions of GameLogic about them.                      *)
(*                                                                         *)
(* The world is a line: a sphere is an interval, a cell and the box of a   *)
(* chunk are intervals, a triangle is a point.  mutex_ makes an operation  *)
(* one step.  Update locks it a second time (GetPotentialCollisions): the  *)
(* thread hangs, and with it whoever comes next, or an exception ends      *)
(* Update there.                                                           *)
(***************************************************************************)
EXTENDS Integers, FiniteSets, FiniteSetsExt

CONSTANTS Bodies, Heavy,      \* entities, and those that are static
          Centers, Radii, Sizes, \* positions, radii and cell sizes in use
          Bounds,             \* what SetWorldBounds is given
          ChunkColumns, CHUNK_WIDTH,
          Meshes              \* what the triangles of a chunk may be

VARIABLES entities_, spatialGrid_, gridCellSize_, worldBounds_,
          chunks_,            \* the columns with a chunk, and its triangles
          stuck               \* a thread holds mutex_ for ever

collisionVars == <<entities_, spatialGrid_, gridCellSize_, worldBounds_, chunks_, stuck>>

(* Places are numbers, cells have a size, radii and chunks may have none.  *)
(* Id 0 excludes nobody from a question.                                   *)
CollisionConstants ==
    /\ 0 \notin Bodies /\ Centers \subseteq Int /\ Radii \subseteq Nat
    /\ Sizes \subseteq Nat \ {0} /\ ChunkColumns \subseteq Int /\ CHUNK_WIDTH \in Nat
    /\ Meshes \subseteq SUBSET (0..CHUNK_WIDTH)

Away(a, b) == IF a < b THEN b - a ELSE a - b
Body(x, r, s) == [center |-> x, previous |-> x, radius |-> r, static |-> s]

CollisionInit ==
    /\ entities_ = <<>> /\ spatialGrid_ = <<>> /\ chunks_ = <<>>
    /\ gridCellSize_ \in Sizes /\ worldBounds_ \in Bounds
    /\ stuck = FALSE

-----------------------------------------------------------------------------
(* The grid.                                                               *)

GetGridKey(x) == x \div gridCellSize_

Cell(grid, c) == IF c \in DOMAIN grid THEN grid[c] ELSE {}

RemoveFromGrid(grid, id, c) == [k \in DOMAIN grid |-> IF k = c THEN grid[k] \ {id} ELSE grid[k]]

AddToGrid(grid, id, cells) ==
    [k \in DOMAIN grid \cup cells |-> Cell(grid, k) \cup (IF k \in cells THEN {id} ELSE {})]

CleanEmptyGridCells(grid) == [k \in {c \in DOMAIN grid : grid[c] # {}} |-> grid[k]]

ValidatePosition(x) == worldBounds_.min <= x /\ x <= worldBounds_.max

(* A variant that moves the body before it takes it from its old cell.     *)
RegriddedLate(id, x) ==
    RemoveFromGrid(AddToGrid(spatialGrid_, id, {GetGridKey(x)}), id,
                   GetGridKey(entities_[id].previous))

(* From the cell of the last Update to the cell of x; a cell in between    *)
(* keeps the body.                                                         *)
Regridded(id, x) ==
    AddToGrid(RemoveFromGrid(spatialGrid_, id, GetGridKey(entities_[id].previous)), id,
              {GetGridKey(x)})

-----------------------------------------------------------------------------
(* Operations.                                                             *)

Locked == ~stuck /\ UNCHANGED <<stuck>>

SetGridCellSize(size) ==
    /\ Locked /\ gridCellSize_' = size
    /\ LET key(id) == entities_[id].center \div size
           kept == {key(id) : id \in DOMAIN entities_}
       IN spatialGrid_' = [k \in kept |-> {id \in DOMAIN entities_ : key(id) = k}]
    /\ UNCHANGED <<entities_, worldBounds_, chunks_>>

SetWorldBounds(b) ==
    /\ Locked /\ worldBounds_' = b
    /\ UNCHANGED <<entities_, spatialGrid_, gridCellSize_, chunks_>>

RegisterEntity(id, x, r) ==
    /\ Locked /\ ValidatePosition(x) /\ id \notin DOMAIN entities_
    /\ entities_' = [e \in DOMAIN entities_ \cup {id} |->
                       IF e = id THEN Body(x, r, id \in Heavy) ELSE entities_[e]]
    /\ spatialGrid_' = AddToGrid(spatialGrid_, id, {GetGridKey(x)})
    /\ UNCHANGED <<gridCellSize_, worldBounds_, chunks_>>

(* An entity that leaves the world stays where it was, as a static one.    *)
UpdateEntity(id, x) ==
    /\ Locked /\ ValidatePosition(x) /\ id \in DOMAIN entities_ /\ ~entities_[id].static
    /\ entities_' = [entities_ EXCEPT ![id].center = x]
    /\ spatialGrid_' = Regridded(id, x)
    /\ UNCHANGED <<gridCellSize_, worldBounds_, chunks_>>

(* The cells other than that of its centre keep the id.                    *)
UnregisterEntity(id) ==
    /\ Locked /\ id \in DOMAIN entities_
    /\ entities_' = [e \in DOMAIN entities_ \ {id} |-> entities_[e]]
    /\ LET left == RemoveFromGrid(spatialGrid_, id, GetGridKey(entities_[id].center))
       IN spatialGrid_' = IF DOMAIN entities_ = {id} THEN CleanEmptyGridCells(left) ELSE left
    /\ UNCHANGED <<gridCellSize_, worldBounds_, chunks_>>

UpdateBroadPhase ==
    /\ Locked /\ spatialGrid_' = CleanEmptyGridCells(spatialGrid_)
    /\ UNCHANGED <<entities_, gridCellSize_, worldBounds_, chunks_>>

(* The cells that a body has crossed since the last Update.                *)
Swept(e) ==
    GetGridKey(Min({e.previous, e.center}) - e.radius)
        ..GetGridKey(Max({e.previous, e.center}) + e.radius)

Moved(id) == ~entities_[id].static /\ entities_[id].center # entities_[id].previous

(* What Update does before it locks the mutex again.                       *)
Update ==
    /\ ~stuck /\ stuck' \in BOOLEAN
    /\ entities_' = [id \in DOMAIN entities_ |->
                       IF Moved(id) THEN [entities_[id] EXCEPT !.previous = entities_[id].center]
                       ELSE entities_[id]]
    /\ LET out == [c \in DOMAIN spatialGrid_ |->
                     {id \in spatialGrid_[c] : id \in DOMAIN entities_ /\ Moved(id)
                                               => c # GetGridKey(entities_[id].previous)}]
           moving == {id \in DOMAIN entities_ : Moved(id)}
       IN spatialGrid_' = [c \in DOMAIN out \cup UNION {Swept(entities_[id]) : id \in moving} |->
                             Cell(out, c) \cup {id \in moving : c \in Swept(entities_[id])}]
    /\ UNCHANGED <<gridCellSize_, worldBounds_, chunks_>>

RegisterChunk(k, mesh) ==
    /\ Locked /\ k \notin DOMAIN chunks_
    /\ chunks_' = [c \in DOMAIN chunks_ \cup {k} |-> IF c = k THEN mesh ELSE chunks_[c]]
    /\ UNCHANGED <<entities_, spatialGrid_, gridCellSize_, worldBounds_>>

UnregisterChunks(gone) ==
    /\ Locked /\ gone \cap DOMAIN chunks_ # {}
    /\ chunks_' = [c \in DOMAIN chunks_ \ gone |-> chunks_[c]]
    /\ UNCHANGED <<entities_, spatialGrid_, gridCellSize_, worldBounds_>>

ClearAllChunks == UnregisterChunks(ChunkColumns)

CollisionNext ==
    \/ \E id \in Bodies, x \in Centers : \/ UpdateEntity(id, x)
                                          \/ \E r \in Radii : RegisterEntity(id, x, r)
    \/ \E id \in Bodies : UnregisterEntity(id)
    \/ \E s \in Sizes : SetGridCellSize(s)
    \/ \E b \in Bounds : SetWorldBounds(b)
    \/ \E k \in ChunkColumns : UnregisterChunks({k}) \/ \E mesh \in Meshes : RegisterChunk(k, mesh)
    \/ ClearAllChunks \/ UpdateBroadPhase \/ Update

-----------------------------------------------------------------------------
(* Questions.                                                              *)

Touches(x, r, e) == Away(x, e.center) <= r + e.radius

(* A box ends at its sides; the triangles of a chunk are within.           *)
Low(k) == k * CHUNK_WIDTH
High(k) == (k + 1) * CHUNK_WIDTH
Triangles(k) == {Low(k) + p : p \in chunks_[k]}

Closest(x, k) == IF x < Low(k) THEN Low(k) ELSE IF High(k) < x THEN High(k) ELSE x
BoxDistance(x, k) == Away(x, Closest(x, k))

(* Where to from a body: into it, as far as the two overlap; off the line  *)
(* when they have one centre.                                              *)
TestSphereSphere(x, r, e) ==
    LET penetration == r + e.radius - Away(x, e.center)
    IN IF x < e.center THEN penetration ELSE IF e.center < x THEN 0 - penetration ELSE 0

(* Out of a box, by the nearer of its sides.                               *)
TestSphereBox(x, r, k) ==
    IF x - Low(k) > High(k) - x THEN High(k) + r - x ELSE Low(k) - r - x

(* Off a triangle, which faces up the line.                                *)
TestSphereTriangle(x, r, p) == IF p < x THEN r - (x - p) ELSE (p - x) - r

Nowhere == [collided |-> FALSE, with |-> 0, resolution |-> 0]

(* What a sphere of radius r at x meets, the first entity that is found,   *)
(* then the first chunk.  A chunk collides by its box; the farthest of the *)
(* triangles that are touched replaces the result by one whose collided    *)
(* was never set.                                                          *)
CheckCollision(x, r, excluded) ==
    LET met == {id \in DOMAIN entities_ \ {excluded} : Touches(x, r, entities_[id])}
        boxes == {k \in DOMAIN chunks_ : BoxDistance(x, k) <= r}
        touched(k) == {p \in Triangles(k) : Away(x, p) <= r}
        last(k) == {p \in touched(k) : \A q \in touched(k) : Away(x, q) <= Away(x, p)}
        struck(k) == [collided |-> TRUE, with |-> 0, resolution |-> TestSphereBox(x, r, k)]
        scraped(p) == [collided |-> FALSE, with |-> 0, resolution |-> TestSphereTriangle(x, r, p)]
    IN CASE ~ValidatePosition(x) -> {Nowhere}
         [] ValidatePosition(x) /\ met # {} ->
              {[collided |-> TRUE, with |-> id,
                resolution |-> TestSphereSphere(x, r, entities_[id])] : id \in met}
         [] ValidatePosition(x) /\ met = {} /\ boxes # {} ->
              {struck(k) : k \in {b \in boxes : touched(b) = {}}}
                \cup UNION {{scraped(p) : p \in last(k)} : k \in boxes}
         [] OTHER -> {Nowhere}

CellsInRadius(x, r) == GetGridKey(x - r)..GetGridKey(x + r)

GetEntitiesInRadius(x, r) ==
    {id \in DOMAIN entities_ : /\ ValidatePosition(x) /\ Touches(x, r, entities_[id])
                               /\ \E c \in CellsInRadius(x, r) : id \in Cell(spatialGrid_, c)}

GetPotentialCollisions ==
    {pair \in UNION {kSubset(2, spatialGrid_[c]) : c \in DOMAIN spatialGrid_} :
        /\ pair \subseteq DOMAIN entities_
        /\ \E id \in pair : ~entities_[id].static
        /\ \A a, b \in pair : Touches(entities_[a].center, entities_[a].radius, entities_[b])}

(* IntersectsRay: where a ray enters a sphere, or leaves the one it starts *)
(* in; nothing when the sphere is behind.                                  *)
IntersectsRay(origin, dir, e) ==
    LET ahead == (e.center - origin) * dir
    IN {d \in {IF ahead >= e.radius THEN ahead - e.radius ELSE ahead + e.radius} : d >= 0}

(* Where a ray enters the box of a chunk, at once when it starts inside.   *)
TestRayAABB(origin, dir, k) ==
    LET near == IF dir = 1 THEN Low(k) - origin ELSE origin - High(k)
        far == IF dir = 1 THEN High(k) - origin ELSE origin - Low(k)
    IN {d \in {IF near > 0 THEN near ELSE 0} : d <= far}

TestRayTriangle(origin, dir, p) == {d \in {(p - origin) * dir} : d > 0}

(* A box that the ray enters no later than its closest hit so far counts   *)
(* by its triangles, if it has any.                                        *)
ChunkDistances(origin, dir, k, closest) ==
    LET entered == {d \in TestRayAABB(origin, dir, k) : d <= closest}
    IN IF chunks_[k] = {} \/ entered = {} THEN entered
       ELSE {d \in UNION {TestRayTriangle(origin, dir, p) : p \in Triangles(k)} : d < closest}

(* What a ray hits: the first entity nearer than maxDistance, then the     *)
(* chunk that is nearer still.  The entity stays in the hit when a chunk   *)
(* is nearer; 0 is no entity, and no chunk or the one at the origin.       *)
Raycast(origin, dir, maxDistance, excluded) ==
    LET others == DOMAIN entities_ \ {excluded}
        struck(id) == {d \in IntersectsRay(origin, dir, entities_[id]) : d < maxDistance}
        nearest == Min({maxDistance} \cup UNION {struck(id) : id \in others})
        ids == {id \in others : nearest \in struck(id)}
        passed(k) == ChunkDistances(origin, dir, k, nearest)
        end == Min({nearest} \cup UNION {passed(k) : k \in DOMAIN chunks_})
        ground == {k \in DOMAIN chunks_ : end \in passed(k)}
        hit(id, k) == [hit |-> ids # {} \/ ground # {}, distance |-> end, entity |-> id, chunk |-> k]
    IN IF ValidatePosition(origin) /\ maxDistance > 0
       THEN {hit(id, k) : id \in (IF ids = {} THEN {0} ELSE ids),
                          k \in (IF ground = {} THEN {0} ELSE ground)}
       ELSE {[hit |-> FALSE, distance |-> 0, entity |-> 0, chunk |-> 0]}

-----------------------------------------------------------------------------
(* The grid answers for the entities: whoever stands within a radius is    *)
(* found in it, whatever moves, updates, new cell sizes and ids left in    *)
(* old cells have made of the grid, and nobody else is.                    *)
GridComplete ==
    \A x \in Centers, r \in Radii : ValidatePosition(x) =>
        /\ {id \in DOMAIN entities_ : Away(x, entities_[id].center) <= r}
             \subseteq GetEntitiesInRadius(x, r)
        /\ GetEntitiesInRadius(x, r) \subseteq
             {res.with : res \in {q \in CheckCollision(x, r, 0) : q.collided}}

(* What stands in one place, and can move, is a potential collision.       *)
OverlapsFound ==
    \A a, b \in DOMAIN entities_ :
        a # b /\ entities_[a].center = entities_[b].center
        /\ ~(entities_[a].static /\ entities_[b].static) => {a, b} \in GetPotentialCollisions

(* A ray that starts outside of every entity meets none before its hit.    *)
RayFree ==
    \A x \in Centers, dir \in {-1, 1}, far \in Radii \cup Sizes :
        (ValidatePosition(x) /\ \A id \in DOMAIN entities_ : ~Touches(x, 0, entities_[id])) =>
            \A res \in Raycast(x, dir, far, 0) :
                \A step \in 0..(res.distance - 1), id \in DOMAIN entities_ :
                    ~Touches(x + step * dir, 0, entities_[id])

(* Whom only the box of a chunk stops is sent out of it, to its radius and *)
(* no farther.                                                             *)
PushedOut ==
    \A x \in Centers, r \in Radii :
        \A res \in CheckCollision(x, r, 0) : res.collided /\ res.with = 0 =>
            \E k \in DOMAIN chunks_ : /\ BoxDistance(x, k) <= r
                                      /\ BoxDistance(x + res.resolution, k) = r

CollisionInv == GridComplete /\ OverlapsFound /\ RayFree /\ PushedOut
=============================================================================
