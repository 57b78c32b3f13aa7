------------------------------- MODULE ChunkMesh -------------------------------
(***************************************************************************)
(* What a chunk is made of: the ground mesh of WorldGenerator, the block   *)
(* mesh of WorldChunk, and the levels of detail of LODChunk and            *)
(* LODManager.                                                             *)
(*                                                                         *)
(* DEFAULT_SIZE is the constant Size, DEFAULT_SPACING and BLOCK_SIZE are   *)
(* 1.  A block is solid or air.  Normals, colours, trees, stones and       *)
(* portals are left out, and terrain heights are a value of the place, so  *)
(* a ground vertex is its column.  Positions are exact integers, averages  *)
(* are kept as a sum and a count.                                          *)
(***************************************************************************)
EXTENDS Integers, FiniteSets, SequencesExt

CONSTANTS Size,
          Built,          \* the cells where blocks come and go
          Grounds,        \* height maps a chunk may have
          Biomes,
          Distances,      \* of a camera from the centre of the chunk
          MaxChanges      \* bound on the changes of a chunk

VARIABLES
    chunk,    \* a LODChunk
    hidden,   \* its mesh was made with blocks above the height map
    lodStats, \* lod_upgrades and lod_downgrades of LODManager
    changes

meshVars == <<chunk, hidden, lodStats, changes>>

Range0(n) == 0..n - 1
Cells == {<<x, y, z>> : x, y, z \in Range0(Size)}
Plus(a, b) == <<a[1] + b[1], a[2] + b[2], a[3] + b[3]>>

HIGH == 0  MEDIUM == 1  LOW == 2  BILLBOARD == 3

-----------------------------------------------------------------------------
(* WorldGenerator::GenerateChunk: the ground of the chunk at <<cx, cz>>.   *)

PhysWidth == Size - 1

GroundVertex(cx, cz, i) ==
    <<cx * PhysWidth + (i % Size), cz * PhysWidth + (i \div Size)>>

GroundIndices ==
    LET at(x, z) == z * Size + x
    IN UNION {{<<at(x, z), at(x, z) + 1, at(x, z) + Size>>,
               <<at(x, z) + 1, at(x, z) + Size + 1, at(x, z) + Size>>}
              : x, z \in Range0(Size - 1)}

GenerateChunk(cx, cz) ==
    {[k \in 1..3 |-> GroundVertex(cx, cz, t[k])] : t \in GroundIndices}

-----------------------------------------------------------------------------
(* WorldChunk: the mesh of the blocks.                                     *)

GetBlock(blocks, c) == c \in blocks

(* GenerateBlockVertices: the neighbour that hides a face, and its corners. *)
Faces ==
    <<[side |-> <<0, 1, 0>>, corners |-> <<<<0, 1, 0>>, <<1, 1, 0>>, <<1, 1, 1>>, <<0, 1, 1>>>>],
     [side |-> <<0, -1, 0>>, corners |-> <<<<0, 0, 0>>, <<0, 0, 1>>, <<1, 0, 1>>, <<1, 0, 0>>>>],
     [side |-> <<0, 0, -1>>, corners |-> <<<<0, 0, 0>>, <<1, 0, 0>>, <<1, 1, 0>>, <<0, 1, 0>>>>],
     [side |-> <<0, 0, 1>>, corners |-> <<<<0, 0, 1>>, <<0, 1, 1>>, <<1, 1, 1>>, <<1, 0, 1>>>>],
     [side |-> <<-1, 0, 0>>, corners |-> <<<<0, 0, 0>>, <<0, 1, 0>>, <<0, 1, 1>>, <<0, 0, 1>>>>],
     [side |-> <<1, 0, 0>>, corners |-> <<<<1, 0, 0>>, <<1, 0, 1>>, <<1, 1, 1>>, <<1, 1, 0>>>>]>>

(* A variant that shows the faces of the border only.                      *)
ShownAtBorder(blocks, c, f) == Plus(c, f.side) \notin Cells
Shown(blocks, c, f) == Plus(c, f.side) \notin Cells \/ ~GetBlock(blocks, Plus(c, f.side))

Below(ground, c) == c[2] <= ground[<<c[1], c[3]>>]

GenerateBlockVertices(blocks, c) ==
    LET shown == SelectSeq(Faces, LAMBDA f : Shown(blocks, c, f))
    IN [n \in DOMAIN shown |-> [k \in 1..4 |-> Plus(c, shown[n].corners[k])]]

(* A vertex is a point, or the average of several.                         *)
At(p) == [sum |-> p, n |-> 1]

NoMesh == [vertices |-> <<>>, triangles |-> <<>>]

(* AddQuad for each quad: four vertices and two triangles.                 *)
AddQuads(quads) ==
    [vertices |-> [i \in 1..4 * Len(quads) |-> At(quads[(i + 3) \div 4][((i - 1) % 4) + 1])],
     triangles |-> [i \in 1..2 * Len(quads) |->
                      LET base == 4 * ((i - 1) \div 2)
                      IN IF i % 2 = 1 THEN <<base, base + 1, base + 2>>
                                      ELSE <<base, base + 2, base + 3>>]]

GenerateLowPolyGeometry(c) ==
    AddQuads(FoldSet(LAMBDA b, quads : quads \o GenerateBlockVertices(c.blocks, b), <<>>,
                     {b \in c.blocks : Below(c.ground, b)}))

Corner(mesh, i) == mesh.vertices[i + 1].sum

(* The points of the ground that are above zero.                           *)
GroundPoints(c) ==
    {<<k[1], c.ground[k], k[2]>> : k \in {j \in DOMAIN c.ground : c.ground[j] > 0}}

-----------------------------------------------------------------------------
(* LODChunk::SimplifyMesh: vertices that round to the same multiple of the *)
(* factor become one, triangles that collapse or occur twice are dropped.  *)

Rounded(n, factor) == (2 * n + factor) \div (2 * factor)
Key(p, factor) == [k \in 1..3 |-> Rounded(p[k], factor)]

(* The coordinates are naturals, none above Size.                          *)
Total3(points) ==
    [k \in 1..3 |-> Cardinality({m \in (DOMAIN points) \X (1..Size) : m[2] <= points[m[1]][k]})]

(* A vertex alone in its group moves to the rounded place, a group to its  *)
(* average.                                                                *)
Merged(points, key, factor) ==
    IF Len(points) = 1 THEN At([k \in 1..3 |-> key[k] * factor])
    ELSE [sum |-> Total3(points), n |-> Len(points)]

(* Three averages on one line (the cross product of the edges is zero).    *)
Collinear(a, b, c) ==
    LET u == [k \in 1..3 |-> b.sum[k] * a.n - a.sum[k] * b.n]
        v == [k \in 1..3 |-> c.sum[k] * a.n - a.sum[k] * c.n]
    IN \A j, k \in 1..3 : u[j] * v[k] = u[k] * v[j]

Collapsed(t) == t[1] = t[2] \/ t[2] = t[3] \/ t[3] = t[1]

(* Where a sequence has an element for the first time.                     *)
Firsts(s) ==
    SelectSeq([n \in DOMAIN s |-> n], LAMBDA n : \A m \in 1..n - 1 : s[m] # s[n])

SimplifyMesh(mesh, factor) ==
    LET points == [i \in DOMAIN mesh.vertices |-> Corner(mesh, i - 1)]
        keyOf == [i \in DOMAIN points |-> Key(points[i], factor)]
        firsts == Firsts(keyOf)
        keys == [n \in DOMAIN firsts |-> keyOf[firsts[n]]]
        vertices == [n \in DOMAIN keys |->
                       Merged(SelectSeq(points, LAMBDA p : Key(p, factor) = keys[n]), keys[n], factor)]
        index == [i \in DOMAIN keyOf |-> SelectInSeq(keys, LAMBDA k : k = keyOf[i]) - 1]
        moved == [n \in DOMAIN mesh.triangles |-> [k \in 1..3 |-> index[mesh.triangles[n][k] + 1]]]
        thin(t) == Collinear(vertices[t[1] + 1], vertices[t[2] + 1], vertices[t[3] + 1])
        kept == SelectSeq(Firsts([n \in DOMAIN moved |-> ToSet(moved[n])]),
                          LAMBDA n : ~Collapsed(moved[n]) /\ ~thin(moved[n]))
    IN [vertices |-> vertices, triangles |-> [n \in DOMAIN kept |-> moved[kept[n]]]]

(* A quad half as wide as the chunk, in quarters of its width.             *)
GenerateBillboard == AddQuads(<<<<<<-1, 25, 0>>, <<1, 25, 0>>, <<1, 75, 0>>, <<-1, 75, 0>>>>>>)

(* GenerateGeometry of the level of detail.                                *)
GenerateGeometry(c) ==
    CASE c.lod = MEDIUM -> SimplifyMesh(GenerateLowPolyGeometry(c), 2)
      [] c.lod = LOW -> SimplifyMesh(GenerateLowPolyGeometry(c), 4)
      [] c.lod = BILLBOARD -> GenerateBillboard
      [] OTHER -> GenerateLowPolyGeometry(c)

WithGeometry(c) == [c EXCEPT !.mesh = GenerateGeometry(c)]

(* Far chunks collide as a box of eight corners around their centre (in    *)
(* half blocks).                                                           *)
GenerateCollisionMesh(c) ==
    [c EXCEPT !.collision =
       IF c.lod <= MEDIUM THEN GroundPoints(c) ELSE {-Size, Size} \X {0, 50} \X {-Size, Size}]

SetLOD(c, l) ==
    LET d == WithGeometry([c EXCEPT !.lod = l])
    IN IF c.lod = l THEN c ELSE IF l <= MEDIUM THEN GenerateCollisionMesh(d) ELSE d

NewChunk(l, biome) ==
    [lod |-> l, biome |-> biome, blocks |-> {},
     ground |-> [k \in Range0(Size) \X Range0(Size) |-> 0],
     mesh |-> NoMesh, collision |-> {}]

(* UpgradeLOD and DowngradeLOD make a new chunk that gets nothing but the  *)
(* biome of the old one.                                                   *)
UpgradeLOD(c) == IF c.lod > HIGH THEN WithGeometry(NewChunk(c.lod - 1, c.biome)) ELSE c
DowngradeLOD(c) == IF c.lod < BILLBOARD THEN WithGeometry(NewChunk(c.lod + 1, c.biome)) ELSE c

(* What SerializeHeightmap writes, and LODChunk::Deserialize on a new      *)
(* chunk, which makes its geometry before it takes over the level.         *)
SerializeHeightmap(c) ==
    [lod |-> c.lod, biome |-> c.biome, blocks |-> c.blocks, ground |-> c.ground]

Deserialize(data) ==
    [WithGeometry([NewChunk(HIGH, data.biome) EXCEPT !.blocks = data.blocks,
                                                     !.ground = data.ground])
       EXCEPT !.lod = data.lod]

(* SerializeToWriter, SerializeJson and OnChunkData send the mesh as two   *)
(* flat lists.                                                             *)
MeshMessage(mesh) ==
    [vertices |-> mesh.vertices,
     indices |-> [i \in 1..3 * Len(mesh.triangles) |->
                    mesh.triangles[(i + 2) \div 3][((i - 1) % 3) + 1]]]

-----------------------------------------------------------------------------
(* LODManager.                                                             *)

Threshold(l) == CASE l = HIGH -> 50 [] l = MEDIUM -> 150 [] l = LOW -> 500 [] OTHER -> 1000

CalculateLOD(d) ==
    CASE d <= Threshold(HIGH) -> HIGH
      [] d > Threshold(HIGH) /\ d <= Threshold(MEDIUM) -> MEDIUM
      [] d > Threshold(MEDIUM) /\ d <= Threshold(LOW) -> LOW
      [] OTHER -> BILLBOARD

ShouldUpgradeLOD(target, d) == 10 * d < 8 * Threshold(target)
ShouldDowngradeLOD(target, d) == 10 * d > 12 * Threshold(target)

(* The chunk of the caller stays as it is: what UpdateChunkLOD exchanges   *)
(* is its own parameter.  Only the statistics know.                        *)
UpdateChunkLOD(d) ==
    LET target == CalculateLOD(d)
    IN /\ lodStats' = CASE target < chunk.lod /\ ShouldUpgradeLOD(target, d) ->
                             [lodStats EXCEPT !.upgrades = @ + 1]
                        [] target > chunk.lod /\ ShouldDowngradeLOD(target, d) ->
                             [lodStats EXCEPT !.downgrades = @ + 1]
                        [] OTHER -> lodStats
       /\ UNCHANGED <<chunk, hidden>>

-----------------------------------------------------------------------------
Covered(c) == \A b \in c.blocks : Below(c.ground, b)

MeshInit ==
    /\ \E blocks \in SUBSET Built, ground \in Grounds, biome \in Biomes :
          chunk = WithGeometry([NewChunk(HIGH, biome) EXCEPT !.blocks = blocks, !.ground = ground])
    /\ hidden = ~Covered(chunk)
    /\ lodStats = [upgrades |-> 0, downgrades |-> 0]
    /\ changes = 0

Made(c) == chunk' = c /\ hidden' = ~Covered(c) /\ UNCHANGED lodStats

(* SetBlock leaves the mesh as it is.                                      *)
SetBlock(c, solid) ==
    /\ chunk' = [chunk EXCEPT !.blocks = IF solid THEN @ \cup {c} ELSE @ \ {c}]
    /\ UNCHANGED <<hidden, lodStats>>

MeshNext ==
    /\ changes < MaxChanges /\ changes' = changes + 1
    /\ \/ \E c \in Built, solid \in BOOLEAN : SetBlock(c, solid)
       \/ \E l \in HIGH..BILLBOARD : l # chunk.lod /\ Made(SetLOD(chunk, l))
       \/ Made(UpgradeLOD(chunk)) \/ Made(DowngradeLOD(chunk))
       \/ Made(Deserialize(SerializeHeightmap(chunk)))
       \/ Made(WithGeometry(chunk))
       \/ \E d \in Distances : UpdateChunkLOD(d)

-----------------------------------------------------------------------------
(* Every edge of a set of triangles, with the triangles it belongs to in   *)
(* this direction and in the other.                                        *)
EdgesOf(t) == {<<t[1], t[2]>>, <<t[2], t[3]>>, <<t[3], t[1]>>}
Along(triangles, e) == Cardinality({t \in triangles : e \in EdgesOf(t)})
Reverse2(e) == <<e[2], e[1]>>

(* The block mesh has no hole and no face that looks the wrong way: every  *)
(* edge is walked as often in one direction as in the other.               *)
Watertight ==
    chunk.lod = HIGH /\ ~hidden /\ changes = 0 =>
      LET corners == {[k \in 1..3 |-> Corner(chunk.mesh, chunk.mesh.triangles[n][k])]
                       : n \in DOMAIN chunk.mesh.triangles}
      IN \A t \in corners : \A e \in EdgesOf(t) : Along(corners, e) = Along(corners, Reverse2(e))

(* Chunks that are neighbours meet without a gap: over the whole seam each *)
(* edge has a triangle of one chunk on one side, one of the other on the   *)
(* other side.                                                             *)
Seamless ==
    LET ground == GenerateChunk(-1, 0) \cup GenerateChunk(0, 0)
        outside(e) == \/ e[1][2] = e[2][2] /\ e[1][2] \in {0, Size - 1}
                      \/ e[1][1] = e[2][1] /\ e[1][1] \in {1 - Size, Size - 1}
    IN \A t \in ground : \A e \in EdgesOf(t) :
           Along(ground, e) = 1 /\ Along(ground, Reverse2(e)) = IF outside(e) THEN 0 ELSE 1

(* Whatever level of detail it is reduced to, the mesh a client is sent    *)
(* has only vertices it was sent, and no triangle that is none.            *)
MessageUsable ==
    LET message == MeshMessage(chunk.mesh)
    IN /\ \A n \in DOMAIN message.indices : message.indices[n] \in Range0(Len(message.vertices))
       /\ \A n \in DOMAIN chunk.mesh.triangles : Cardinality(ToSet(chunk.mesh.triangles[n])) = 3

MeshInv == Watertight /\ Seamless /\ MessageUsable
=============================================================================
