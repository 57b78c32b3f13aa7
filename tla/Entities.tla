------------------------------- MODULE Entities -------------------------------
(***************************************************************************)
(* EntityManager, which owns the entities, and BroadcastGrid, which knows  *)
(* where the sessions are.  The world is a line.                           *)
(*                                                                         *)
(* mutex_ is a std::mutex and grid_mutex_ a std::shared_mutex, and several *)
(* operations lock them twice.  The thread then hangs, or an exception     *)
(* ends the operation where it is; UpdateSessions, which locks by hand,    *)
(* leaves its mutex locked either way.  No script is ever attached, so     *)
(* scripts are where the second lock is and nothing else.                  *)
(***************************************************************************)
EXTENDS Integers, Sequences, FiniteSets, Functions

CONSTANTS Types, Spots,      \* types of entities, and where things are
          MaxEntities,       \* bound on nextEntityId_
          chunk_size,        \* WorldChunk::DEFAULT_SIZE, here an even number
          Walkers, cell_size_, Ranges

VARIABLES
    entities,     \* entities_: the type, the position and whether it moves
    pool,         \* inactiveEntities_: the type of each
    marked,       \* pendingDestruction_, the first mark of each entity
    ownership_,   \* what each owner owns
    wedgedEntities,   \* a thread holds mutex_ for ever

    position,     \* entity_info_, by session
    cellOf,       \* entity_to_cell_, by session
    cells,        \* cell_to_entities_, by cell
    wedgedGrid    \* grid_mutex_ is never unlocked

managerVars == <<entities, pool, marked, ownership_, wedgedEntities>>
gridVars == <<position, cellOf, cells, wedgedGrid>>
entitiesVars == <<managerVars, gridVars>>

EntitiesInit ==
    /\ entities = <<>> /\ pool = <<>> /\ marked = <<>> /\ ownership_ = <<>>
    /\ wedgedEntities = FALSE
    /\ position = <<>> /\ cellOf = <<>> /\ cells = <<>> /\ wedgedGrid = FALSE

(* Places are numbers, chunks and cells have a size.                       *)
EntitiesConstants ==
    /\ Spots \subseteq Int /\ Ranges \subseteq Nat
    /\ chunk_size \in Nat \ {0} /\ cell_size_ \in Nat \ {0}

Gap(a, b) == IF a < b THEN b - a ELSE a - b
Put(f, k, v) == [x \in DOMAIN f \cup {k} |-> IF x = k THEN v ELSE f[x]]
Drop(f, k) == [x \in DOMAIN f \ {k} |-> f[x]]

-----------------------------------------------------------------------------
(* EntityManager.                                                          *)

Free == ~wedgedEntities /\ UNCHANGED gridVars
LocksTwice == ~wedgedEntities /\ wedgedEntities' \in BOOLEAN /\ UNCHANGED gridVars

nextEntityId_ == Cardinality(DOMAIN entities \cup DOMAIN pool) + 1
NewEntity(type, x) == [type |-> type, x |-> x, moves |-> FALSE]

CreateEntity(type, x) ==
    /\ Free /\ nextEntityId_ <= MaxEntities
    /\ entities' = Put(entities, nextEntityId_, NewEntity(type, x))
    /\ UNCHANGED <<pool, marked, ownership_, wedgedEntities>>

(* What e owns is given up, and e leaves its owner, whose list may stay    *)
(* behind empty.                                                           *)
Disowned(e) == [o \in DOMAIN ownership_ \ {e} |-> ownership_[o] \ {e}]

(* The entity is marked, in every call, and stays in entities_.            *)
DestroyEntity(e) ==
    /\ LocksTwice /\ e \in DOMAIN entities
    /\ marked' = IF e \in Range(marked) THEN marked ELSE Append(marked, e)
    /\ ownership_' = Disowned(e)
    /\ UNCHANGED <<entities, pool>>

(* The entity never reaches the pool.                                      *)
DeactivateEntity(e) ==
    /\ LocksTwice /\ e \in DOMAIN entities
    /\ ownership_' = Disowned(e)
    /\ UNCHANGED <<entities, pool, marked>>

(* A variant that leaves the entity with its former owner too.             *)
GivenTwice(e) == ownership_

(* Taken from its owner, who leaves the table with its last entity.        *)
Given(e) == [k \in {q \in DOMAIN ownership_ : ownership_[q] # {e}} |-> ownership_[k] \ {e}]

(* CleanupDestroyedEntities stops at the first entity that is due, before  *)
(* it is erased; without one, the lists are tidied, the first entity is    *)
(* moved, and HasScript locks again.                                       *)
WithoutEmpty(f) == [o \in {k \in DOMAIN f : f[k] # {}} |-> f[o]]

CleanupDue ==
    /\ marked # <<>> /\ ownership_' = Given(Head(marked))
    /\ UNCHANGED entities

UpdateFirst ==
    /\ ownership_' = WithoutEmpty([o \in DOMAIN ownership_ |-> ownership_[o] \cap DOMAIN entities])
    /\ \E e \in DOMAIN entities :
          IF entities[e].moves THEN \E x \in Spots : entities' = [entities EXCEPT ![e].x = x]
          ELSE UNCHANGED entities

Update ==
    /\ LocksTwice
    /\ CleanupDue \/ UpdateFirst
    /\ UNCHANGED <<pool, marked>>

(* GameEntity::SetVelocity of one of them.                                 *)
SetVelocity(e) ==
    /\ Free /\ e \in DOMAIN entities
    /\ entities' = [entities EXCEPT ![e].moves = ~@]
    /\ UNCHANGED <<pool, marked, ownership_, wedgedEntities>>

(* UpdateEntityPosition, AttachScript, and a CreateEntity in the place of  *)
(* a pooled entity: the second lock is the first thing they do.            *)
LocksTwiceAtOnce ==
    /\ LocksTwice /\ DOMAIN entities # {}
    /\ UNCHANGED <<entities, pool, marked, ownership_>>

PreallocateEntityPool(type) ==
    /\ Free /\ nextEntityId_ <= MaxEntities
    /\ pool' = Put(pool, nextEntityId_, type)
    /\ UNCHANGED <<entities, marked, ownership_, wedgedEntities>>

ActivatePooledEntity(type, x) ==
    /\ Free
    /\ \E e \in {p \in DOMAIN pool : pool[p] = type} :
          entities' = Put(entities, e, NewEntity(type, x)) /\ pool' = Drop(pool, e)
    /\ UNCHANGED <<marked, ownership_, wedgedEntities>>

(* Owner 0 is nobody.                                                      *)
SetEntityOwner(e, o) ==
    /\ Free /\ e \in DOMAIN entities /\ o \in DOMAIN entities \cup {0}
    /\ LET left == Given(e)
           owned == IF o \in DOMAIN left THEN left[o] ELSE {}
       IN ownership_' = IF o = 0 THEN left ELSE Put(left, o, owned \cup {e})
    /\ UNCHANGED <<entities, pool, marked, wedgedEntities>>

GetEntitiesInRadius(x, r) == {e \in DOMAIN entities : Gap(entities[e].x, x) <= r}
FindEntitiesInBox(a, b) == {e \in DOMAIN entities : a <= entities[e].x /\ entities[e].x <= b}

(* Both ends belong to the chunk, and to its neighbours.                   *)
GetEntitiesInChunk(k) ==
    FindEntitiesInBox(k * chunk_size - (chunk_size \div 2),
                      (k + 1) * chunk_size - (chunk_size \div 2))

ManagerNext ==
    \/ \E t \in Types : PreallocateEntityPool(t)
    \/ \E t \in Types, x \in Spots : CreateEntity(t, x) \/ ActivatePooledEntity(t, x)
    \/ \E e \in DOMAIN entities : \/ DestroyEntity(e) \/ DeactivateEntity(e) \/ SetVelocity(e)
                                  \/ \E o \in DOMAIN entities \cup {0} : SetEntityOwner(e, o)
    \/ Update \/ LocksTwiceAtOnce

-----------------------------------------------------------------------------
(* BroadcastGrid.  A session is its entity: the ids are made for the       *)
(* session and not used again.                                             *)

PositionToCell(x) == x \div cell_size_
In(c) == IF c \in DOMAIN cells THEN cells[c] ELSE {}
Unlocked == ~wedgedGrid /\ UNCHANGED <<managerVars, wedgedGrid>>

(* AddSession and AddSessions: a session that is known stays in its former *)
(* cell as well.                                                           *)
AddSession(s, x) ==
    /\ Unlocked
    /\ position' = Put(position, s, x) /\ cellOf' = Put(cellOf, s, PositionToCell(x))
    /\ cells' = Put(cells, PositionToCell(x), In(PositionToCell(x)) \cup {s})

(* A cell goes with its last session.                                      *)
Left(s) == IF In(cellOf[s]) = {s} THEN Drop(cells, cellOf[s])
           ELSE [c \in DOMAIN cells |-> IF c = cellOf[s] THEN cells[c] \ {s} ELSE cells[c]]

UpdateSession(s, x) ==
    /\ Unlocked /\ s \in DOMAIN position
    /\ position' = [position EXCEPT ![s] = x]
    /\ IF cellOf[s] = PositionToCell(x) THEN UNCHANGED <<cells, cellOf>>
       ELSE LET there == IF PositionToCell(x) \in DOMAIN Left(s) THEN Left(s)[PositionToCell(x)] ELSE {}
            IN /\ cells' = Put(Left(s), PositionToCell(x), there \cup {s})
               /\ cellOf' = [cellOf EXCEPT ![s] = PositionToCell(x)]

RemoveSession(s) ==
    /\ Unlocked /\ s \in DOMAIN position
    /\ cells' = Left(s) /\ cellOf' = Drop(cellOf, s) /\ position' = Drop(position, s)

(* Several known sessions at once: UpdateEntity locks what LockWrite has   *)
(* locked, and no unlock follows.                                          *)
UpdateSessions ==
    /\ ~wedgedGrid /\ DOMAIN position # {} /\ wedgedGrid' = TRUE
    /\ UNCHANGED <<managerVars, position, cellOf, cells>>

(* An id in a cell that has no position any more ends the search with an   *)
(* exception (out_of_range).                                               *)
CellRadius(r) == (r + cell_size_ - 1) \div cell_size_
Searched(x, r) ==
    UNION {In(c) : c \in (PositionToCell(x) - CellRadius(r))..(PositionToCell(x) + CellRadius(r))}
SearchFails(x, r) == ~(Searched(x, r) \subseteq DOMAIN position)
GetSessionsInRadius(x, r) ==
    {s \in Searched(x, r) \cap DOMAIN position : Gap(x, position[s]) <= r}

GridNext ==
    \/ \E s \in Walkers : \/ RemoveSession(s)
                          \/ \E x \in Spots : AddSession(s, x) \/ UpdateSession(s, x)
    \/ UpdateSessions

EntitiesNext == ManagerNext \/ GridNext

-----------------------------------------------------------------------------
(* An entity has one owner at most, whatever is destroyed, deactivated or  *)
(* given away, and an owner is an entity that exists.                      *)
OneOwner ==
    /\ \A o, p \in DOMAIN ownership_ : o # p => ownership_[o] \cap ownership_[p] = {}
    /\ DOMAIN ownership_ \cup UNION {ownership_[o] : o \in DOMAIN ownership_} \subseteq DOMAIN entities

(* Everyone within the range of a broadcast is among its receivers, also   *)
(* when a session was added twice or has crossed cells.                    *)
ReceiversFound ==
    \A x \in Spots, r \in Ranges :
        SearchFails(x, r) \/ {s \in DOMAIN position : Gap(x, position[s]) <= r}
                                \subseteq GetSessionsInRadius(x, r)

(* An entity is in the chunk its position is in.                           *)
ChunkFinds ==
    \A e \in DOMAIN entities :
        e \in GetEntitiesInChunk((entities[e].x + (chunk_size \div 2)) \div chunk_size)

EntitiesInv == OneOwner /\ ReceiversFound /\ ChunkFinds
=============================================================================
