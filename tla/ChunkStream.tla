------------------------------ MODULE ChunkStream ------------------------------
(***************************************************************************)
(* ChunkStreamer, which loads the chunks around a view with a few threads, *)
(* and ChunkPool, which makes and keeps them.                              *)
(*                                                                         *)
(* The world is a line of chunks one unit wide.  queue_mutex_ and          *)
(* pool_mutex_ make a locked section one step.  Loaders and unloaders      *)
(* share queue_cv_; a thread between its test and its sleep counts as      *)
(* asleep, and may miss what Stop says without the mutex.                  *)
(***************************************************************************)
EXTENDS Integers, Sequences, FiniteSets, FiniteSetsExt, SequencesExt

CONSTANTS Tiles, Views,          \* chunks and positions of the view
          Loaders, Unloaders,    \* threads
          load_radius, load_distance, high_distance,
          Cached,                \* chunks the cache holds
          initial_pool_size_, max_pool_size_,
          MaxFutures, MaxViews,  \* bounds on requests, on moves of the view
          MaxUnloads             \* and on unload_queue_

VARIABLES
    running_, load_queue_, unload_queue_,
    loaded_chunks_,          \* by place: the chunk
    pending_promises_,       \* by place: the number of a future
    loading_in_progress_, view_position_,
    thread,                  \* off, tests, asleep, or what it does with its job
    job,                     \* the request of a loader, the place of an unloader, the chunk
    chunk_pool_,             \* by key: the chunk, and whether it is active
    available_chunks_, active_chunks_, memory_usage_,
    \* History:
    futures,                 \* waits, value, cancelled, broken
    viewMoves,                   \* how often the view has moved
    forgotten                \* futures whose request a move of the view has dropped

queueVars == <<running_, load_queue_, unload_queue_, loaded_chunks_, pending_promises_,
               loading_in_progress_, view_position_>>
poolVars == <<chunk_pool_, available_chunks_, active_chunks_, memory_usage_>>
threadVars == <<thread, job>>
historyVars == <<futures, viewMoves, forgotten>>
streamVars == <<queueVars, poolVars, threadVars, historyVars>>

(* Places are integers; no thread both loads and unloads.                  *)
StreamConstants ==
    /\ IsFiniteSet(Tiles) /\ Tiles \cup Views \subseteq Int
    /\ Loaders \cap Unloaders = {}
    /\ initial_pool_size_ \in Nat

Far(a, b) == IF a < b THEN b - a ELSE a - b
CalculateLOD(k, v) == IF Far(k, v) <= high_distance THEN "HIGH" ELSE "LOW"
CalculatePriority(k, v) == 
    Far(k, v) * Far(k, v) + (IF CalculateLOD(k, v) = "LOW" THEN 1000000 ELSE 0)
ShouldLoadChunk(k, v) == Far(k, v) <= load_distance

Request(k, lod, v) == [x |-> k, lod |-> lod, priority |-> CalculatePriority(k, v)]
Idle == [x |-> 0, lod |-> "HIGH", chunk |-> <<>>]
Key(k, lod) == <<k, lod>>
Placeholder(i) == <<i, "prealloc">>
With(f, k, v) == [x \in DOMAIN f \cup {k} |-> IF x = k THEN v ELSE f[x]]
Without(f, k) == [x \in DOMAIN f \ {k} |-> f[x]]

(* What is left of a sequence that keeps only the given places.            *)
Rank(places, i) == Cardinality({j \in places : j <= i})
Ranked(places, n) == CHOOSE i \in places : Rank(places, i) = n
Keep(s, places) == [n \in 1..Cardinality(places) |-> s[Ranked(places, n)]]

StreamInit ==
    /\ running_ = FALSE /\ load_queue_ = <<>> /\ unload_queue_ = <<>>
    /\ loaded_chunks_ = <<>> /\ pending_promises_ = <<>> /\ loading_in_progress_ = {}
    /\ view_position_ = 0
    /\ thread = [t \in Loaders \cup Unloaders |-> "off"]
    /\ job = [t \in Loaders \cup Unloaders |-> Idle]
    \* Preallocate: the placeholders count as active for ever.
    /\ chunk_pool_ = [k \in {Placeholder(i) : i \in 1..initial_pool_size_} |->
                        [chunk |-> k, is_active |-> TRUE]]
    /\ available_chunks_ = <<>> /\ active_chunks_ = DOMAIN chunk_pool_
    /\ memory_usage_ = initial_pool_size_
    /\ futures = <<>> /\ viewMoves = 0 /\ forgotten = {}

Ended == \A t \in DOMAIN thread : thread[t] = "off"

-----------------------------------------------------------------------------
(* The caller.                                                             *)

Start ==
    /\ ~running_ /\ Ended /\ running_' = TRUE
    /\ thread' = [t \in DOMAIN thread |-> "tests"]
    /\ UNCHANGED <<load_queue_, unload_queue_, loaded_chunks_, pending_promises_,
                   loading_in_progress_, view_position_, job, poolVars, historyVars>>

(* Whoever sleeps wakes up, but for a thread that is just going to sleep.  *)
StopNotify ==
    /\ running_ /\ running_' = FALSE
    /\ \E deaf \in SUBSET {t \in DOMAIN thread : thread[t] = "asleep"} :
          thread' = [t \in DOMAIN thread |-> IF thread[t] = "asleep" /\ t \notin deaf
                                             THEN "tests" ELSE thread[t]]
    /\ UNCHANGED <<load_queue_, unload_queue_, loaded_chunks_, pending_promises_,
                   loading_in_progress_, view_position_, job, poolVars, historyVars>>

(* After the threads have ended; a promise that is destroyed breaks.       *)
StopClear ==
    /\ ~running_ /\ Ended
    /\ load_queue_' = <<>> /\ unload_queue_' = <<>> /\ loaded_chunks_' = <<>>
    /\ pending_promises_' = <<>> /\ loading_in_progress_' = {}
    /\ futures' = [i \in DOMAIN futures |-> IF futures[i] = "waits" THEN "broken" ELSE futures[i]]
    /\ UNCHANGED <<running_, view_position_, threadVars, poolVars, viewMoves, forgotten>>

(* notify_one wakes a sleeper of either kind.                              *)
NotifyOne ==
    LET sleepers == {t \in DOMAIN thread : thread[t] = "asleep"}
    IN IF sleepers = {} THEN UNCHANGED thread
       ELSE \E t \in sleepers : thread' = [thread EXCEPT ![t] = "tests"]

Resolved(i, how) == [futures EXCEPT ![i] = how]

(* A second promise for a chunk takes the place of the first, which breaks.*)
Promised(k) ==
    /\ pending_promises_' = With(pending_promises_, k, Len(futures) + 1)
    /\ futures' = Append(IF k \in DOMAIN pending_promises_
                         THEN Resolved(pending_promises_[k], "broken") ELSE futures, "waits")

(* The request of RequestChunk is for the HIGH level.                      *)
RequestChunk(k) ==
    /\ Len(futures) < MaxFutures
    /\ \/ /\ k \in DOMAIN loaded_chunks_ /\ futures' = Append(futures, "value")
          /\ UNCHANGED <<load_queue_, pending_promises_, thread>>
       \/ /\ k \notin DOMAIN loaded_chunks_ /\ k \in loading_in_progress_ /\ Promised(k)
          /\ UNCHANGED <<load_queue_, thread>>
       \/ /\ k \notin DOMAIN loaded_chunks_ \cup loading_in_progress_ /\ Promised(k)
          /\ load_queue_' = Append(load_queue_, Request(k, "HIGH", view_position_))
          /\ NotifyOne
    /\ UNCHANGED <<running_, unload_queue_, loaded_chunks_, loading_in_progress_, view_position_,
                   job, poolVars, viewMoves, forgotten>>

CancelRequest(k) ==
    /\ load_queue_' = Keep(load_queue_, {i \in DOMAIN load_queue_ : load_queue_[i].x # k})
    /\ pending_promises_' = Without(pending_promises_, k)
    /\ futures' = IF k \in DOMAIN pending_promises_
                  THEN Resolved(pending_promises_[k], "cancelled") ELSE futures
    /\ UNCHANGED <<running_, unload_queue_, loaded_chunks_, loading_in_progress_, view_position_,
                   threadVars, poolVars, viewMoves, forgotten>>

(* The chunk leaves loaded_chunks_ before its unloader looks for it there. *)
UnloadChunk(k) ==
    /\ Len(unload_queue_) < MaxUnloads
    /\ IF k \in DOMAIN loaded_chunks_
       THEN /\ unload_queue_' = Append(unload_queue_, k)
            /\ loaded_chunks_' = Without(loaded_chunks_, k)
       ELSE UNCHANGED <<unload_queue_, loaded_chunks_>>
    /\ NotifyOne
    /\ UNCHANGED <<running_, load_queue_, pending_promises_, loading_in_progress_, view_position_,
                   job, poolVars, historyVars>>

(* UpdateViewPosition.  UpdateLoadQueue starts the queue afresh, wakes     *)
(* nobody and leaves the promises; UpdateUnloadQueue looks for a second    *)
(* "_" in keys that have one, and so finds nothing to unload.              *)
Around(v) == {k \in Tiles : Far(k, v) <= load_radius /\ ShouldLoadChunk(k, v)}
Wanted(v) == Around(v) \ (DOMAIN loaded_chunks_ \cup loading_in_progress_)

UpdateViewPosition(v) ==
    /\ viewMoves < MaxViews /\ viewMoves' = viewMoves + 1 /\ view_position_' = v
    /\ load_queue_' = SetToSeq({Request(k, CalculateLOD(k, v), v) : k \in Wanted(v)})
    /\ forgotten' = forgotten \cup
          {pending_promises_[k] :
              k \in DOMAIN pending_promises_ \ (Wanted(v) \cup loading_in_progress_)}
    /\ UNCHANGED <<running_, unload_queue_, loaded_chunks_, pending_promises_,
                   loading_in_progress_, threadVars, poolVars, futures>>

-----------------------------------------------------------------------------
(* ChunkPool.                                                              *)

AddToPool(key) ==
    /\ chunk_pool_' = With(chunk_pool_, key, [chunk |-> key, is_active |-> TRUE])
    /\ active_chunks_' = active_chunks_ \cup {key}
    /\ memory_usage_' = memory_usage_ + 1

MarkActive(key) ==
    /\ chunk_pool_' = [chunk_pool_ EXCEPT ![key].is_active = TRUE]
    /\ active_chunks_' = active_chunks_ \cup {key}
    /\ available_chunks_' =
          Keep(available_chunks_, {i \in DOMAIN available_chunks_ : available_chunks_[i] # key})
    /\ UNCHANGED memory_usage_

(* The unused chunks go, those released first before the others.           *)
LastAt(key) == Max({i \in DOMAIN available_chunks_ : available_chunks_[i] = key})
Unused == {key \in DOMAIN chunk_pool_ : ~chunk_pool_[key].is_active}
Victims(keep_min) ==
    LET excess == Max({Cardinality(DOMAIN chunk_pool_) - keep_min, 0})
    IN {key \in Unused : Cardinality({o \in Unused : LastAt(o) < LastAt(key)}) < excess}

CleanupUnused(keep_min) ==
    /\ chunk_pool_' = [key \in DOMAIN chunk_pool_ \ Victims(keep_min) |-> chunk_pool_[key]]
    /\ available_chunks_' =
          Keep(available_chunks_,
               {i \in DOMAIN available_chunks_ : available_chunks_[i] \notin Victims(keep_min)})
    /\ memory_usage_' = memory_usage_ - Cardinality(Victims(keep_min))
    /\ UNCHANGED active_chunks_

CleanupLoop ==
    CleanupUnused(initial_pool_size_) /\ UNCHANGED <<queueVars, threadVars, historyVars>>

ReleaseChunk(key) ==
    IF key \in DOMAIN chunk_pool_
    THEN /\ chunk_pool_' = [chunk_pool_ EXCEPT ![key].is_active = FALSE]
         /\ available_chunks_' = Append(available_chunks_, key)
         /\ active_chunks_' = active_chunks_ \ {key}
         /\ UNCHANGED memory_usage_
    ELSE UNCHANGED poolVars

-----------------------------------------------------------------------------
(* A loader.                                                               *)

Goes(t, pc, j) == thread' = [thread EXCEPT ![t] = pc] /\ job' = [job EXCEPT ![t] = j]
Foremost == {i \in DOMAIN load_queue_ : \A j \in DOMAIN load_queue_ :
                load_queue_[i].priority <= load_queue_[j].priority}

LoaderTests(t) ==
    /\ thread[t] = "tests"
    /\ IF running_ /\ load_queue_ # <<>>
       THEN \E i \in Foremost :
               /\ load_queue_' = RemoveAt(load_queue_, i)
               /\ loading_in_progress_' = loading_in_progress_ \cup {load_queue_[i].x}
               /\ Goes(t, "cache",
                       [x |-> load_queue_[i].x, lod |-> load_queue_[i].lod, chunk |-> <<>>])
       ELSE Goes(t, IF running_ THEN "asleep" ELSE "off", Idle)
            /\ UNCHANGED <<load_queue_, loading_in_progress_>>
    /\ UNCHANGED <<running_, unload_queue_, loaded_chunks_, pending_promises_, view_position_,
                   poolVars, historyVars>>

(* ProcessChunkLoad.  AcquireChunk always finds or makes a chunk, so that  *)
(* nothing is generated and nothing put into the cache.                    *)
Holds(t, key) == Goes(t, "loaded", [job[t] EXCEPT !.chunk = key])

TryCache(t) ==
    /\ thread[t] = "cache"
    /\ IF job[t].x \in Cached THEN Holds(t, <<job[t].x, "cached">>) ELSE Goes(t, "pool", job[t])
    /\ UNCHANGED <<queueVars, poolVars, historyVars>>

(* A full pool is cleaned with the mutex released, and the key is not      *)
(* looked up again afterwards.                                             *)
AcquireChunk(t) ==
    LET key == Key(job[t].x, job[t].lod)
        full == Cardinality(DOMAIN chunk_pool_) >= max_pool_size_
    IN /\ thread[t] = "pool"
       /\ \/ /\ key \in DOMAIN chunk_pool_ /\ Holds(t, key)
             /\ IF chunk_pool_[key].is_active THEN UNCHANGED poolVars ELSE MarkActive(key)
          \/ /\ key \notin DOMAIN chunk_pool_ /\ ~full /\ Holds(t, key) /\ AddToPool(key)
             /\ UNCHANGED available_chunks_
          \/ /\ key \notin DOMAIN chunk_pool_ /\ full /\ Goes(t, "cleans", job[t])
             /\ UNCHANGED poolVars
       /\ UNCHANGED <<queueVars, historyVars>>

Clean(t) ==
    /\ thread[t] = "cleans" /\ Goes(t, "creates", job[t])
    /\ CleanupUnused(max_pool_size_ \div 2)
    /\ UNCHANGED <<queueVars, historyVars>>

Create(t) ==
    LET key == Key(job[t].x, job[t].lod)
    IN /\ thread[t] = "creates" /\ Holds(t, key) /\ AddToPool(key)
       /\ UNCHANGED <<queueVars, historyVars, available_chunks_>>

(* A variant that drops what the view has moved away from.                 *)
AnsweredNear(k) == k \in DOMAIN pending_promises_ /\ ShouldLoadChunk(k, view_position_)

Answered(k) == k \in DOMAIN pending_promises_

Fulfil(t) ==
    LET k == job[t].x
    IN /\ thread[t] = "loaded" /\ Goes(t, "tests", Idle)
       /\ loading_in_progress_' = loading_in_progress_ \ {k}
       /\ loaded_chunks_' = With(loaded_chunks_, k, job[t].chunk)
       /\ IF Answered(k)
          THEN /\ futures' = Resolved(pending_promises_[k], "value")
               /\ pending_promises_' = Without(pending_promises_, k)
          ELSE UNCHANGED <<futures, pending_promises_>>
       /\ UNCHANGED <<running_, load_queue_, unload_queue_, view_position_, poolVars,
                      viewMoves, forgotten>>

-----------------------------------------------------------------------------
(* An unloader.                                                            *)

UnloaderTests(t) ==
    /\ thread[t] = "tests"
    /\ IF running_ /\ unload_queue_ # <<>>
       THEN /\ unload_queue_' = Tail(unload_queue_)
            /\ Goes(t, "unloads", [Idle EXCEPT !.x = Head(unload_queue_)])
       ELSE Goes(t, IF running_ THEN "asleep" ELSE "off", Idle) /\ UNCHANGED unload_queue_
    /\ UNCHANGED <<running_, load_queue_, loaded_chunks_, pending_promises_, loading_in_progress_,
                   view_position_, poolVars, historyVars>>

(* ProcessChunkUnload finds only a chunk that was loaded again meanwhile.  *)
Unload(t) ==
    LET k == job[t].x
    IN /\ thread[t] = "unloads"
       /\ IF k \in DOMAIN loaded_chunks_
          THEN /\ loaded_chunks_' = Without(loaded_chunks_, k)
               /\ Goes(t, "releases", [job[t] EXCEPT !.chunk = loaded_chunks_[k]])
          ELSE Goes(t, "tests", Idle) /\ UNCHANGED loaded_chunks_
       /\ UNCHANGED <<running_, load_queue_, unload_queue_, pending_promises_,
                      loading_in_progress_, view_position_, poolVars, historyVars>>

Release(t) ==
    /\ thread[t] = "releases" /\ Goes(t, "tests", Idle)
    /\ ReleaseChunk(job[t].chunk)
    /\ UNCHANGED <<queueVars, historyVars>>

StreamNext ==
    \/ Start \/ StopNotify \/ StopClear \/ CleanupLoop
    \/ \E k \in Tiles : RequestChunk(k) \/ CancelRequest(k) \/ UnloadChunk(k)
    \/ \E v \in Views : UpdateViewPosition(v)
    \/ \E t \in Loaders : LoaderTests(t) \/ TryCache(t) \/ AcquireChunk(t) \/ Clean(t)
                            \/ Create(t) \/ Fulfil(t)
    \/ \E t \in Unloaders : UnloaderTests(t) \/ Unload(t) \/ Release(t)

-----------------------------------------------------------------------------
(* Whoever waits for a chunk is waited for: its request is queued, or the  *)
(* chunk is being loaded, unless the view has moved on; and no loader is   *)
(* needed twice for one promise.                                           *)
NothingForgotten ==
    \A k \in DOMAIN pending_promises_ :
        \/ pending_promises_[k] \in forgotten
        \/ \E i \in DOMAIN load_queue_ : load_queue_[i].x = k
        \/ \E t \in Loaders : job[t].x = k /\ thread[t] \notin {"off", "tests", "asleep"}

(* The future of a promise in the table waits, and no other does.          *)
WaitersKnown ==
    {i \in DOMAIN futures : futures[i] = "waits"}
        = {pending_promises_[k] : k \in DOMAIN pending_promises_}

(* What is in progress is somebody's job, so that a stopped streamer, all  *)
(* of whose threads have ended, loads nothing.                             *)
InProgress ==
    loading_in_progress_ \subseteq
        {job[t].x : t \in {l \in Loaders : thread[l] \notin {"off", "tests", "asleep"}}}

(* The books of the pool agree, whatever is acquired, released and cleaned *)
(* in whatever order: the active chunks are those in use, every other one  *)
(* can be found by the next cleanup, and the memory counted covers all.    *)
PoolBooks ==
    /\ active_chunks_ = DOMAIN chunk_pool_ \ Unused
    /\ Unused \subseteq ToSet(available_chunks_)
    /\ memory_usage_ >= Cardinality(DOMAIN chunk_pool_)

StreamInv == NothingForgotten /\ WaitersKnown /\ InProgress /\ PoolBooks
=============================================================================
