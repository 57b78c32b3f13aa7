------------------------------- MODULE ChunkStore -------------------------------
(***************************************************************************)
(* ChunkCache: chunks in memory, on disk, and the thread that saves them.  *)
(*                                                                         *)
(* The coordinate z and the level of detail are treated as x is, and a key *)
(* is an x.  A chunk is its size in bytes, which stands for its content    *)
(* too.  Statistics other than the two usages are left out.  Each step     *)
(* runs from one lock to the next; a lock that is only taken to return is  *)
(* left out.  A thread that saves keeps its iterator without the lock.     *)
(* When the entry was erased meanwhile, it reads and writes freed memory,  *)
(* which may hold anything by then, or be an entry again.                  *)
(***************************************************************************)
EXTENDS Integers, SequencesExt, FiniteSetsExt

CONSTANTS
    Clients, Saver,           \* threads that call, and save_thread_
    Coordinates, Contents,    \* Contents are numbers of bytes
    Limits,                   \* values of max_memory_cache_size
    max_memory_size_bytes, max_disk_cache_size, save_batch_size,
    Policies,                 \* subset of {"LRU", "LFU", "FIFO"}
    MaxUses                   \* bound on the calls

VARIABLES
    memory,       \* memory_cache_: key -> [content, count, dirty]
    access_order, \* front is the most recently used
    created,      \* the keys of memory by creation_time, oldest first
    usage,        \* memory_usage_bytes, disk_usage_bytes
    index,        \* disk_cache_index_ by saved_time, oldest first
    disk,         \* the files, and the index file
    save_queue,
    locks,        \* holders of cache_mutex_ (two ways), disk_mutex_, save_mutex_
    config,
    store,        \* where each thread is
    dangling,     \* the threads that save through an entry that was erased
    given         \* what was put under each key, or written to its file from
                  \* freed memory, and the number of calls

ASSUME StoreAssumption ==
    /\ Contents \subseteq Nat /\ Limits \subseteq Nat
    /\ max_memory_size_bytes \in Nat /\ max_disk_cache_size \in Nat

storeVars == <<memory, access_order, created, usage, index, disk, save_queue,
               locks, config, store, dangling, given>>

cached == <<memory, access_order, created>>
stored == <<index, disk>>

CacheThreads == Clients \cup {Saver}
NoEntry == [key |-> 0, content |-> 0]
NoCall == [pc |-> "idle", key |-> 0, content |-> 0, todo |-> <<>>, out |-> NoEntry]
NoLocks == [writer |-> "nobody", readers |-> {}, disk |-> "nobody", save |-> "nobody"]

(* std::stoi reads the eight hexadecimal digits of a key up to the first   *)
(* letter, here of numbers below 256; a negative number starts with one.   *)
Readable(x) == x >= 0
Parsed(x) ==
    LET high == x \div 16  low == x % 16
    IN IF high > 9 THEN 0 ELSE IF low > 9 THEN high ELSE 10 * high + low

KeysOf(entries) == {e.key : e \in ToSet(entries)}
SumOf(n) ==
    LET sum[k \in 0..Len(n)] == IF k = 0 THEN 0 ELSE sum[k - 1] + n[k] IN sum[Len(n)]
SizeOnDisk(entries) == SumOf([i \in 1..Len(entries) |-> entries[i].size])
Minus(n, size) == IF n >= size THEN n - size ELSE 0

StoreInit ==
    /\ memory = <<>> /\ access_order = <<>> /\ created = <<>>
    /\ usage = [memory |-> 0, disk |-> 0]
    /\ index = <<>> /\ disk = [files |-> <<>>, index |-> <<>>]
    /\ save_queue = <<>> /\ locks = NoLocks
    /\ config \in [limit : Limits, policy : Policies]
    /\ store = [t \in CacheThreads |-> NoCall]
    /\ dangling = {} /\ given = [put |-> {}, calls |-> 0]

Where(t, pc) == store[t].pc = pc
Goto(t, pc) == store' = [store EXCEPT ![t].pc = pc]
Return(t) == store' = [store EXCEPT ![t] = NoCall]
MayWrite == locks.writer = "nobody" /\ locks.readers = {}
MayRead == locks.writer = "nobody"

-----------------------------------------------------------------------------
(* Memory.                                                                 *)

Less(f, k) == [x \in DOMAIN f \ {k} |-> f[x]]
With(f, k, v) == [x \in DOMAIN f \cup {k} |-> IF x = k THEN v ELSE f[x]]

Erase(k) ==
    /\ memory' = Less(memory, k)
    /\ access_order' = RemoveFirst(access_order, k)
    /\ created' = RemoveFirst(created, k)
    /\ usage' = [usage EXCEPT !.memory = @ - memory[k].content]

Full(size) ==
    \/ Cardinality(DOMAIN memory) >= config.limit
    \/ usage.memory + size > max_memory_size_bytes
Over ==
    \/ Cardinality(DOMAIN memory) > config.limit
    \/ usage.memory > max_memory_size_bytes

(* A variant that takes an entry that is replaced for a new one.           *)
ReplacedAsNew(k) == 0
Replaced(k) == IF k \in DOMAIN memory THEN memory[k].content ELSE 0

(* The end of Put, which keeps cache_mutex_ while it waits to queue.       *)
Insert(t) ==
    LET k == store[t].key  c == store[t].content
    IN /\ memory' = With(memory, k, [content |-> c, count |-> 1, dirty |-> TRUE])
       /\ access_order' = <<k>> \o RemoveFirst(access_order, k)
       /\ created' = Append(RemoveFirst(created, k), k)
       /\ usage' = [usage EXCEPT !.memory = @ - Replaced(k) + c]
       /\ locks' = [locks EXCEPT !.writer = t]
       /\ Goto(t, "queue")

PutChunk(t) ==
    /\ Where(t, "put") /\ MayWrite
    /\ IF Full(store[t].content) THEN Goto(t, "evict") /\ UNCHANGED <<cached, usage, locks>>
       ELSE Insert(t)
    /\ UNCHANGED <<stored, save_queue, config, given>>

PutAgain(t) ==
    /\ Where(t, "retry") /\ MayWrite
    /\ IF Full(store[t].content) THEN Return(t) /\ UNCHANGED <<cached, usage, locks>>
       ELSE Insert(t)
    /\ UNCHANGED <<stored, save_queue, config, given>>

PutQueued(t) ==
    /\ Where(t, "queue") /\ locks.save = "nobody"
    /\ save_queue' = Append(save_queue, store[t].key)
    /\ locks' = [locks EXCEPT !.writer = "nobody"] /\ Return(t)
    /\ UNCHANGED <<cached, usage, stored, config, given>>

(* The order in which entries go: LFUEviction and FIFOEviction fix it at   *)
(* the start, LRUEviction looks for the next one each time.                *)
Candidates ==
    CASE config.policy = "LFU" ->
           {s \in SetToSeqs(DOMAIN memory) :
              \A i, j \in DOMAIN s : i < j => memory[s[i]].count <= memory[s[j]].count}
      [] config.policy = "FIFO" -> {created}
      [] OTHER -> {<<>>}

ApplyEvictionPolicy(t) ==
    /\ Where(t, "evict") /\ MayWrite
    /\ locks' = [locks EXCEPT !.writer = t]
    /\ \E s \in Candidates : store' = [store EXCEPT ![t].pc = "evicting", ![t].todo = s]
    /\ UNCHANGED <<cached, usage, stored, save_queue, config, given>>

(* The next in the order is looked for again each time, so a key that left *)
(* and came back meanwhile goes too if its turn is yet to come.            *)
Order(t) == IF config.policy = "LRU" THEN Reverse(access_order) ELSE store[t].todo
Turn(t) == SelectInSeq(Order(t), LAMBDA k : k \in DOMAIN memory)

(* A dirty entry leaves the memory, then, without the lock, goes to disk.  *)
Evict(t) ==
    /\ Where(t, "evicting") /\ locks.writer = t
    /\ IF Over /\ Turn(t) # 0
       THEN LET k == Order(t)[Turn(t)]
            IN /\ Erase(k)
               /\ IF memory[k].dirty
                  THEN /\ store' = [store EXCEPT ![t].pc = "spill",
                              ![t].todo = SubSeq(@, Turn(t) + 1, Len(@)),
                              ![t].out = [key |-> k, content |-> memory[k].content]]
                       /\ locks' = [locks EXCEPT !.writer = "nobody"]
                  ELSE UNCHANGED <<store, locks>>
       ELSE /\ Goto(t, "retry") /\ locks' = [locks EXCEPT !.writer = "nobody"]
            /\ UNCHANGED <<cached, usage>>
    /\ UNCHANGED <<stored, save_queue, config, given>>

Relock(t) ==
    /\ Where(t, "relock") /\ MayWrite
    /\ locks' = [locks EXCEPT !.writer = t]
    /\ store' = [store EXCEPT ![t].pc = "evicting", ![t].out = NoEntry]
    /\ UNCHANGED <<cached, usage, stored, save_queue, config, given>>

Get(t) ==
    /\ Where(t, "get") /\ MayWrite
    /\ LET k == store[t].key
       IN IF k \in DOMAIN memory
          THEN /\ memory' = [memory EXCEPT ![k].count = @ + 1]
               /\ access_order' = <<k>> \o RemoveFirst(access_order, k)
               /\ Return(t)
          ELSE Goto(t, "load") /\ UNCHANGED <<memory, access_order>>
    /\ UNCHANGED <<created, usage, stored, save_queue, locks, config, given>>

RemoveChunk(t) ==
    /\ Where(t, "remove") /\ MayWrite
    /\ IF store[t].key \in DOMAIN memory THEN Erase(store[t].key) /\ Goto(t, "unlink")
       ELSE Return(t) /\ UNCHANGED <<cached, usage>>
    /\ UNCHANGED <<stored, save_queue, locks, config, given>>

Clear(t) ==
    /\ Where(t, "clear") /\ MayWrite
    /\ memory' = <<>> /\ access_order' = <<>> /\ created' = <<>>
    /\ usage' = [usage EXCEPT !.memory = 0]
    /\ Goto(t, "wipe")
    /\ UNCHANGED <<stored, save_queue, locks, config, given>>

(* Contains waits for disk_mutex_ with a share of cache_mutex_.            *)
Holds(t) ==
    /\ Where(t, "contains") /\ MayRead
    /\ IF store[t].key \in DOMAIN memory THEN Return(t) /\ UNCHANGED locks
       ELSE Goto(t, "search") /\ locks' = [locks EXCEPT !.readers = @ \cup {t}]
    /\ UNCHANGED <<cached, usage, stored, save_queue, config, given>>

SetConfig(limit) ==
    /\ MayWrite /\ config' = [config EXCEPT !.limit = limit]
    /\ UNCHANGED <<cached, usage, stored, save_queue, locks, store, given>>

-----------------------------------------------------------------------------
(* Disk.                                                                   *)

Entry(k) == index[SelectInSeq(index, LAMBDA e : e.key = k)]
Without(entries, k) == RemoveFirstMatch(entries, LAMBDA e : e.key = k)
File(k) == Parsed(k)

RemoveFromDisk(k) ==
    IF k \in KeysOf(index)
    THEN /\ disk' = [disk EXCEPT !.files = Less(@, File(k))]
         /\ usage' = [usage EXCEPT !.disk = Minus(@, Entry(k).size)]
         /\ index' = Without(index, k)
    ELSE UNCHANGED <<disk, usage, index>>

(* The oldest file makes room first, if there is one, even for a file that *)
(* is written again, and even when writing (ok) fails.                     *)
SaveToDiskInternal(k, c, ok) ==
    LET full == Len(index) >= max_disk_cache_size /\ index # <<>>
        kept == IF full THEN Tail(index) ELSE index
        files == IF full THEN Less(disk.files, File(Head(index).key)) ELSE disk.files
        freed == IF full THEN Minus(usage.disk, Head(index).size) ELSE usage.disk
    IN /\ index' = IF ok THEN Append(Without(kept, k), [key |-> k, size |-> c]) ELSE kept
       /\ disk' = [disk EXCEPT !.files = IF ok THEN With(files, File(k), c) ELSE files]
       /\ usage' = [usage EXCEPT !.disk = IF ok THEN freed + c ELSE freed]

(* An exception ends here.                                                 *)
Spill(t) ==
    /\ Where(t, "spill") /\ locks.disk = "nobody"
    /\ LET e == store[t].out
       IN \E ok \in {FALSE, Readable(e.key)} : SaveToDiskInternal(e.key, e.content, ok)
    /\ Goto(t, "relock")
    /\ UNCHANGED <<cached, save_queue, locks, config, given>>

LoadFromDiskInternal(t) ==
    /\ Where(t, "load") /\ locks.disk = "nobody"
    /\ LET k == store[t].key
       IN CASE k \in KeysOf(index) /\ File(k) \in DOMAIN disk.files ->
                 /\ store' = [store EXCEPT ![t].pc = "put", ![t].content = disk.files[File(k)]]
                 /\ UNCHANGED <<index, usage>>
            [] k \in KeysOf(index) /\ File(k) \notin DOMAIN disk.files ->
                 /\ usage' = [usage EXCEPT !.disk = Minus(@, Entry(k).size)]
                 /\ index' = Without(index, k) /\ Return(t)
            [] OTHER -> Return(t) /\ UNCHANGED <<index, usage>>
    /\ UNCHANGED <<cached, disk, save_queue, locks, config, given>>

Unlink(t) ==
    /\ Where(t, "unlink") /\ locks.disk = "nobody"
    /\ RemoveFromDisk(store[t].key) /\ Return(t)
    /\ UNCHANGED <<cached, save_queue, locks, config, given>>

Wipe(t) ==
    /\ Where(t, "wipe") /\ locks.disk = "nobody"
    /\ disk' = [disk EXCEPT !.files = [f \in DOMAIN @ \ {File(k) : k \in KeysOf(index)} |-> @[f]]]
    /\ index' = <<>> /\ usage' = [usage EXCEPT !.disk = 0] /\ Return(t)
    /\ UNCHANGED <<cached, save_queue, locks, config, given>>

LookUp(t) ==
    /\ Where(t, "search") /\ locks.disk = "nobody"
    /\ locks' = [locks EXCEPT !.readers = @ \ {t}] /\ Return(t)
    /\ UNCHANGED <<cached, usage, stored, save_queue, config, given>>

-----------------------------------------------------------------------------
(* Saving: SaveThreadFunc takes a batch, Flush one key after the other     *)
(* with save_mutex_ held.                                                  *)

TakeBatch ==
    /\ Where(Saver, "idle") /\ locks.save = "nobody" /\ save_queue # <<>>
    /\ LET n == Min({save_batch_size, Len(save_queue)})
       IN /\ store' = [store EXCEPT ![Saver].pc = "next", ![Saver].todo = SubSeq(save_queue, 1, n)]
          /\ save_queue' = SubSeq(save_queue, n + 1, Len(save_queue))
    /\ UNCHANGED <<cached, usage, stored, locks, config, given>>

Flush(t) ==
    /\ Where(t, "flush") /\ locks.save = "nobody"
    /\ locks' = [locks EXCEPT !.save = t] /\ Goto(t, "next")
    /\ UNCHANGED <<cached, usage, stored, save_queue, config, given>>

Waiting(t) == IF t = Saver THEN store[t].todo ELSE save_queue

NextKey(t) ==
    /\ Where(t, "next") /\ Waiting(t) # <<>> /\ MayRead
    /\ LET k == Head(Waiting(t))
           pc == IF k \in DOMAIN memory /\ memory[k].dirty THEN "write" ELSE "next"
       IN IF t = Saver
          THEN /\ store' = [store EXCEPT ![t].pc = pc, ![t].key = k, ![t].todo = Tail(@)]
               /\ UNCHANGED save_queue
          ELSE /\ store' = [store EXCEPT ![t].pc = pc, ![t].key = k]
               /\ save_queue' = Tail(save_queue)
    /\ UNCHANGED <<cached, usage, stored, locks, config, given>>

AllTaken(t) ==
    /\ Where(t, "next") /\ Waiting(t) = <<>>
    /\ IF t = Saver THEN Return(t) /\ UNCHANGED locks
       ELSE Goto(t, "sync") /\ locks' = [locks EXCEPT !.save = "nobody"]
    /\ UNCHANGED <<cached, usage, stored, save_queue, config, given>>

(* The entry is read as it is by now, or what is in its place.             *)
Write(t) ==
    /\ Where(t, "write") /\ locks.disk = "nobody"
    /\ LET k == store[t].key
       IN /\ Readable(k)
          /\ \/ /\ t \notin dangling /\ k \in DOMAIN memory
                /\ SaveToDiskInternal(k, memory[k].content, TRUE)
                /\ Goto(t, "mark") /\ UNCHANGED given
             \/ /\ t \in dangling
                /\ \E c \in Contents :
                      /\ SaveToDiskInternal(k, c, TRUE)
                      /\ given' = [put |-> given.put \cup {<<k, c>>}, calls |-> given.calls]
                /\ Goto(t, "mark")
             \/ SaveToDiskInternal(k, 0, FALSE) /\ Goto(t, "next") /\ UNCHANGED given
    /\ UNCHANGED <<cached, save_queue, locks, config>>

(* The flag of another entry, when that is where the freed one was.        *)
Mark(t) ==
    /\ Where(t, "mark") /\ MayWrite
    /\ \/ \E k \in (IF t \in dangling THEN DOMAIN memory ELSE {store[t].key}) :
             memory' = [memory EXCEPT ![k].dirty = FALSE]
       \/ t \in dangling /\ UNCHANGED memory
    /\ Goto(t, "next")
    /\ UNCHANGED <<access_order, created, usage, stored, save_queue, locks, config, given>>

(* An iterator dangles from the erasure of its entry to the end of its     *)
(* use, also when the key comes back.                                      *)
UsesIterator(calls, t) == calls[t].pc \in {"write", "mark"}
Dangle ==
    dangling' = {t \in CacheThreads :
                   /\ UsesIterator(store', t)
                   /\ \/ t \in dangling
                      \/ UsesIterator(store, t) /\ store[t].key \notin DOMAIN memory'}

SaveToDisk(t) ==
    /\ Where(t, "sync") /\ locks.disk = "nobody"
    /\ locks' = [locks EXCEPT !.disk = t] /\ Goto(t, "index")
    /\ UNCHANGED <<cached, usage, stored, save_queue, config, given>>

(* For a dirty entry SaveToDiskInternal locks disk_mutex_ again, and the   *)
(* thread waits for itself.                                                *)
WriteIndex(t) ==
    /\ Where(t, "index") /\ MayRead
    /\ IF \E k \in DOMAIN memory : memory[k].dirty
       THEN /\ Goto(t, "stuck") /\ locks' = [locks EXCEPT !.readers = @ \cup {t}]
            /\ UNCHANGED disk
       ELSE /\ disk' = [disk EXCEPT !.index = index]
            /\ locks' = [locks EXCEPT !.disk = "nobody"] /\ Return(t)
    /\ UNCHANGED <<cached, usage, index, save_queue, config, given>>

(* The process ends, or an exception nobody catches ends it, and           *)
(* LoadFromDisk reads the index that was written last.                     *)
Restart ==
    /\ given.calls > 0
    /\ memory' = <<>> /\ access_order' = <<>> /\ created' = <<>> /\ save_queue' = <<>>
    /\ index' = disk.index
    /\ usage' = [memory |-> 0, disk |-> SizeOnDisk(disk.index)]
    /\ locks' = NoLocks /\ store' = [t \in CacheThreads |-> NoCall]
    /\ UNCHANGED <<disk, config, given>>

-----------------------------------------------------------------------------
Call(t, op, k, c) ==
    /\ Where(t, "idle") /\ given.calls < MaxUses
    /\ store' = [store EXCEPT ![t] = [NoCall EXCEPT !.pc = op, !.key = k, !.content = c]]
    /\ given' = [put |-> IF op = "put" THEN given.put \cup {<<k, c>>} ELSE given.put,
                 calls |-> given.calls + 1]
    /\ UNCHANGED <<cached, usage, stored, save_queue, locks, config>>

Calls(t) ==
    \/ \E k \in Coordinates, c \in Contents : Call(t, "put", k, c)
    \/ \E k \in Coordinates, op \in {"get", "remove", "contains"} : Call(t, op, k, 0)
    \/ \E op \in {"clear", "flush", "sync"} : Call(t, op, 0, 0)

InMemory(t) ==
    \/ PutChunk(t) \/ PutAgain(t) \/ PutQueued(t) \/ ApplyEvictionPolicy(t) \/ Evict(t) \/ Relock(t)
    \/ Get(t) \/ RemoveChunk(t) \/ Clear(t) \/ Holds(t)
OnDisk(t) == Spill(t) \/ LoadFromDiskInternal(t) \/ Unlink(t) \/ Wipe(t) \/ LookUp(t)
Saving(t) == NextKey(t) \/ AllTaken(t) \/ Write(t) \/ Mark(t)

StoreStep ==
    \/ \E t \in Clients :
          Calls(t) \/ InMemory(t) \/ OnDisk(t) \/ Flush(t) \/ SaveToDisk(t) \/ WriteIndex(t)
    \/ \E t \in CacheThreads : Saving(t)
    \/ TakeBatch \/ Restart
    \/ \E limit \in Limits : SetConfig(limit)

StoreNext == StoreStep /\ Dangle

StoreSpec == StoreInit /\ [][StoreNext]_storeVars

-----------------------------------------------------------------------------
(* What the policies go by and the bytes in use are those of the chunks    *)
(* that are there, whatever is evicted, replaced or removed meanwhile.     *)
TrackingAgrees ==
    /\ ToSet(access_order) = DOMAIN memory /\ IsInjective(access_order)
    /\ ToSet(created) = DOMAIN memory /\ IsInjective(created)
    /\ usage.memory = SumOf([i \in 1..Len(created) |-> memory[created[i]].content])

(* Memory and disk stay within their limits, where no limit of the disk    *)
(* keeps out the file written last, and the disk is never taken to be      *)
(* emptier than it is.                                                     *)
StoreBounded ==
    /\ usage.memory <= max_memory_size_bytes
    /\ \E limit \in Limits : Cardinality(DOMAIN memory) <= limit
    /\ Len(index) <= max_disk_cache_size \/ Len(index) = 1
    /\ usage.disk >= SizeOnDisk(index)

(* A chunk that is found under a key was put there, or under a key that    *)
(* shares its file, or was written there through an entry that was erased, *)
(* also after a restart with an old index.                                 *)
PutUnder(k, c) == \E p \in given.put : Parsed(p[1]) = Parsed(k) /\ p[2] = c
Genuine ==
    /\ \A k \in DOMAIN memory : PutUnder(k, memory[k].content)
    /\ \A f \in DOMAIN disk.files :
         \E k \in Coordinates : File(k) = f /\ PutUnder(k, disk.files[f])

CacheInv == TrackingAgrees /\ StoreBounded /\ Genuine
=============================================================================
