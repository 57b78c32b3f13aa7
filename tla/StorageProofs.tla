------------------------------ MODULE StorageProofs ------------------------------
(***************************************************************************)
(* Where the server keeps what it must not lose: the pool of connections   *)
(* to the database and the cache of chunks.                                *)
(*                                                                         *)
(* For any threads, connections and bounds: no two threads share a         *)
(* connection, none that works is lost, and the pool keeps to its maximum. *)
(* For any threads, chunks, keys and limits: the cache keeps count of what *)
(* it holds, stays within its limits, and gives back what was put there.   *)
(***************************************************************************)
EXTENDS ConnectionPool, ChunkStore,
        FiniteSetTheorems, SequenceTheorems, WellFoundedInduction, TLAPS

-----------------------------------------------------------------------------
(* The pool.                                                               *)

\* A thread that waits has no connection.
WaitersHaveNone == \A t \in Threads : waited[t] # -1 => held[t] = NoConn

PoolInv == TypeOK /\ NothingLeaked /\ WaitersHaveNone /\ ExclusiveUse

\* Before Connect there is nothing.
LEMMA InitPool == Init => PoolInv
<1>. SUFFICES ASSUME Init
              PROVE  PoolInv
  OBVIOUS
<1>1. /\ -1 \in -1..(MaxWaits - 1) /\ 0 \in 0..MaxFaults
  BY PoolAssumption
<1>2. held \in [Threads -> Conns \cup {NoConn}] /\ waited \in [Threads -> -1..(MaxWaits - 1)]
  BY <1>1 DEF Init
<1>3. TypeOK
  BY <1>1, <1>2 DEF Init, TypeOK
<1>. QED
  BY <1>3 DEF Init, PoolInv, NothingLeaked, Leaked, WaitersHaveNone, ExclusiveUse

\* A connect that fails leaves a PGconn that does not work, outside the pool.
LEMMA LeaveStep ==
    ASSUME PoolInv, LeaveOne
    PROVE  /\ open' \subseteq Conns /\ open \subseteq open'
           /\ broken' \subseteq open' /\ open' \ pool \subseteq broken'
BY DEF LeaveOne, PoolInv, TypeOK, NothingLeaked, Leaked

\* A fault or none.
LEMMA FaultsTyped ==
    ASSUME TypeOK, UNCHANGED faults \/ Fault \/ ConnectFails
    PROVE  faults' \in 0..MaxFaults
BY PoolAssumption DEF ConnectFails, Fault, TypeOK

\* An idle connection goes to a thread that has none.
LEMMA TakeStep ==
    ASSUME PoolInv, NEW t \in Threads, Take(t), held[t] = NoConn
    PROVE  PoolInv'
<1>1. PICK c \in IdleAndHealthy : /\ inUse' = inUse \cup {c}
                                  /\ held' = [held EXCEPT ![t] = c]
  BY DEF Take
<1>2. UNCHANGED <<poolInitialized, pool, open, broken, serverUp, faults>>
  BY DEF Take
<1>3. c \in pool /\ c \notin inUse /\ c \in Conns /\ c # NoConn
  BY PoolAssumption DEF IdleAndHealthy, Idle, PoolInv, TypeOK
<1>4. waited' \in [Threads -> -1..(MaxWaits - 1)] /\ waited'[t] = -1
  BY PoolAssumption DEF Take, PoolInv, TypeOK
<1>5. TypeOK'
  BY <1>1, <1>2, <1>3, <1>4 DEF PoolInv, TypeOK
<1>6. ExclusiveUse'
  BY <1>1, <1>2, <1>3 DEF PoolInv, TypeOK, ExclusiveUse
<1>7. WaitersHaveNone'
  BY <1>1 DEF Take, PoolInv, TypeOK, WaitersHaveNone
<1>. QED
  BY <1>2, <1>5, <1>6, <1>7 DEF PoolInv, NothingLeaked, Leaked

\* A thread that gets a connection gets one that nobody has: an idle one, or
\* one at an address where no PGconn was.
LEMMA GetStep ==
    ASSUME PoolInv, NEW t \in Threads, GetConnection(t)
    PROVE  PoolInv'
<1>1. CASE Take(t)
  BY <1>1, TakeStep DEF GetConnection, Asks
<1>2. CASE Grow(t)
  <2>1. PICK c \in Conns \ open :
          /\ pool' = pool \cup {c} /\ inUse' = inUse \cup {c}
          /\ open' = open \cup {c} /\ held' = [held EXCEPT ![t] = c]
    BY <1>2 DEF Grow, EnterInUse
  <2>2. c # NoConn /\ held[t] = NoConn
    BY PoolAssumption DEF GetConnection, Asks
  <2>3. \A s \in Threads : held[s] # c
    BY <2>1, <2>2 DEF GetConnection, Asks, PoolInv, ExclusiveUse, TypeOK
  <2>4. TypeOK'
    BY <1>2, <2>1 DEF Grow, PoolInv, TypeOK
  <2>5. ExclusiveUse'
    BY <1>2, <2>1, <2>2, <2>3 DEF Grow, PoolInv, TypeOK, ExclusiveUse
  <2>. QED
    BY <1>2, <2>1, <2>4, <2>5 DEF GetConnection, Asks, Grow, PoolInv, TypeOK, NothingLeaked, Leaked,
                                     WaitersHaveNone
<1>3. CASE StartWaiting(t)
  <2>1. /\ held[t] = NoConn /\ waited' = [waited EXCEPT ![t] = 0]
        /\ UNCHANGED <<poolInitialized, pool, inUse, held, serverUp>>
    BY <1>3 DEF GetConnection, Asks, StartWaiting
  <2>2. /\ open' \subseteq Conns /\ open \subseteq open'
        /\ broken' \subseteq open' /\ open' \ pool \subseteq broken'
        /\ faults' \in 0..MaxFaults
    BY <1>3, LeaveStep, FaultsTyped DEF StartWaiting, PoolInv, TypeOK, NothingLeaked, Leaked
  <2>3. TypeOK'
    BY <2>1, <2>2, PoolAssumption DEF PoolInv, TypeOK
  <2>. QED
    BY <2>1, <2>2, <2>3 DEF PoolInv, TypeOK, NothingLeaked, Leaked, WaitersHaveNone,
                            ExclusiveUse
<1>. QED
  BY <1>1, <1>2, <1>3 DEF GetConnection

\* The wait of GetConnection.
LEMMA WaitStep ==
    ASSUME PoolInv, NEW t \in Threads, LookAgain(t)
    PROVE  PoolInv'
<1>1. CASE Take(t)
  BY <1>1, TakeStep DEF LookAgain, PoolInv, WaitersHaveNone
<1>2. CASE WaitOn(t) /\ UNCHANGED <<poolInitialized, pool, inUse, open, broken, held,
                                    serverUp, faults>>
  <2>1. waited[t] + 1 < MaxWaits => waited[t] + 1 \in -1..(MaxWaits - 1)
    BY PoolAssumption DEF PoolInv, TypeOK
  <2>2. waited' \in [Threads -> -1..(MaxWaits - 1)]
    BY <1>2, <2>1, PoolAssumption DEF WaitOn, PoolInv, TypeOK
  <2>3. WaitersHaveNone'
    BY <1>2, LookAgain(t) DEF LookAgain, WaitOn, PoolInv, TypeOK, WaitersHaveNone
  <2>. QED
    BY <1>2, <2>2, <2>3 DEF PoolInv, TypeOK, NothingLeaked, Leaked, ExclusiveUse
<1>. QED
  BY <1>1, <1>2 DEF LookAgain

\* A thread gives its connection back.
LEMMA ReleaseStep ==
    ASSUME PoolInv, NEW t \in Threads, ReleaseConnection(t)
    PROVE  PoolInv'
<1>1. /\ held[t] # NoConn /\ inUse' = inUse \ {held[t]}
      /\ open' = open \/ (held[t] \notin pool /\ open' = open \ {held[t]})
      /\ pool' = pool /\ broken' = broken \cap open'
      /\ held' = [held EXCEPT ![t] = NoConn]
      /\ UNCHANGED <<poolInitialized, waited, serverUp, faults>>
  BY DEF ReleaseConnection
<1>2. TypeOK'
  BY <1>1 DEF PoolInv, TypeOK
<1>3. ExclusiveUse'
  BY <1>1 DEF PoolInv, TypeOK, ExclusiveUse
<1>4. NothingLeaked'
  BY <1>1 DEF PoolInv, TypeOK, NothingLeaked, Leaked
<1>. QED
  BY <1>1, <1>2, <1>3, <1>4 DEF PoolInv, TypeOK, WaitersHaveNone

\* Maintenance finishes idle connections only, makes new ones at addresses
\* where no PGconn is, and drops what does not work.
LEMMA MaintainStep ==
    ASSUME PoolInv, MaintainPool
    PROVE  PoolInv'
<1>1. PICK gone \in SUBSET Idle, fresh \in SUBSET Conns, lost \in SUBSET Conns :
        /\ pool' = (pool \ gone) \cup fresh
        /\ open' = (open \ gone) \cup fresh \cup lost
        /\ broken' = (broken \cap (open \ gone)) \cup lost
        /\ UNCHANGED faults \/ Fault
  <2>1. PICK old \in SUBSET Maintained :
          LET replaced == (Maintained \cap broken) \ old
              gone == old \cup replaced
              kept == pool \ gone
          IN  \E fresh \in SUBSET (Conns \ Finish(gone)) :
              \E leaks \in 0..(Cardinality(Maintained) + 1) :
                    /\ Refilled(Cardinality(kept), Cardinality(replaced),
                                Cardinality(kept \cup fresh), leaks)
                    /\ pool' = kept \cup fresh
                    /\ \E lost \in SUBSET (Conns \ (Finish(gone) \cup fresh)) :
                          /\ open' = Finish(gone) \cup fresh \cup lost
                          /\ broken' = (broken \cap Finish(gone)) \cup lost
    BY DEF MaintainPool
  <2>. DEFINE rep == (Maintained \cap broken) \ old
              out == old \cup rep
              kept == pool \ out
  <2>2. PICK fresh \in SUBSET (Conns \ Finish(out)),
             leaks \in 0..(Cardinality(Maintained) + 1) :
          /\ Refilled(Cardinality(kept), Cardinality(rep), Cardinality(kept \cup fresh), leaks)
          /\ pool' = kept \cup fresh
          /\ \E lost \in SUBSET (Conns \ (Finish(out) \cup fresh)) :
                /\ open' = Finish(out) \cup fresh \cup lost
                /\ broken' = (broken \cap Finish(out)) \cup lost
    BY <2>1
  <2>3. UNCHANGED faults \/ Fault
    BY <2>2 DEF Refilled
  <2>4. out \in SUBSET Idle
    BY DEF Maintained
  <2>. QED
    BY <2>2, <2>3, <2>4 DEF Finish
<1>2. UNCHANGED <<poolInitialized, inUse, held, waited, serverUp>>
  BY DEF MaintainPool
<1>3. faults' \in 0..MaxFaults
  BY <1>1, FaultsTyped DEF PoolInv
<1>4. TypeOK'
  BY <1>1, <1>2, <1>3 DEF PoolInv, TypeOK, Idle
<1>5. NothingLeaked'
  BY <1>1 DEF PoolInv, TypeOK, NothingLeaked, Leaked, Idle
<1>. QED
  BY <1>2, <1>4, <1>5 DEF PoolInv, ExclusiveUse, WaitersHaveNone

\* Faults break connections and change nothing else.
LEMMA FaultStep ==
    ASSUME PoolInv, ServerStops \/ ServerStarts \/ \E c \in Conns : Cut(c)
    PROVE  PoolInv'
<1>1. UNCHANGED <<poolInitialized, pool, inUse, open, held, waited>>
  BY DEF ServerStops, ServerStarts, Cut
<1>2. broken' \subseteq open /\ broken \subseteq broken' /\ serverUp' \in BOOLEAN
  BY DEF ServerStops, ServerStarts, Cut, PoolInv, TypeOK
<1>3. faults' \in 0..MaxFaults
  BY PoolAssumption DEF ServerStops, ServerStarts, Cut, Fault, PoolInv, TypeOK
<1>4. TypeOK'
  BY <1>1, <1>2, <1>3 DEF PoolInv, TypeOK
<1>. QED
  BY <1>1, <1>2, <1>4 DEF PoolInv, NothingLeaked, Leaked, WaitersHaveNone, ExclusiveUse

\* Connect fills an empty pool or leaves it so, Disconnect empties it.
LEMMA ConnectStep ==
    ASSUME PoolInv, InitializeConnectionPool \/ InitializationFails \/ Disconnect
    PROVE  PoolInv'
<1>1. CASE InitializeConnectionPool
  BY <1>1 DEF InitializeConnectionPool, BeforeConnect, PoolInv, TypeOK, NothingLeaked,
              Leaked, WaitersHaveNone, ExclusiveUse
<1>2. CASE InitializationFails
  <2>1. /\ open' \subseteq Conns /\ open \subseteq open'
        /\ broken' \subseteq open' /\ open' \ pool \subseteq broken'
        /\ faults' \in 0..MaxFaults
    BY <1>2, LeaveStep, FaultsTyped DEF InitializationFails, PoolInv
  <2>. QED
    BY <1>2, <2>1 DEF InitializationFails, BeforeConnect, PoolInv, TypeOK, NothingLeaked,
                      Leaked, WaitersHaveNone, ExclusiveUse
<1>3. CASE Disconnect
  BY <1>3 DEF Disconnect, PoolInv, TypeOK, NothingLeaked, Leaked, WaitersHaveNone,
              ExclusiveUse
<1>. QED
  BY <1>1, <1>2, <1>3

LEMMA PoolInvariant == Spec => []PoolInv
<1>1. PoolInv /\ [Next]_vars => PoolInv'
  <2>. SUFFICES ASSUME PoolInv, [Next]_vars
                PROVE  PoolInv'
    OBVIOUS
  <2>1. CASE UNCHANGED vars
    BY <2>1 DEF vars, PoolInv, TypeOK, NothingLeaked, Leaked, WaitersHaveNone, ExclusiveUse
  <2>2. CASE Next
    BY <2>2, GetStep, WaitStep, ReleaseStep, MaintainStep, FaultStep, ConnectStep DEF Next
  <2>. QED
    BY <2>1, <2>2
<1>. QED
  BY <1>1, InitPool, PTL DEF Spec

\* While the pool is open no two threads have the same connection, for any
\* number of threads and whatever maintenance and faults do.
THEOREM NoSharedConnection == Spec => []ExclusiveUse
<1>1. PoolInv => ExclusiveUse
  BY DEF PoolInv
<1>. QED
  BY <1>1, PoolInvariant, PTL

\* A PGconn that works is in the pool, whoever holds it: what is lost, when a
\* connect or a test fails, does not work.
THEOREM NoLeak == Spec => []NothingLeaked
<1>1. PoolInv => NothingLeaked
  BY DEF PoolInv
<1>. QED
  BY <1>1, PoolInvariant, PTL
-----------------------------------------------------------------------------
(* The size of the pool.                                                   *)

\* A set of connections is finite, and its size a number.
LEMMA ConnsFinite ==
    ASSUME NEW S \in SUBSET Conns
    PROVE  IsFiniteSet(S) /\ Cardinality(S) \in Nat
BY FS_Subset, FS_CardinalityType, PoolAssumption

Sized == Cardinality(pool) <= maxConnections

\* However the refill goes, it makes no more than were replaced, or up to the
\* minimum.
LEMMA RefilledWithin ==
    ASSUME NEW kept \in Nat, NEW replaced \in Nat, NEW total \in Nat, NEW leaks,
           Refilled(kept, replaced, total, leaks), kept + replaced <= maxConnections
    PROVE  total <= maxConnections
BY PoolAssumption DEF Refilled, AtLeastMinimum

\* What is kept and what is replaced was in the pool, so their number is not
\* above the maximum.
LEMMA MaintainSize ==
    ASSUME PoolInv, Sized, MaintainPool
    PROVE  Sized'
<1>1. PICK kept \in SUBSET pool, replaced \in SUBSET pool :
        /\ kept \cap replaced = {}
        /\ \E leaks \in Nat :
              Refilled(Cardinality(kept), Cardinality(replaced), Cardinality(pool'), leaks)
  <2>1. PICK old \in SUBSET Maintained :
          LET rep == (Maintained \cap broken) \ old
              kept == pool \ (old \cup rep)
          IN  \E fresh \in SUBSET (Conns \ Finish(old \cup rep)) :
              \E leaks \in 0..(Cardinality(Maintained) + 1) :
                 /\ Refilled(Cardinality(kept), Cardinality(rep), Cardinality(kept \cup fresh),
                             leaks)
                 /\ pool' = kept \cup fresh
    BY DEF MaintainPool
  <2>. DEFINE rep == (Maintained \cap broken) \ old
              kpt == pool \ (old \cup rep)
  <2>2. kpt \in SUBSET pool /\ rep \in SUBSET pool /\ kpt \cap rep = {}
    BY DEF Maintained, Idle
  <2>3. \E leaks \in Nat :
           Refilled(Cardinality(kpt), Cardinality(rep), Cardinality(pool'), leaks)
    BY <2>1
  <2>. HIDE DEF rep, kpt
  <2>. QED
    BY <2>2, <2>3
<1>2. pool \in SUBSET Conns /\ pool' \in SUBSET Conns /\ Cardinality(pool) <= maxConnections
  BY MaintainStep DEF PoolInv, TypeOK, Sized
<1>3. /\ Cardinality(kept) \in Nat /\ Cardinality(replaced) \in Nat
      /\ Cardinality(pool) \in Nat /\ Cardinality(pool') \in Nat
      /\ IsFiniteSet(kept) /\ IsFiniteSet(replaced) /\ IsFiniteSet(pool)
  BY <1>2, ConnsFinite
<1>4. Cardinality(kept) + Cardinality(replaced) = Cardinality(kept \cup replaced)
  BY <1>1, <1>3, FS_Union, FS_EmptySet
<1>5. Cardinality(kept \cup replaced) <= Cardinality(pool)
  BY <1>3, FS_Subset
<1>6. Cardinality(kept) + Cardinality(replaced) <= maxConnections
  BY <1>2, <1>3, <1>4, <1>5, PoolAssumption
<1>. QED
  BY <1>1, <1>3, <1>6, RefilledWithin DEF Sized

\* The other steps that make a connection find room for it.
LEMMA SizeStep == PoolInv /\ Sized /\ [Next]_vars => Sized'
<1>. SUFFICES ASSUME PoolInv, Sized, [Next]_vars
              PROVE  Sized'
  OBVIOUS
<1>1. CASE pool' = pool
  BY <1>1 DEF Sized
<1>2. CASE MaintainPool
  BY <1>2, MaintainSize
<1>3. CASE InitializeConnectionPool
  BY <1>3, PoolAssumption DEF InitializeConnectionPool, Sized
<1>4. CASE Disconnect
  BY <1>4, FS_EmptySet, PoolAssumption DEF Disconnect, Sized
<1>5. ASSUME NEW t \in Threads, Grow(t)
      PROVE  Sized'
  <2>1. PICK c \in Conns \ open : pool' = pool \cup {c}
    BY <1>5 DEF Grow, EnterInUse
  <2>2. IsFiniteSet(pool) /\ Cardinality(pool) \in Nat /\ c \notin pool
    BY <2>1, ConnsFinite DEF PoolInv, TypeOK
  <2>3. Cardinality(pool') = Cardinality(pool) + 1
    BY <2>1, <2>2, FS_AddElement
  <2>4. Cardinality(pool) < maxConnections
    BY <1>5 DEF Grow, Room
  <2>. QED
    BY <2>2, <2>3, <2>4, PoolAssumption DEF Sized
<1>6. ASSUME NEW t \in Threads,
             Take(t) \/ StartWaiting(t) \/ LookAgain(t) \/ ReleaseConnection(t)
      PROVE  pool' = pool
  BY <1>6 DEF Take, StartWaiting, LookAgain, ReleaseConnection
<1>7. CASE InitializationFails \/ ServerStops \/ ServerStarts \/ \E c \in Conns : Cut(c)
  BY <1>1, <1>7 DEF InitializationFails, ServerStops, ServerStarts, Cut
<1>8. CASE UNCHANGED vars
  BY <1>1, <1>8 DEF vars
<1>. QED
  BY <1>1, <1>2, <1>3, <1>4, <1>5, <1>6, <1>7, <1>8 DEF Next, GetConnection

\* The server never sees more than max_connections of the pool: what works is
\* in the pool, and the pool keeps to its maximum.
THEOREM PoolBounded == Spec => []WithinMaximum
<1>1. Init => Sized
  BY FS_EmptySet, PoolAssumption DEF Init, Sized
<1>2. PoolInv /\ Sized => WithinMaximum
  <2>. SUFFICES ASSUME PoolInv, Sized PROVE WithinMaximum
    OBVIOUS
  <2>1. open \ broken \subseteq pool /\ pool \subseteq Conns
    BY DEF PoolInv, TypeOK, NothingLeaked, Leaked
  <2>2. Cardinality(open \ broken) <= Cardinality(pool)
    BY <2>1, ConnsFinite, FS_Subset
  <2>3. Cardinality(open \ broken) \in Nat /\ Cardinality(pool) \in Nat
    BY <2>1, ConnsFinite
  <2>. QED
    BY <2>2, <2>3, PoolAssumption DEF Sized, WithinMaximum
<1>. QED
  BY <1>1, <1>2, PoolInvariant, SizeStep, PTL DEF Spec

\* No connection is shared, none that works is lost, and there are never too
\* many, for any number of threads.
THEOREM PoolIsSafe == Spec => []PoolSafe
BY NoSharedConnection, NoLeak, PoolBounded, PTL DEF PoolSafe

-----------------------------------------------------------------------------
(* The cache.                                                              *)
(* Induction over the natural numbers, for a set of them.                  *)
LEMMA EveryNatural ==
  ASSUME NEW S, 0 \in S, \A n \in Nat : n \in S => n + 1 \in S
  PROVE  Nat \subseteq S
<1> DEFINE T == Nat \ S
<1>1. SUFFICES ASSUME T # {} PROVE FALSE
  OBVIOUS
<1>2. IsWellFoundedOn(OpToRel(<, Nat), Nat)
  BY NatLessThanWellFounded
<1>3. PICK x \in T : \A y \in T : ~(<<y, x>> \in OpToRel(<, Nat))
  BY <1>1, <1>2, WFMin, Zenon
<1>4. x # 0 /\ x - 1 \in Nat /\ x - 1 < x
  BY SMT
<1>5. <<x - 1, x>> \in OpToRel(<, Nat)
  BY <1>4 DEF OpToRel
<1>6. x - 1 \notin T
  BY <1>3, <1>5, Zenon
<1>7. x - 1 \in S
  BY <1>4, <1>6
<1>8. x - 1 + 1 = x
  BY <1>4
<1>9. x - 1 + 1 \in S
  BY <1>4, <1>7
<1>10. QED
  BY <1>8, <1>9

(* A recursive function on 0..n whose steps stay in V exists, and its      *)
(* values are in V.                                                        *)
StaysIn(n, V, step) == \A k \in 1..n, v \in V : step[<<k, v>>] \in V
Follows(f, n, start, step) == f[0] = start /\ \A k \in 1..n : f[k] = step[<<k, f[k - 1]>>]

LEMMA Stepwise ==
  ASSUME NEW n \in Nat, NEW V, NEW start \in V, NEW step, StaysIn(n, V, step)
  PROVE  \E f \in [0..n -> V] : Follows(f, n, start, step)
<1> DEFINE Upto(m) == \E f \in [0..m -> V] :
                          f[0] = start /\ \A k \in 1..m : f[k] = step[<<k, f[k - 1]>>]
           S == {m \in Nat : m <= n => Upto(m)}
<1>1. 0 \in S
  <2> DEFINE f == [k \in 0..0 |-> start]
  <2>1. f \in [0..0 -> V] /\ f[0] = start /\ 1..0 = {}
    OBVIOUS
  <2> HIDE DEF f
  <2>2. Upto(0)
    BY <2>1
  <2>3. QED
    BY <2>2
<1>2. ASSUME NEW m \in Nat, m \in S PROVE m + 1 \in S
  <2>1. SUFFICES ASSUME m + 1 <= n PROVE Upto(m + 1)
    OBVIOUS
  <2>2. PICK f \in [0..m -> V] :
            f[0] = start /\ \A k \in 1..m : f[k] = step[<<k, f[k - 1]>>]
    BY <1>2, <2>1
  <2> DEFINE next == step[<<m + 1, f[m]>>]
             g == [k \in 0..m + 1 |-> IF k <= m THEN f[k] ELSE next]
  <2>3. next \in V
    BY <2>1, <2>2 DEF StaysIn
  <2> HIDE DEF next
  <2>4. g \in [0..m + 1 -> V]
    BY <2>2, <2>3
  <2>5. g[0] = start
    BY <2>2
  <2>6. ASSUME NEW k \in 1..m + 1 PROVE g[k] = step[<<k, g[k - 1]>>]
    <3>1. CASE k = m + 1
      <4>1. g[k] = next /\ g[k - 1] = f[m] /\ k = m + 1
        BY <3>1
      <4> HIDE DEF g
      <4>2. QED
        BY <4>1 DEF next
    <3>2. CASE k # m + 1
      <4>1. k \in 1..m /\ k - 1 \in 0..m
        BY <3>2
      <4>2. g[k] = f[k] /\ g[k - 1] = f[k - 1]
        BY <4>1
      <4> HIDE DEF g
      <4>3. QED
        BY <2>2, <4>1, <4>2
    <3>3. QED
      BY <3>1, <3>2
  <2> HIDE DEF g
  <2>7. QED
    BY <2>4, <2>5, <2>6
<1>3. Nat \subseteq S
  <2> HIDE DEF S
  <2>1. QED
    BY <1>1, <1>2, EveryNatural
<1>4. Upto(n)
  <2>1. n \in S
    BY <1>3
  <2> HIDE DEF Upto
  <2>2. QED
    BY <2>1
<1>5. QED
  BY <1>4, Zenon DEF Follows

LEMMA AsSequence ==
  ASSUME NEW n \in Nat, NEW S, NEW f \in [1..n -> S]
  PROVE  f \in Seq(S) /\ Len(f) = n
<1>1. f \in Seq(S)
  BY SeqDef
<1>2. Len(f) \in Nat /\ 1..Len(f) = 1..n
  BY <1>1, LenProperties
<1>3. QED
  BY <1>1, <1>2

(* Sums.                                                                   *)
SumsUp(sum, n, q) == sum[0] = 0 /\ \A k \in 1..n : sum[k] = sum[k - 1] + q[k]

(* A sum is what its steps add up to.                                      *)
LEMMA SumSteps ==
  ASSUME NEW n \in Nat, NEW q \in [1..n -> Int]
  PROVE  \E sum \in [0..n -> Int] : SumsUp(sum, n, q) /\ SumOf(q) = sum[n]
<1> DEFINE step == [x \in (1..n) \X Int |-> x[2] + q[x[1]]]
           Is(f) == f = [k \in 0..n |-> IF k = 0 THEN 0 ELSE f[k - 1] + q[k]]
           sum == CHOOSE f : Is(f)
<1>1. Len(q) = n
  BY AsSequence
<1>2. SumOf(q) = sum[n]
  BY <1>1 DEF SumOf
<1>3. \A k \in 1..n, v \in Int : step[<<k, v>>] = v + q[k] /\ v + q[k] \in Int
  OBVIOUS
<1> HIDE DEF step
<1>4. StaysIn(n, Int, step)
  BY <1>3, Zenon DEF StaysIn
<1>5. PICK f \in [0..n -> Int] : Follows(f, n, 0, step)
  <2>1. 0 \in Int
    OBVIOUS
  <2>2. QED
    BY <1>4, <2>1, Stepwise, Zenon
<1>6. \A k \in 1..n : k - 1 \in 0..n /\ f[k - 1] \in Int
  BY <1>5
<1>7. f[0] = 0 /\ \A k \in 1..n : f[k] = f[k - 1] + q[k]
  <2>1. f[0] = 0 /\ \A k \in 1..n : f[k] = step[<<k, f[k - 1]>>]
    BY <1>5 DEF Follows
  <2>2. QED
    BY <1>3, <1>6, <2>1, Zenon
<1>8. Is(f)
  <2>1. f = [k \in 0..n |-> f[k]]
    BY <1>5
  <2>2. \A k \in 0..n : k = 0 \/ k \in 1..n
    OBVIOUS
  <2>3. QED
    BY <1>7, <2>1, <2>2
<1>9. Is(sum)
  BY <1>8
<1>10. \A k \in 0..n : sum[k] = IF k = 0 THEN 0 ELSE sum[k - 1] + q[k]
  BY <1>9
<1>11. DOMAIN sum = 0..n
  BY <1>9
<1>12. sum = [k \in 0..n |-> sum[k]]
  BY <1>9
<1> HIDE DEF sum
<1>13. \A k \in 1..n : k \in 0..n /\ k # 0
  OBVIOUS
<1>14. SumsUp(sum, n, q)
  BY <1>10, <1>13 DEF SumsUp
<1> DEFINE T == {k \in Nat : k <= n => sum[k] \in Int}
<1>15. 0 \in T
  BY <1>10
<1>16. ASSUME NEW k \in Nat, k \in T PROVE k + 1 \in T
  <2>1. SUFFICES ASSUME k + 1 <= n PROVE sum[k + 1] \in Int
    OBVIOUS
  <2>2. k + 1 \in 1..n /\ k + 1 - 1 = k /\ sum[k] \in Int
    BY <1>16, <2>1
  <2>3. sum[k + 1] = sum[k] + q[k + 1] /\ q[k + 1] \in Int
    BY <1>14, <2>2 DEF SumsUp
  <2>4. QED
    BY <2>2, <2>3
<1> HIDE DEF T
<1>17. Nat \subseteq T
  BY <1>15, <1>16, EveryNatural
<1>18. sum \in [0..n -> Int]
  BY <1>12, <1>17 DEF T
<1>19. QED
  BY <1>2, <1>14, <1>18

LEMMA SumTyped ==
  ASSUME NEW n \in Nat, NEW q \in [1..n -> Nat]
  PROVE  SumOf(q) \in Nat
<1>1. q \in [1..n -> Int]
  OBVIOUS
<1>2. PICK f \in [0..n -> Int] : SumsUp(f, n, q) /\ SumOf(q) = f[n]
  BY <1>1, SumSteps
<1> DEFINE T == {k \in Nat : k <= n => f[k] \in Nat}
<1>3. 0 \in T
  BY <1>2 DEF SumsUp
<1>4. ASSUME NEW k \in Nat, k \in T PROVE k + 1 \in T
  <2>1. SUFFICES ASSUME k + 1 <= n PROVE f[k + 1] \in Nat
    OBVIOUS
  <2>2. k + 1 \in 1..n /\ k + 1 - 1 = k /\ f[k] \in Nat
    BY <1>4, <2>1
  <2>3. f[k + 1] = f[k] + q[k + 1] /\ q[k + 1] \in Nat
    BY <1>2, <2>2 DEF SumsUp
  <2>4. QED
    BY <2>2, <2>3
<1> HIDE DEF T
<1>5. Nat \subseteq T
  BY <1>3, <1>4, EveryNatural
<1>6. QED
  BY <1>2, <1>5 DEF T

(* What the sum of the first m places is does not depend on the rest.      *)
Alike(q, r, m) == \A k \in 1..m : r[k] = q[k]
Meet(f, g, m) == g[m] = f[m]

LEMMA SumsAgree ==
  ASSUME NEW n \in Nat, NEW o \in Nat, NEW m \in Nat, m <= n, m <= o,
         NEW q, NEW r, NEW f, NEW g,
         SumsUp(f, n, q), SumsUp(g, o, r), Alike(q, r, m)
  PROVE  Meet(f, g, m)
<1> DEFINE T == {k \in Nat : k <= m => g[k] = f[k]}
<1>1. 0 \in T
  BY DEF SumsUp
<1>2. ASSUME NEW k \in Nat, k \in T PROVE k + 1 \in T
  <2>1. SUFFICES ASSUME k + 1 <= m PROVE g[k + 1] = f[k + 1]
    OBVIOUS
  <2>2. k + 1 \in 1..n /\ k + 1 \in 1..o /\ k + 1 \in 1..m /\ k + 1 - 1 = k /\ g[k] = f[k]
    BY <1>2, <2>1
  <2>3. f[k + 1] = f[k] + q[k + 1] /\ g[k + 1] = g[k] + r[k + 1]
    BY <2>2 DEF SumsUp
  <2>4. r[k + 1] = q[k + 1]
    BY <2>2 DEF Alike
  <2>5. QED
    BY <2>2, <2>3, <2>4
<1> HIDE DEF T
<1>3. Nat \subseteq T
  BY <1>1, <1>2, EveryNatural
<1>4. QED
  BY <1>3 DEF T, Meet

LEMMA SumAppended ==
  ASSUME NEW n \in Nat, NEW o \in Nat, o = n + 1,
         NEW q \in [1..n -> Nat], NEW r \in [1..o -> Nat], Alike(q, r, n)
  PROVE  SumOf(r) = SumOf(q) + r[o]
<1>1. q \in [1..n -> Int] /\ r \in [1..o -> Int]
  OBVIOUS
<1>2. PICK f \in [0..n -> Int] : SumsUp(f, n, q) /\ SumOf(q) = f[n]
  BY <1>1, SumSteps
<1>3. PICK g \in [0..o -> Int] : SumsUp(g, o, r) /\ SumOf(r) = g[o]
  BY <1>1, SumSteps
<1>4. g[n] = f[n]
  <2>1. n <= n /\ n <= o
    OBVIOUS
  <2>2. Meet(f, g, n)
    BY <1>2, <1>3, <2>1, SumsAgree
  <2>3. QED
    BY <2>2 DEF Meet
<1>5. o \in 1..o /\ o - 1 = n
  OBVIOUS
<1>6. g[o] = g[n] + r[o]
  BY <1>3, <1>5 DEF SumsUp
<1>7. QED
  BY <1>2, <1>3, <1>4, <1>6

(* Without the place m the sum is less by what was there.                  *)
Skips(q, r, m, n, o) ==
    /\ n \in Nat /\ m \in 1..n /\ o \in Nat /\ o = n - 1
    /\ q \in [1..n -> Nat] /\ r \in [1..o -> Nat]
    /\ \A k \in 1..o : r[k] = q[IF k < m THEN k ELSE k + 1]

LEMMA SumWithout ==
  ASSUME NEW n, NEW o, NEW m, NEW q, NEW r, Skips(q, r, m, n, o)
  PROVE  SumOf(r) = SumOf(q) - q[m]
<1>. /\ n \in Nat /\ m \in 1..n /\ o \in Nat /\ o = n - 1
     /\ q \in [1..n -> Nat] /\ r \in [1..o -> Nat]
  BY DEF Skips
<1>1. q \in [1..n -> Int] /\ r \in [1..o -> Int]
  OBVIOUS
<1>2. PICK f \in [0..n -> Int] : SumsUp(f, n, q) /\ SumOf(q) = f[n]
  BY <1>1, SumSteps
<1>3. PICK g \in [0..o -> Int] : SumsUp(g, o, r) /\ SumOf(r) = g[o]
  BY <1>1, SumSteps
<1>4. g[m - 1] = f[m - 1]
  <2>1. PICK p \in Nat : p = m - 1
    OBVIOUS
  <2>2. p <= n /\ p <= o /\ \A k \in 1..p : k < m /\ k \in 1..o
    BY <2>1
  <2>3. Alike(q, r, p)
    BY <2>2 DEF Alike, Skips
  <2>4. Meet(f, g, p)
    BY <1>2, <1>3, <2>2, <2>3, SumsAgree
  <2>5. QED
    BY <2>1, <2>4 DEF Meet
<1> DEFINE T == {k \in Nat : m + k <= n => g[m + k - 1] = f[m + k] - q[m]}
<1>5. 0 \in T
  <2>1. f[m] = f[m - 1] + q[m] /\ m - 1 \in 0..n /\ f[m - 1] \in Int /\ q[m] \in Int
    BY <1>2 DEF SumsUp
  <2>2. g[m - 1] = f[m] - q[m] /\ m + 0 = m
    BY <1>4, <2>1
  <2>3. QED
    BY <2>2
<1>6. ASSUME NEW k \in Nat, k \in T PROVE k + 1 \in T
  <2>1. SUFFICES ASSUME m + (k + 1) <= n PROVE g[m + (k + 1) - 1] = f[m + (k + 1)] - q[m]
    OBVIOUS
  <2>2. PICK j \in 1..o : j = m + k
    BY <2>1
  <2>3. /\ m + (k + 1) = j + 1 /\ m + (k + 1) - 1 = j /\ m + k - 1 = j - 1 /\ ~(j < m)
        /\ j + 1 \in 1..n /\ j + 1 - 1 = j /\ j \in 0..n /\ j - 1 \in 0..o
    BY <2>2
  <2>4. g[j - 1] = f[j] - q[m]
    BY <1>6, <2>1, <2>2, <2>3
  <2>5. f[j + 1] = f[j] + q[j + 1]
    BY <1>2, <2>3 DEF SumsUp
  <2>6. g[j] = g[j - 1] + r[j] /\ r[j] = q[j + 1]
    BY <1>3, <2>2, <2>3 DEF SumsUp, Skips
  <2>7. f[j] \in Int /\ q[j + 1] \in Int /\ q[m] \in Int
    BY <2>3
  <2>8. (f[j] - q[m]) + q[j + 1] = (f[j] + q[j + 1]) - q[m]
    <3>1. \A a, b, c \in Int : (a - b) + c = (a + c) - b
      OBVIOUS
    <3>2. QED
      BY <2>7, <3>1
  <2>9. g[j] = f[j + 1] - q[m]
    BY <2>4, <2>5, <2>6, <2>8
  <2>10. QED
    BY <2>3, <2>9
<1> HIDE DEF T
<1>7. Nat \subseteq T
  BY <1>5, <1>6, EveryNatural
<1>8. n - m \in Nat /\ m + (n - m) = n
  OBVIOUS
<1>9. g[o] = f[n] - q[m]
  <2>1. n - m \in T
    BY <1>7, <1>8
  <2>2. m + (n - m) <= n => g[m + (n - m) - 1] = f[m + (n - m)] - q[m]
    BY <2>1 DEF T
  <2>3. QED
    BY <1>8, <2>2
<1>10. QED
  BY <1>2, <1>3, <1>9

-----------------------------------------------------------------------------
(* Removing from sequences.                                                *)
Removal(t, s, m) ==
    /\ m \in 1..Len(s) /\ Len(t) = Len(s) - 1
    /\ \A j \in 1..Len(s) - 1 : t[j] = s[IF j < m THEN j ELSE j + 1]

LEMMA RemovedAt ==
  ASSUME NEW S, NEW s \in Seq(S), NEW m \in 1..Len(s)
  PROVE  RemoveAt(s, m) \in Seq(S) /\ Removal(RemoveAt(s, m), s, m)
<1> DEFINE t == RemoveAt(s, m)
           n == Len(s)
           u == SubSeq(s, 1, m - 1)
           v == SubSeq(s, m + 1, n)
<1>1. n \in Nat /\ m \in 1..n /\ DOMAIN s = 1..n
  BY LenProperties
<1>2. u \in Seq(S) /\ Len(u) = m - 1 /\ \A j \in 1..(m - 1) : u[j] = s[j]
  BY <1>1
<1>3. v \in Seq(S) /\ Len(v) = n - m /\ \A j \in 1..(n - m) : v[j] = s[m + j]
  <2>1. v \in Seq(S)
    BY <1>1
  <2>2. Len(v) = n - m
    <3>1. m + 1 \in 1..n + 1 /\ n \in 0..n /\ m + 1 <= n + 1
      BY <1>1
    <3>2. Len(v) = IF m + 1 <= n THEN n - (m + 1) + 1 ELSE 0
      BY <1>1, <3>1
    <3> HIDE DEF n, v
    <3>3. QED
      BY <1>1, <3>2
  <2>3. \A j \in 1..(n - m) : v[j] = s[m + j]
    BY <1>1
  <2>4. QED
    BY <2>1, <2>2, <2>3
<1>4. t = u \o v
  BY DEF RemoveAt
<1> HIDE DEF u, v, t
<1>5. t \in Seq(S) /\ Len(t) = n - 1
  <2>1. t \in Seq(S) /\ Len(t) = Len(u) + Len(v)
    BY <1>2, <1>3, <1>4, ConcatProperties
  <2>2. QED
    BY <1>1, <1>2, <1>3, <2>1
<1>6. ASSUME NEW j \in 1..n - 1 PROVE t[j] = s[IF j < m THEN j ELSE j + 1]
  <2>1. CASE j < m
    <3>1. j \in 1..m - 1 /\ t[j] = u[j]
      BY <1>1, <1>2, <1>3, <1>4, <2>1
    <3>2. QED
      BY <1>2, <2>1, <3>1
  <2>2. CASE ~(j < m)
    <3>1. j - (m - 1) \in 1..(n - m) /\ m + (j - (m - 1)) = j + 1
      BY <1>1, <2>2
    <3>2. t[j] = v[j - (m - 1)]
      BY <1>1, <1>2, <1>3, <1>4, <2>2
    <3>3. QED
      BY <1>3, <2>2, <3>1, <3>2
  <2>3. QED
    BY <2>1, <2>2
<1>7. QED
  BY <1>1, <1>5, <1>6 DEF Removal, t

LEMMA LeastOne ==
  ASSUME NEW I, I \subseteq Nat, I # {}
  PROVE  Min(I) \in I
<1>1. IsWellFoundedOn(OpToRel(<, Nat), Nat)
  BY NatLessThanWellFounded
<1>2. PICK x \in I : \A y \in I : ~(<<y, x>> \in OpToRel(<, Nat))
  BY <1>1, WFMin, Zenon
<1>3. \A y \in I : ~(y < x)
  BY <1>2 DEF OpToRel
<1>4. \A y \in I : x <= y
  BY <1>3, SMT
<1>5. QED
  BY <1>4 DEF Min

(* A key that is in a sequence goes from it, from where it is.             *)
LEMMA KeyRemoved ==
  ASSUME NEW S, NEW s \in Seq(S), NEW k, k \in ToSet(s)
  PROVE  \E m \in 1..Len(s) : /\ s[m] = k /\ RemoveFirst(s, k) \in Seq(S)
                              /\ Removal(RemoveFirst(s, k), s, m)
<1> DEFINE I == {i \in 1..Len(s) : s[i] = k}
<1>1. DOMAIN s = 1..Len(s) /\ Len(s) \in Nat
  BY LenProperties
<1>2. I # {} /\ I \subseteq Nat
  BY <1>1 DEF ToSet
<1> HIDE DEF I
<1>3. Min(I) \in I
  BY <1>2, LeastOne
<1>4. \E i \in 1..Len(s) : s[i] = k
  BY <1>2 DEF I
<1>5. SelectInSeq(s, LAMBDA v : v = k) = Min(I)
  BY <1>2 DEF SelectInSeq, I
<1>6. RemoveFirst(s, k) = RemoveAt(s, Min(I))
  BY <1>4, <1>5 DEF RemoveFirst
<1>7. Min(I) \in 1..Len(s) /\ s[Min(I)] = k
  BY <1>3 DEF I
<1>8. QED
  BY <1>6, <1>7, RemovedAt

LEMMA KeyAbsent ==
  ASSUME NEW S, NEW s \in Seq(S), NEW k, k \notin ToSet(s)
  PROVE  RemoveFirst(s, k) = s
<1>1. DOMAIN s = 1..Len(s)
  BY LenProperties
<1>2. ~\E i \in 1..Len(s) : s[i] = k
  BY <1>1 DEF ToSet
<1>3. QED
  BY <1>2 DEF RemoveFirst

(* A sequence that holds each of some keys once holds the others once when *)
(* one is removed.                                                         *)
Lists(s, K) == ToSet(s) = K /\ IsInjective(s)

LEMMA ListsRest ==
  ASSUME NEW S, NEW s \in Seq(S), NEW K, Lists(s, K), NEW k
  PROVE  RemoveFirst(s, k) \in Seq(S) /\ Lists(RemoveFirst(s, k), K \ {k})
<1>1. DOMAIN s = 1..Len(s) /\ Len(s) \in Nat
  BY LenProperties
<1>2. CASE k \notin K
  <2>1. K \ {k} = K
    BY <1>2
  <2>2. RemoveFirst(s, k) = s
    BY <1>2, KeyAbsent DEF Lists
  <2>3. QED
    BY <2>1, <2>2
<1>3. CASE k \in K
  <2> DEFINE t == RemoveFirst(s, k)
             n == Len(s)
  <2>1. PICK m \in 1..n : s[m] = k /\ t \in Seq(S) /\ Removal(t, s, m)
    BY <1>3, KeyRemoved DEF Lists
  <2> DEFINE was == [j \in 1..n - 1 |-> IF j < m THEN j ELSE j + 1]
  <2>2. \A j \in 1..n - 1 : was[j] \in 1..n /\ was[j] # m
    BY <1>1, <2>1
  <2>3. \A i, j \in 1..n - 1 : was[i] = was[j] => i = j
    BY <1>1, <2>1
  <2>4. \A i \in 1..n : i # m => \E j \in 1..n - 1 : was[j] = i
    <3>1. TAKE i \in 1..n
    <3>2. CASE i < m
      <4>1. i \in 1..n - 1 /\ was[i] = i
        BY <1>1, <3>2
      <4>2. QED
        BY <4>1
    <3>3. CASE i > m
      <4>1. i - 1 \in 1..n - 1 /\ was[i - 1] = i
        BY <1>1, <3>3
      <4>2. QED
        BY <4>1
    <3>4. QED
      BY <1>1, <3>2, <3>3
  <2>5. \A j \in 1..n - 1 : t[j] = s[was[j]]
    BY <2>1 DEF Removal
  <2>6. DOMAIN t = 1..n - 1
    BY <1>1, <2>1, LenProperties DEF Removal
  <2> HIDE DEF was, t, n
  <2>7. \A i, j \in 1..n : s[i] = s[j] => i = j
    BY <1>1 DEF Lists, IsInjective, n
  <2>8. IsInjective(t)
    BY <2>2, <2>3, <2>5, <2>6, <2>7 DEF IsInjective
  <2>9. \A i \in 1..n : s[i] \in K
    BY <1>1 DEF Lists, ToSet, n
  <2>10. \A x \in K : \E i \in 1..n : s[i] = x
    BY <1>1 DEF Lists, ToSet, n
  <2>11. ToSet(t) = {t[j] : j \in 1..n - 1}
    BY <2>6 DEF ToSet
  <2>12. ASSUME NEW j \in 1..n - 1 PROVE t[j] \in K \ {k}
    BY <2>1, <2>2, <2>5, <2>7, <2>9
  <2>13. ASSUME NEW x \in K \ {k} PROVE \E j \in 1..n - 1 : t[j] = x
    <3>1. PICK i \in 1..n : s[i] = x
      BY <2>10
    <3>2. i # m
      BY <2>1, <3>1
    <3>3. PICK j \in 1..n - 1 : was[j] = i
      BY <2>4, <3>2
    <3>4. QED
      BY <2>5, <3>1, <3>3
  <2>14. ToSet(t) = K \ {k}
    BY <2>11, <2>12, <2>13
  <2>15. QED
    BY <2>1, <2>8, <2>14 DEF Lists, t
<1>4. QED
  BY <1>2, <1>3

Weights(f, s) == [i \in 1..Len(s) |-> f[s[i]]]
Weight(f, s) == SumOf(Weights(f, s))

LEMMA WeightTyped ==
  ASSUME NEW S, NEW s \in Seq(S), NEW K, ToSet(s) \subseteq K, NEW f \in [K -> Nat]
  PROVE  Weights(f, s) \in [1..Len(s) -> Nat] /\ Weight(f, s) \in Nat
<1>1. DOMAIN s = 1..Len(s) /\ Len(s) \in Nat
  BY LenProperties
<1>2. \A i \in 1..Len(s) : s[i] \in K
  BY <1>1 DEF ToSet
<1>3. Weights(f, s) \in [1..Len(s) -> Nat]
  BY <1>2 DEF Weights
<1>4. QED
  BY <1>1, <1>3, SumTyped DEF Weight

Narrows(g, f, R) == g \in [R -> Nat] /\ \A x \in R : g[x] = f[x]

LEMMA WeightWithout ==
  ASSUME NEW S, NEW s \in Seq(S), NEW K, Lists(s, K), NEW f \in [K -> Nat],
         NEW k \in K, NEW R, R = K \ {k}, NEW g, Narrows(g, f, R), NEW c, c = f[k]
  PROVE  Weight(g, RemoveFirst(s, k)) = Weight(f, s) - c
<1> DEFINE t == RemoveFirst(s, k)
           n == Len(s)
           q == Weights(f, s)
           r == Weights(g, t)
<1>1. DOMAIN s = 1..n /\ n \in Nat
  BY LenProperties
<1>2. PICK m \in 1..n : s[m] = k /\ t \in Seq(S) /\ Removal(t, s, m)
  BY KeyRemoved DEF Lists
<1>3. Lists(t, R) /\ g \in [R -> Nat] /\ ToSet(t) \subseteq R
  <2>1. Lists(t, K \ {k})
    BY ListsRest
  <2>2. QED
    BY <2>1 DEF Lists, Narrows
<1>4. q \in [1..n -> Nat] /\ Weight(f, s) = SumOf(q)
  BY WeightTyped DEF Lists, Weight
<1>5. r \in [1..Len(t) -> Nat] /\ Weight(g, t) = SumOf(r)
  <2>1. t \in Seq(S)
    BY <1>2
  <2> HIDE DEF t
  <2>2. r \in [1..Len(t) -> Nat]
    BY <1>3, <2>1, WeightTyped
  <2>3. QED
    BY <2>2 DEF Weight
<1>6. Len(t) \in Nat /\ Len(t) = n - 1
  BY <1>1, <1>2, LenProperties DEF Removal
<1>7. DOMAIN t = 1..Len(t)
  BY <1>2, LenProperties
<1>8. ASSUME NEW i \in 1..Len(t) PROVE r[i] = q[IF i < m THEN i ELSE i + 1]
  <2>1. PICK j \in 1..n : j = IF i < m THEN i ELSE i + 1
    BY <1>1, <1>2, <1>6
  <2>2. t[i] = s[j]
    BY <1>2, <1>6, <2>1 DEF Removal
  <2>3. t[i] \in R /\ g[t[i]] = f[t[i]]
    BY <1>3, <1>7 DEF Lists, ToSet, Narrows
  <2>4. r[i] = g[t[i]] /\ q[j] = f[s[j]]
    BY DEF Weights
  <2> HIDE DEF r, q, t, n
  <2>5. r[i] = q[j]
    BY <2>2, <2>3, <2>4
  <2>6. QED
    BY <2>1, <2>5
<1>9. q[m] = f[k]
  BY <1>2 DEF Weights
<1> HIDE DEF q, r, t, n
<1>10. PICK o \in Nat : o = Len(t)
  BY <1>6
<1>11. SumOf(r) = SumOf(q) - q[m]
  <2>1. n \in Nat /\ m \in 1..n /\ o = n - 1 /\ q \in [1..n -> Nat] /\ r \in [1..o -> Nat]
    BY <1>1, <1>4, <1>5, <1>6, <1>10
  <2>2. Skips(q, r, m, n, o)
    BY <1>5, <1>6, <1>8, <1>10, <2>1 DEF Skips
  <2>3. QED
    BY <2>2, SumWithout
<1>12. QED
  BY <1>4, <1>5, <1>9, <1>11 DEF t

Widens(g, f, K, R, k, c) ==
    R = K \cup {k} /\ k \notin K /\ g \in [R -> Nat] /\ Narrows(f, g, K) /\ g[k] = c

LEMMA WeightAppended ==
  ASSUME NEW S, NEW s \in Seq(S), NEW K, Lists(s, K), NEW k \in S,
         NEW f, NEW g, NEW R, NEW c, Widens(g, f, K, R, k, c)
  PROVE  /\ Append(s, k) \in Seq(S) /\ Lists(Append(s, k), R)
         /\ Weight(g, Append(s, k)) = Weight(f, s) + c
<1> DEFINE t == Append(s, k)
           n == Len(s)
           q == Weights(f, s)
           r == Weights(g, t)
<1>13. /\ R = K \cup {k} /\ k \notin K /\ f \in [K -> Nat] /\ g \in [R -> Nat]
       /\ Narrows(f, g, K) /\ g[k] = c
  BY DEF Widens, Narrows
<1>1. DOMAIN s = 1..n /\ n \in Nat
  BY LenProperties
<1>2. t \in Seq(S) /\ Len(t) = n + 1 /\ t[n + 1] = k /\ \A i \in 1..n : t[i] = s[i]
  BY AppendProperties
<1>3. DOMAIN t = 1..n + 1
  BY <1>2, LenProperties
<1> HIDE DEF t
<1>4. Lists(t, R)
  <2>1. \A i \in 1..n : s[i] \in K
    BY <1>1 DEF Lists, ToSet
  <2>2. \A i \in 1..n + 1 : i \in 1..n \/ i = n + 1
    BY <1>1
  <2>3. \A x \in K : \E i \in 1..n : s[i] = x
    BY <1>1 DEF Lists, ToSet
  <2>4. \A i, j \in 1..n : s[i] = s[j] => i = j
    BY <1>1 DEF Lists, IsInjective
  <2>5. n + 1 \in 1..n + 1 /\ \A i \in 1..n : i \in 1..n + 1
    BY <1>1
  <2> HIDE DEF n
  <2>6. ToSet(t) = K \cup {k}
    <3>1. ToSet(t) = {t[i] : i \in 1..n + 1}
      BY <1>3 DEF ToSet
    <3>2. \A i \in 1..n + 1 : t[i] \in K \cup {k}
      BY <1>2, <2>1, <2>2
    <3>3. ASSUME NEW x \in K \cup {k} PROVE \E i \in 1..n + 1 : t[i] = x
      <4>1. CASE x = k
        BY <1>2, <2>5, <4>1
      <4>2. CASE x # k
        <5>1. PICK i \in 1..n : s[i] = x
          BY <2>3, <4>2
        <5>2. QED
          BY <1>2, <2>5, <5>1
      <4>3. QED
        BY <4>1, <4>2
    <3>4. QED
      BY <1>13, <3>1, <3>2, <3>3
  <2>7. \A i, j \in 1..n + 1 : t[i] = t[j] => i = j
    <3>1. TAKE i, j \in 1..n + 1
    <3>2. CASE i \in 1..n /\ j \in 1..n
      BY <1>2, <2>4, <3>2
    <3>3. CASE i = n + 1 /\ j \in 1..n
      BY <1>2, <1>13, <2>1, <3>3
    <3>4. CASE i \in 1..n /\ j = n + 1
      BY <1>2, <1>13, <2>1, <3>4
    <3>5. QED
      BY <2>2, <3>2, <3>3, <3>4
  <2>8. IsInjective(t)
    BY <1>3, <2>7 DEF IsInjective
  <2>9. QED
    BY <1>13, <2>6, <2>8 DEF Lists
<1>5. q \in [1..n -> Nat] /\ Weight(f, s) = SumOf(q)
  BY <1>13, WeightTyped DEF Lists, Weight
<1>6. r \in [1..Len(t) -> Nat] /\ Weight(g, t) = SumOf(r)
  <2>1. ToSet(t) \subseteq R /\ t \in Seq(S)
    BY <1>2, <1>4 DEF Lists
  <2>2. r \in [1..Len(t) -> Nat]
    BY <1>13, <2>1, WeightTyped
  <2>3. QED
    BY <2>2 DEF Weight
<1>7. PICK o \in Nat : o = n + 1
  BY <1>1
<1>8. ASSUME NEW i \in 1..n PROVE r[i] = q[i]
  <2>1. s[i] \in K /\ i \in 1..Len(t)
    BY <1>1, <1>2 DEF Lists, ToSet
  <2>2. g[s[i]] = f[s[i]]
    BY <1>13, <2>1 DEF Narrows
  <2>3. QED
    BY <1>2, <2>1, <2>2 DEF Weights
<1>9. r[o] = c
  BY <1>1, <1>2, <1>7, <1>13 DEF Weights
<1>10. r \in [1..o -> Nat]
  BY <1>2, <1>6, <1>7
<1> HIDE DEF q, r, n
<1>11. SumOf(r) = SumOf(q) + r[o]
  <2>1. Alike(q, r, n)
    BY <1>8 DEF Alike
  <2>2. QED
    BY <1>1, <1>5, <1>7, <1>10, <2>1, SumAppended
<1>12. QED
  BY <1>2, <1>4, <1>5, <1>6, <1>9, <1>11 DEF t

-----------------------------------------------------------------------------
(* The index of the disk.                                                  *)
Entries == [key : Coordinates, size : Contents]

LEMMA SizeTyped == ASSUME NEW s \in Seq(Entries) PROVE SizeOnDisk(s) \in Nat
<1>1. DOMAIN s = 1..Len(s) /\ Len(s) \in Nat /\ \A i \in 1..Len(s) : s[i] \in Entries
  BY LenProperties, ElementOfSeq
<1>2. [i \in 1..Len(s) |-> s[i].size] \in [1..Len(s) -> Nat]
  BY <1>1, StoreAssumption DEF Entries
<1>3. QED
  BY <1>1, <1>2, SumTyped DEF SizeOnDisk

LEMMA SizeWithout ==
  ASSUME NEW s \in Seq(Entries), NEW t \in Seq(Entries), NEW m, Removal(t, s, m)
  PROVE  SizeOnDisk(t) = SizeOnDisk(s) - s[m].size
<1>1. /\ Len(s) \in Nat /\ \A i \in 1..Len(s) : s[i] \in Entries
      /\ Len(t) \in Nat /\ \A i \in 1..Len(t) : t[i] \in Entries
  BY LenProperties, ElementOfSeq
<1>2. m \in 1..Len(s) /\ Len(t) = Len(s) - 1
  BY DEF Removal
<1> DEFINE q == [i \in 1..Len(s) |-> s[i].size]
           r == [i \in 1..Len(t) |-> t[i].size]
<1>3. q \in [1..Len(s) -> Nat] /\ r \in [1..Len(t) -> Nat]
  BY <1>1, StoreAssumption DEF Entries
<1>4. ASSUME NEW i \in 1..Len(t) PROVE r[i] = q[IF i < m THEN i ELSE i + 1]
  <2>1. PICK j \in 1..Len(s) : j = IF i < m THEN i ELSE i + 1
    BY <1>1, <1>2
  <2>2. t[i] = s[j]
    BY <1>2, <2>1 DEF Removal
  <2>3. QED
    BY <2>1, <2>2
<1>5. q[m] = s[m].size
  BY <1>2
<1> HIDE DEF q, r
<1>6. SumOf(r) = SumOf(q) - q[m]
  <2>1. PICK o \in Nat : o = Len(t)
    BY <1>1
  <2>2. PICK n \in Nat : n = Len(s)
    BY <1>1
  <2>3. PICK a, b : a = q /\ b = r
    OBVIOUS
  <2>4. a \in [1..n -> Nat] /\ m \in 1..n /\ o = n - 1 /\ b \in [1..o -> Nat]
    BY <1>2, <1>3, <2>1, <2>2, <2>3
  <2>5. Skips(a, b, m, n, o)
    BY <1>4, <2>1, <2>2, <2>3, <2>4 DEF Skips
  <2>6. SumOf(b) = SumOf(a) - a[m]
    BY <2>5, SumWithout
  <2>7. QED
    BY <2>3, <2>6
<1>7. QED
  BY <1>5, <1>6 DEF SizeOnDisk, q, r

LEMMA SizeAppended ==
  ASSUME NEW s \in Seq(Entries), NEW e \in Entries
  PROVE  Append(s, e) \in Seq(Entries) /\ SizeOnDisk(Append(s, e)) = SizeOnDisk(s) + e.size
<1> DEFINE t == Append(s, e)
           n == Len(s)
           q == [i \in 1..n |-> s[i].size]
           r == [i \in 1..Len(t) |-> t[i].size]
<1>1. n \in Nat /\ \A i \in 1..n : s[i] \in Entries
  BY LenProperties, ElementOfSeq
<1>2. t \in Seq(Entries) /\ Len(t) = n + 1 /\ t[n + 1] = e /\ \A i \in 1..n : t[i] = s[i]
  BY AppendProperties
<1> HIDE DEF t
<1>3. \A i \in 1..Len(t) : t[i] \in Entries
  BY <1>2, ElementOfSeq
<1>4. PICK o \in Nat : o = n + 1
  BY <1>1
<1>5. q \in [1..n -> Nat] /\ r \in [1..o -> Nat]
  BY <1>1, <1>2, <1>3, <1>4, StoreAssumption DEF Entries
<1>6. Alike(q, r, n)
  BY <1>1, <1>2 DEF Alike
<1>7. r[o] = e.size
  BY <1>1, <1>2, <1>4
<1>8. SizeOnDisk(s) = SumOf(q) /\ SizeOnDisk(t) = SumOf(r)
  BY DEF SizeOnDisk
<1> HIDE DEF q, r, n
<1>9. SumOf(r) = SumOf(q) + r[o]
  BY <1>1, <1>4, <1>5, <1>6, SumAppended
<1>10. QED
  BY <1>2, <1>7, <1>8, <1>9 DEF t

(* Without a key, the index is less by the entry that Entry finds.         *)
LEMMA EntryRemoved ==
  ASSUME NEW s \in Seq(Entries), NEW k, k \in KeysOf(s)
  PROVE  \E m \in 1..Len(s) : /\ SelectInSeq(s, LAMBDA e : e.key = k) = m
                              /\ Without(s, k) \in Seq(Entries)
                              /\ Removal(Without(s, k), s, m)
<1> DEFINE I == {i \in 1..Len(s) : s[i].key = k}
<1>1. DOMAIN s = 1..Len(s) /\ Len(s) \in Nat
  BY LenProperties
<1>2. I # {} /\ I \subseteq Nat
  BY <1>1 DEF KeysOf, ToSet
<1> HIDE DEF I
<1>3. Min(I) \in I
  BY <1>2, LeastOne
<1>4. \E i \in 1..Len(s) : s[i].key = k
  BY <1>2 DEF I
<1>5. SelectInSeq(s, LAMBDA e : e.key = k) = Min(I)
  BY <1>2 DEF SelectInSeq, I
<1>6. Without(s, k) = RemoveAt(s, Min(I))
  BY <1>4, <1>5 DEF Without, RemoveFirstMatch
<1>7. Min(I) \in 1..Len(s)
  BY <1>3 DEF I
<1>8. QED
  BY <1>5, <1>6, <1>7, RemovedAt

LEMMA EntryAbsent ==
  ASSUME NEW s \in Seq(Entries), NEW k, k \notin KeysOf(s)
  PROVE  Without(s, k) = s
<1>1. DOMAIN s = 1..Len(s)
  BY LenProperties
<1>2. ~\E i \in 1..Len(s) : s[i].key = k
  BY <1>1 DEF KeysOf, ToSet
<1>3. QED
  BY <1>2 DEF Without, RemoveFirstMatch

LEMMA IndexWithout ==
  ASSUME NEW s \in Seq(Entries), NEW k
  PROVE  /\ Without(s, k) \in Seq(Entries) /\ Len(Without(s, k)) <= Len(s)
         /\ SizeOnDisk(Without(s, k)) <= SizeOnDisk(s)
<1>1. CASE k \notin KeysOf(s)
  BY <1>1, EntryAbsent, LenProperties, SizeTyped
<1>2. CASE k \in KeysOf(s)
  <2>1. PICK m \in 1..Len(s) : Without(s, k) \in Seq(Entries) /\ Removal(Without(s, k), s, m)
    BY <1>2, EntryRemoved
  <2>2. s[m].size \in Nat
    <3>1. s[m] \in Entries
      BY LenProperties, ElementOfSeq
    <3>2. QED
      BY <3>1, StoreAssumption DEF Entries
  <2>3. SizeOnDisk(Without(s, k)) = SizeOnDisk(s) - s[m].size
    BY <2>1, SizeWithout
  <2>4. Len(Without(s, k)) = Len(s) - 1 /\ Len(s) \in Nat
    BY <2>1, LenProperties DEF Removal
  <2>5. SizeOnDisk(s) \in Nat
    BY SizeTyped
  <2>6. QED
    BY <2>1, <2>2, <2>3, <2>4, <2>5
<1>3. QED
  BY <1>1, <1>2

LEMMA IndexTail ==
  ASSUME NEW s \in Seq(Entries), s # <<>>
  PROVE  /\ Tail(s) \in Seq(Entries) /\ Len(Tail(s)) = Len(s) - 1 /\ Head(s) \in Entries
         /\ SizeOnDisk(Tail(s)) = SizeOnDisk(s) - Head(s).size
<1>1. /\ Tail(s) \in Seq(Entries) /\ Len(Tail(s)) = Len(s) - 1 /\ Len(s) \in Nat /\ Len(s) >= 1
      /\ Head(s) \in Entries /\ Head(s) = s[1]
      /\ \A i \in 1..Len(Tail(s)) : Tail(s)[i] = s[i + 1]
  BY HeadTailProperties, EmptySeq, LenProperties
<1>2. Removal(Tail(s), s, 1)
  BY <1>1 DEF Removal
<1>3. SizeOnDisk(Tail(s)) = SizeOnDisk(s) - s[1].size
  BY <1>1, <1>2, SizeWithout
<1>4. QED
  BY <1>1, <1>3

-----------------------------------------------------------------------------
(* Memory.  What is there is listed, counted and weighed as it is, within  *)
(* the limits, and was put there.                                          *)
CacheEntries == [content : Contents, count : Nat, dirty : BOOLEAN]
Under(put, k, c) == \E p \in put : Parsed(p[1]) = Parsed(k) /\ p[2] = c
Few(m) == \E limit \in Limits : Cardinality(DOMAIN m) <= limit
Bytes(m) == [k \in DOMAIN m |-> m[k].content]

MemorySound(m, order, made, bytes, put) ==
    /\ IsFiniteSet(DOMAIN m) /\ DOMAIN m \subseteq Coordinates
    /\ m \in [DOMAIN m -> CacheEntries]
    /\ order \in Seq(Coordinates) /\ Lists(order, DOMAIN m)
    /\ made \in Seq(Coordinates) /\ Lists(made, DOMAIN m)
    /\ bytes = Weight(Bytes(m), made)
    /\ bytes <= max_memory_size_bytes /\ Few(m)
    /\ \A k \in DOMAIN m : Under(put, k, m[k].content)

LEMMA BytesTyped ==
  ASSUME NEW m, m \in [DOMAIN m -> CacheEntries]
  PROVE  Bytes(m) \in [DOMAIN m -> Nat]
<1>1. \A k \in DOMAIN m : m[k].content \in Nat
  <2>1. TAKE k \in DOMAIN m
  <2>2. m[k] \in CacheEntries
    OBVIOUS
  <2>3. QED
    BY <2>2, StoreAssumption DEF CacheEntries
<1>2. QED
  BY <1>1 DEF Bytes

LEMMA NothingListed ==
  /\ <<>> \in Seq(Coordinates) /\ Lists(<<>>, {}) /\ DOMAIN <<>> = {}
  /\ SumOf([i \in 1..0 |-> 0]) = 0
<1>1. <<>> \in Seq(Coordinates) /\ DOMAIN <<>> = {}
  OBVIOUS
<1>2. Lists(<<>>, {})
  BY <1>1 DEF Lists, ToSet, IsInjective
<1>3. PICK q : q = [i \in 1..0 |-> 0]
  OBVIOUS
<1>7. q \in [1..0 -> Int] /\ 0 \in Nat
  BY <1>3
<1>4. PICK f \in [0..0 -> Int] : SumsUp(f, 0, q) /\ SumOf(q) = f[0]
  BY <1>7, SumSteps
<1>5. SumOf(q) = 0
  BY <1>4 DEF SumsUp
<1>6. QED
  BY <1>1, <1>2, <1>3, <1>5

LEMMA MemoryEmpty ==
  ASSUME NEW put, Limits # {}
  PROVE  MemorySound(<<>>, <<>>, <<>>, 0, put)
<1>1. IsFiniteSet({}) /\ Cardinality({}) = 0
  BY FS_EmptySet
<1>2. DOMAIN <<>> = {} /\ <<>> \in Seq(Coordinates) /\ Lists(<<>>, {}) /\ Len(<<>>) = 0
  BY NothingListed
<1>3. Weight(Bytes(<<>>), <<>>) = 0
  <2>1. Weights(Bytes(<<>>), <<>>) = [i \in 1..0 |-> 0]
    BY <1>2 DEF Weights
  <2>2. QED
    BY <1>2, <2>1, NothingListed DEF Weight
<1>4. Few(<<>>)
  <2>1. Cardinality(DOMAIN <<>>) = 0
    BY <1>1, <1>2
  <2>2. PICK limit \in Limits : TRUE
    OBVIOUS
  <2>3. 0 <= limit
    BY StoreAssumption
  <2>4. QED
    BY <2>1, <2>3 DEF Few
<1>5. <<>> \in [{} -> CacheEntries]
  OBVIOUS
<1>6. QED
  BY <1>1, <1>2, <1>3, <1>4, <1>5, StoreAssumption DEF MemorySound

(* Without a key, whether it is there or not.                              *)
LEMMA RestSound ==
  ASSUME NEW m, NEW order, NEW made, NEW bytes, NEW put,
         MemorySound(m, order, made, bytes, put), NEW k, NEW size,
         size = IF k \in DOMAIN m THEN m[k].content ELSE 0
  PROVE  MemorySound(Less(m, k), RemoveFirst(order, k), RemoveFirst(made, k), bytes - size, put)
<1> DEFINE rest == Less(m, k)
<1>1. PICK K : K = DOMAIN m
  OBVIOUS
<1>2. PICK R : R = K \ {k}
  OBVIOUS
<1>3. /\ IsFiniteSet(K) /\ K \subseteq Coordinates /\ m \in [K -> CacheEntries]
      /\ order \in Seq(Coordinates) /\ Lists(order, K) /\ made \in Seq(Coordinates)
      /\ Lists(made, K) /\ bytes = Weight(Bytes(m), made) /\ bytes <= max_memory_size_bytes
      /\ \A x \in K : Under(put, x, m[x].content)
  BY <1>1 DEF MemorySound
<1>4. PICK limit \in Limits : Cardinality(K) <= limit
  BY <1>1 DEF MemorySound, Few
<1>5. /\ IsFiniteSet(R) /\ Cardinality(R) \in Nat /\ Cardinality(K) \in Nat
      /\ Cardinality(R) <= Cardinality(K)
  <2>1. IsFiniteSet(R)
    BY <1>2, <1>3, FS_RemoveElement
  <2>2. Cardinality(R) \in Nat /\ Cardinality(K) \in Nat
    BY <1>3, <2>1, FS_CardinalityType
  <2>3. Cardinality(K \ {k}) = IF k \in K THEN Cardinality(K) - 1 ELSE Cardinality(K)
    BY <1>3, FS_RemoveElement
  <2>4. QED
    BY <1>2, <2>1, <2>2, <2>3
<1>6. DOMAIN rest = R /\ rest \in [R -> CacheEntries] /\ \A x \in R : x \in K /\ rest[x] = m[x]
  BY <1>1, <1>2, <1>3 DEF Less
<1> HIDE DEF rest
<1>7. Bytes(m) \in [K -> Nat] /\ Bytes(rest) \in [R -> Nat]
      /\ \A x \in R : Bytes(rest)[x] = Bytes(m)[x]
  <2>1. Bytes(m) \in [K -> Nat] /\ Bytes(rest) \in [R -> Nat]
    BY <1>1, <1>3, <1>6, BytesTyped
  <2>2. ASSUME NEW x \in R PROVE Bytes(rest)[x] = Bytes(m)[x]
    BY <1>1, <1>6 DEF Bytes
  <2>3. QED
    BY <2>1, <2>2
<1>8. /\ RemoveFirst(order, k) \in Seq(Coordinates) /\ Lists(RemoveFirst(order, k), R)
      /\ RemoveFirst(made, k) \in Seq(Coordinates) /\ Lists(RemoveFirst(made, k), R)
  BY <1>2, <1>3, ListsRest
<1>9. Weight(Bytes(rest), RemoveFirst(made, k)) = bytes - size /\ size \in Nat /\ bytes \in Nat
  <2>1. bytes \in Nat
    BY <1>3, <1>7, WeightTyped DEF Lists
  <2>2. CASE k \in K
    <3>1. Bytes(m)[k] = size /\ size \in Nat
      BY <1>1, <1>7, <2>2 DEF Bytes
    <3>2. Weight(Bytes(rest), RemoveFirst(made, k)) = Weight(Bytes(m), made) - size
      <4>1. PICK f : f = Bytes(m)
        OBVIOUS
      <4>2. PICK g : g = Bytes(rest)
        OBVIOUS
      <4>3. f \in [K -> Nat] /\ Narrows(g, f, R) /\ size = f[k]
        BY <1>7, <3>1, <4>1, <4>2 DEF Narrows
      <4>4. made \in Seq(Coordinates) /\ Lists(made, K)
        BY <1>3
      <4>5. Weight(g, RemoveFirst(made, k)) = Weight(f, made) - size
        BY <1>2, <2>2, <4>3, <4>4, WeightWithout
      <4>6. QED
        BY <4>1, <4>2, <4>5
    <3>3. QED
      BY <1>3, <2>1, <3>1, <3>2
  <2>3. CASE k \notin K
    <3>1. R = K /\ RemoveFirst(made, k) = made
      BY <1>2, <1>3, <2>3, KeyAbsent DEF Lists
    <3>2. Bytes(rest) = Bytes(m)
      BY <1>7, <3>1
    <3>3. QED
      BY <1>1, <1>3, <2>1, <2>3, <3>1, <3>2
  <2>4. QED
    BY <2>2, <2>3
<1>10. Few(rest)
  <2>1. Cardinality(R) <= limit
    BY <1>4, <1>5, StoreAssumption
  <2>2. QED
    BY <1>6, <2>1 DEF Few
<1>11. bytes - size <= max_memory_size_bytes
  BY <1>3, <1>9, StoreAssumption
<1>12. R \subseteq Coordinates
  BY <1>2, <1>3
<1>13. MemorySound(rest, RemoveFirst(order, k), RemoveFirst(made, k), bytes - size, put)
  BY <1>3, <1>5, <1>6, <1>8, <1>9, <1>10, <1>11, <1>12 DEF MemorySound
<1>14. QED
  BY <1>13 DEF rest

LEMMA InFront ==
  ASSUME NEW S, NEW s \in Seq(S), NEW K, Lists(s, K), NEW k \in S, k \notin K
  PROVE  <<k>> \o s \in Seq(S) /\ Lists(<<k>> \o s, K \cup {k})
<1> DEFINE t == <<k>> \o s
           n == Len(s)
<1>1. DOMAIN s = 1..n /\ n \in Nat
  BY LenProperties
<1>2. <<k>> \in Seq(S) /\ Len(<<k>>) = 1 /\ <<k>>[1] = k
  OBVIOUS
<1>3. t \in Seq(S) /\ Len(t) = 1 + n
  BY <1>2, ConcatProperties
<1>4. t[1] = k
  BY <1>1, <1>2, <1>3
<1>5. ASSUME NEW i \in 1..n PROVE t[i + 1] = s[i]
  BY <1>1, <1>2, <1>3
<1>6. DOMAIN t = 1..n + 1
  BY <1>1, <1>3, LenProperties
<1>7. \A i \in 1..n + 1 : i = 1 \/ (i - 1 \in 1..n /\ i - 1 + 1 = i)
  BY <1>1
<1>8. \A i \in 1..n : s[i] \in K
  BY <1>1 DEF Lists, ToSet
<1>9. \A x \in K : \E i \in 1..n : s[i] = x
  BY <1>1 DEF Lists, ToSet
<1>10. \A i, j \in 1..n : s[i] = s[j] => i = j
  BY <1>1 DEF Lists, IsInjective
<1>11. 1 \in 1..n + 1 /\ \A i \in 1..n : i + 1 \in 1..n + 1
  BY <1>1
<1> HIDE DEF t, n
<1>12. \A i \in 1..n + 1 : i # 1 => t[i] = s[i - 1]
  BY <1>5, <1>7
<1>13. ToSet(t) = K \cup {k}
  <2>1. ToSet(t) = {t[i] : i \in 1..n + 1}
    BY <1>6 DEF ToSet
  <2>2. \A i \in 1..n + 1 : t[i] \in K \cup {k}
    BY <1>4, <1>7, <1>8, <1>12
  <2>3. ASSUME NEW x \in K \cup {k} PROVE \E i \in 1..n + 1 : t[i] = x
    <3>1. CASE x = k
      BY <1>4, <1>11, <3>1
    <3>2. CASE x # k
      <4>1. PICK i \in 1..n : s[i] = x
        BY <1>9, <3>2
      <4>2. QED
        BY <1>5, <1>11, <4>1
    <3>3. QED
      BY <3>1, <3>2
  <2>4. QED
    BY <2>1, <2>2, <2>3
<1>14. ASSUME NEW i \in 1..n + 1, NEW j \in 1..n + 1, t[i] = t[j] PROVE i = j
  <2>1. CASE i # 1 /\ j # 1
    <3>1. i - 1 = j - 1
      BY <1>7, <1>10, <1>12, <1>14, <2>1
    <3>2. QED
      BY <1>1, <3>1
  <2>2. CASE i = 1 /\ j # 1
    BY <1>4, <1>7, <1>8, <1>12, <1>14, <2>2
  <2>3. CASE i # 1 /\ j = 1
    BY <1>4, <1>7, <1>8, <1>12, <1>14, <2>3
  <2>4. QED
    BY <2>1, <2>2, <2>3
<1>15. IsInjective(t)
  BY <1>6, <1>14 DEF IsInjective
<1>16. QED
  BY <1>3, <1>13, <1>15 DEF Lists, t

(* With a chunk, in place of what was under its key.                       *)
LEMMA PutSound ==
  ASSUME NEW m, NEW order, NEW made, NEW bytes, NEW put,
         MemorySound(m, order, made, bytes, put), NEW k \in Coordinates, NEW c \in Contents,
         NEW size, size = IF k \in DOMAIN m THEN m[k].content ELSE 0,
         NEW limit \in Limits, Cardinality(DOMAIN m) < limit,
         bytes + c <= max_memory_size_bytes, Under(put, k, c),
         NEW e \in CacheEntries, e.content = c
  PROVE  MemorySound(With(m, k, e), <<k>> \o RemoveFirst(order, k),
                     Append(RemoveFirst(made, k), k), bytes - size + c, put)
<1> DEFINE rest == Less(m, k)
           new == With(m, k, e)
<1>1. PICK R : R = DOMAIN rest
  OBVIOUS
<1>2. PICK after : after = bytes - size
  OBVIOUS
<1>3. PICK front, back : front = RemoveFirst(order, k) /\ back = RemoveFirst(made, k)
  OBVIOUS
<1>4. MemorySound(rest, front, back, after, put)
  BY <1>2, <1>3, RestSound
<1>5. /\ IsFiniteSet(R) /\ R \subseteq Coordinates /\ rest \in [R -> CacheEntries]
      /\ front \in Seq(Coordinates) /\ Lists(front, R) /\ back \in Seq(Coordinates)
      /\ Lists(back, R) /\ after = Weight(Bytes(rest), back)
      /\ \A x \in R : Under(put, x, rest[x].content)
  BY <1>1, <1>4 DEF MemorySound
<1>6. R = DOMAIN m \ {k} /\ k \notin R /\ \A x \in R : rest[x] = m[x]
  BY <1>1 DEF Less
<1>7. PICK N : N = R \cup {k}
  OBVIOUS
<1>8. /\ DOMAIN new = N /\ new[k] = e /\ \A x \in R : new[x] = rest[x]
      /\ new = [x \in N |-> new[x]]
  BY <1>6, <1>7 DEF With
<1> HIDE DEF rest
<1>9. new \in [N -> CacheEntries]
  <2> HIDE DEF new
  <2>1. \A x \in N : new[x] \in CacheEntries
    BY <1>5, <1>7, <1>8
  <2>2. QED
    BY <1>8, <2>1
<1> HIDE DEF new
<1>10. IsFiniteSet(N) /\ N \subseteq Coordinates
  BY <1>5, <1>7, FS_AddElement
<1>11. <<k>> \o front \in Seq(Coordinates) /\ Lists(<<k>> \o front, N)
  BY <1>5, <1>6, <1>7, InFront
<1>12. Bytes(rest) \in [R -> Nat] /\ Bytes(new) \in [N -> Nat]
  BY <1>1, <1>5, <1>8, <1>9, BytesTyped
<1>13. (\A x \in R : Bytes(new)[x] = Bytes(rest)[x]) /\ Bytes(new)[k] = c
  BY <1>1, <1>7, <1>8 DEF Bytes
<1>14. /\ Append(back, k) \in Seq(Coordinates) /\ Lists(Append(back, k), N)
       /\ Weight(Bytes(new), Append(back, k)) = after + c
  <2>1. /\ Append(back, k) \in Seq(Coordinates) /\ Lists(Append(back, k), N)
        /\ Weight(Bytes(new), Append(back, k)) = Weight(Bytes(rest), back) + c
    <3>1. Widens(Bytes(new), Bytes(rest), R, N, k, c)
      BY <1>6, <1>7, <1>12, <1>13 DEF Narrows, Widens
    <3>2. QED
      BY <1>5, <3>1, WeightAppended
  <2>2. QED
    BY <1>5, <1>7, <1>13, <2>1
<1>15. bytes \in Nat /\ size \in Nat /\ c \in Nat
  <2>1. Bytes(m) \in [DOMAIN m -> Nat]
    BY BytesTyped DEF MemorySound
  <2>2. bytes \in Nat
    BY <2>1, WeightTyped DEF MemorySound, Lists
  <2>3. size \in Nat
    <3>1. k \in DOMAIN m => Bytes(m)[k] = size
      BY DEF Bytes
    <3>2. QED
      BY <2>1, <3>1
  <2>4. QED
    BY <2>2, <2>3, StoreAssumption
<1>16. after + c <= max_memory_size_bytes
  BY <1>2, <1>15, StoreAssumption
<1>17. Few(new)
  <2>1. PICK K : K = DOMAIN m
    OBVIOUS
  <2>2. IsFiniteSet(K) /\ Cardinality(K) \in Nat /\ Cardinality(K) < limit
    BY <2>1, FS_CardinalityType DEF MemorySound
  <2>3. N = K \cup {k}
    BY <1>6, <1>7, <2>1
  <2>4. Cardinality(N) <= Cardinality(K) + 1 /\ Cardinality(N) \in Nat
    <3>1. Cardinality(K \cup {k}) = IF k \in K THEN Cardinality(K) ELSE Cardinality(K) + 1
      BY <2>2, FS_AddElement
    <3>2. QED
      BY <2>2, <2>3, <3>1
  <2>5. Cardinality(N) <= limit
    BY <2>2, <2>4, StoreAssumption
  <2>6. QED
    BY <1>8, <2>5 DEF Few
<1>18. \A x \in N : Under(put, x, new[x].content)
  BY <1>5, <1>7, <1>8
<1>19. MemorySound(new, <<k>> \o front, Append(back, k), after + c, put)
  BY <1>8, <1>9, <1>10, <1>11, <1>14, <1>16, <1>17, <1>18 DEF MemorySound
<1>20. QED
  BY <1>2, <1>3, <1>19 DEF new

(* A key that moves to the front, counts and marks that change.            *)
LEMMA MovedUp ==
  ASSUME NEW S, NEW s \in Seq(S), NEW K, Lists(s, K), NEW k \in S, k \in K
  PROVE  <<k>> \o RemoveFirst(s, k) \in Seq(S) /\ Lists(<<k>> \o RemoveFirst(s, k), K)
<1>1. PICK R, t : R = K \ {k} /\ t = RemoveFirst(s, k)
  OBVIOUS
<1>2. t \in Seq(S) /\ Lists(t, R) /\ k \notin R
  BY <1>1, ListsRest
<1>3. <<k>> \o t \in Seq(S) /\ Lists(<<k>> \o t, R \cup {k})
  BY <1>2, InFront
<1>4. R \cup {k} = K
  BY <1>1
<1>5. QED
  BY <1>1, <1>3, <1>4

LEMMA SameChunks ==
  ASSUME NEW m, NEW order, NEW made, NEW bytes, NEW put,
         MemorySound(m, order, made, bytes, put),
         NEW n, DOMAIN n = DOMAIN m, n \in [DOMAIN m -> CacheEntries],
         \A x \in DOMAIN m : n[x].content = m[x].content,
         NEW newOrder \in Seq(Coordinates), Lists(newOrder, DOMAIN m)
  PROVE  MemorySound(n, newOrder, made, bytes, put)
<1>1. Bytes(n) = Bytes(m)
  BY DEF Bytes
<1>2. Few(n)
  BY DEF MemorySound, Few
<1>3. QED
  BY <1>1, <1>2 DEF MemorySound

LEMMA MorePut ==
  ASSUME NEW m, NEW order, NEW made, NEW bytes, NEW put,
         MemorySound(m, order, made, bytes, put), NEW more, put \subseteq more
  PROVE  MemorySound(m, order, made, bytes, more)
<1>1. \A k \in DOMAIN m : Under(more, k, m[k].content)
  BY DEF MemorySound, Under
<1>2. QED
  BY <1>1 DEF MemorySound

-----------------------------------------------------------------------------
(* Disk.  The index is within its limit, in memory and as it was saved, no *)
(* more is in it than is counted, and what the files hold was put there.   *)
Short(entries) == Len(entries) <= max_disk_cache_size \/ Len(entries) = 1
FilesSound(files, put) ==
    \A f \in DOMAIN files : /\ files[f] \in Contents
                            /\ \E k \in Coordinates : File(k) = f /\ Under(put, k, files[f])
Counted(entries, used) == used \in Nat /\ SizeOnDisk(entries) <= used

DiskSound(entries, files, used, saved, put) ==
    /\ entries \in Seq(Entries) /\ Short(entries) /\ Counted(entries, used)
    /\ saved \in Seq(Entries) /\ Short(saved)
    /\ FilesSound(files, put)

LEMMA DiskEmpty ==
  ASSUME NEW put
  PROVE  DiskSound(<<>>, <<>>, 0, <<>>, put) /\ SizeOnDisk(<<>>) = 0
<1>1. <<>> \in Seq(Entries) /\ Len(<<>>) = 0 /\ DOMAIN <<>> = {}
  OBVIOUS
<1>2. SizeOnDisk(<<>>) = 0
  <2>1. [i \in 1..Len(<<>>) |-> <<>>[i].size] = [i \in 1..0 |-> 0]
    BY <1>1
  <2>2. QED
    BY <2>1, NothingListed DEF SizeOnDisk
<1>3. Short(<<>>) /\ Counted(<<>>, 0)
  BY <1>1, <1>2, StoreAssumption DEF Short, Counted
<1>4. FilesSound(<<>>, put)
  BY <1>1 DEF FilesSound
<1>5. QED
  BY <1>1, <1>2, <1>3, <1>4 DEF DiskSound

LEMMA FewerFiles ==
  ASSUME NEW files, NEW put, FilesSound(files, put), NEW F
  PROVE  FilesSound([f \in DOMAIN files \ F |-> files[f]], put)
BY DEF FilesSound

LEMMA FileWritten ==
  ASSUME NEW files, NEW put, FilesSound(files, put), NEW k \in Coordinates, NEW c \in Contents,
         Under(put, k, c)
  PROVE  FilesSound(With(files, File(k), c), put)
<1> DEFINE new == With(files, File(k), c)
<1>1. DOMAIN new = DOMAIN files \cup {File(k)}
  BY DEF With
<1>2. \A f \in DOMAIN new : new[f] = IF f = File(k) THEN c ELSE files[f]
  BY DEF With
<1> HIDE DEF new
<1>3. ASSUME NEW f \in DOMAIN new
      PROVE  new[f] \in Contents /\ \E x \in Coordinates : File(x) = f /\ Under(put, x, new[f])
  <2>1. CASE f = File(k)
    BY <1>2, <2>1
  <2>2. CASE f # File(k)
    <3>1. f \in DOMAIN files /\ new[f] = files[f]
      BY <1>1, <1>2, <2>2
    <3>2. QED
      BY <3>1 DEF FilesSound
  <2>3. QED
    BY <2>1, <2>2
<1>4. QED
  BY <1>3 DEF FilesSound, new

LEMMA MinusCounts ==
  ASSUME NEW a \in Nat, NEW b \in Nat, NEW n \in Nat, n <= a
  PROVE  Minus(a, b) \in Nat /\ n - b <= Minus(a, b)
BY DEF Minus

LEMMA WithoutCounted ==
  ASSUME NEW s \in Seq(Entries), Short(s), NEW used, Counted(s, used), NEW k, k \in KeysOf(s),
         NEW e, e = s[SelectInSeq(s, LAMBDA x : x.key = k)]
  PROVE  /\ Without(s, k) \in Seq(Entries) /\ Short(Without(s, k))
         /\ Counted(Without(s, k), Minus(used, e.size))
<1>1. PICK m \in 1..Len(s) : /\ SelectInSeq(s, LAMBDA x : x.key = k) = m
                             /\ Without(s, k) \in Seq(Entries) /\ Removal(Without(s, k), s, m)
  BY EntryRemoved
<1>2. e = s[m] /\ e.size \in Nat
  <2>1. s[m] \in Entries
    BY LenProperties, ElementOfSeq
  <2>2. QED
    BY <1>1, <2>1, StoreAssumption DEF Entries
<1>3. SizeOnDisk(Without(s, k)) = SizeOnDisk(s) - e.size
  BY <1>1, <1>2, SizeWithout
<1>4. Len(Without(s, k)) = Len(s) - 1 /\ Len(s) \in Nat
  BY <1>1, LenProperties DEF Removal
<1>5. SizeOnDisk(s) \in Nat /\ used \in Nat /\ SizeOnDisk(s) <= used
  BY SizeTyped DEF Counted
<1>6. Minus(used, e.size) \in Nat /\ SizeOnDisk(s) - e.size <= Minus(used, e.size)
  BY <1>2, <1>5, MinusCounts
<1>7. Short(Without(s, k))
  BY <1>4, StoreAssumption DEF Short
<1>8. QED
  BY <1>1, <1>3, <1>6, <1>7 DEF Counted

(* The oldest file makes room.                                             *)
LEMMA RoomMade ==
  ASSUME NEW s \in Seq(Entries), Short(s), NEW used, Counted(s, used),
         NEW full, full = (Len(s) >= max_disk_cache_size /\ s # <<>>),
         NEW kept, kept = IF full THEN Tail(s) ELSE s,
         NEW freed, freed = IF full THEN Minus(used, Head(s).size) ELSE used
  PROVE  /\ kept \in Seq(Entries) /\ Counted(kept, freed) /\ Short(kept)
         /\ Len(kept) + 1 <= max_disk_cache_size \/ Len(kept) = 0
<1>1. Len(s) \in Nat /\ max_disk_cache_size \in Nat /\ SizeOnDisk(s) \in Nat /\ used \in Nat
      /\ SizeOnDisk(s) <= used /\ (s = <<>> <=> Len(s) = 0)
  BY LenProperties, EmptySeq, StoreAssumption, SizeTyped DEF Counted
<1>2. CASE full
  <2>1. /\ kept \in Seq(Entries) /\ Len(kept) = Len(s) - 1 /\ Head(s) \in Entries
        /\ SizeOnDisk(kept) = SizeOnDisk(s) - Head(s).size
    BY <1>2, IndexTail
  <2>2. Head(s).size \in Nat
    BY <2>1, StoreAssumption DEF Entries
  <2>3. freed \in Nat /\ SizeOnDisk(kept) <= freed
    BY <1>1, <1>2, <2>1, <2>2, MinusCounts
  <2>4. Len(kept) + 1 <= max_disk_cache_size \/ Len(kept) = 0
    BY <1>1, <2>1 DEF Short
  <2>5. QED
    BY <1>1, <2>1, <2>3, <2>4 DEF Counted, Short
<1>3. CASE ~full
  <2>1. kept = s /\ freed = used
    BY <1>3
  <2>2. ~(Len(s) >= max_disk_cache_size /\ s # <<>>)
    BY <1>3
  <2>3. Len(s) + 1 <= max_disk_cache_size \/ Len(s) = 0
    BY <1>1, <2>2
  <2>4. QED
    BY <2>1, <2>3
<1>4. QED
  BY <1>2, <1>3

LEMMA EntryAdded ==
  ASSUME NEW s \in Seq(Entries), NEW used, Counted(s, used),
         Len(s) + 1 <= max_disk_cache_size \/ Len(s) = 0,
         NEW k \in Coordinates, NEW c \in Contents,
         NEW new, new = Append(Without(s, k), [key |-> k, size |-> c])
  PROVE  new \in Seq(Entries) /\ Short(new) /\ Counted(new, used + c)
<1> DEFINE e == [key |-> k, size |-> c]
           rest == Without(s, k)
<1>1. e \in Entries /\ e.size = c
  BY DEF Entries
<1>2. rest \in Seq(Entries) /\ Len(rest) <= Len(s) /\ SizeOnDisk(rest) <= SizeOnDisk(s)
  BY IndexWithout
<1> HIDE DEF e, rest
<1>3. new = Append(rest, e)
  BY DEF e, rest
<1>4. new \in Seq(Entries) /\ SizeOnDisk(new) = SizeOnDisk(rest) + c
  BY <1>1, <1>2, <1>3, SizeAppended
<1>5. Len(new) = Len(rest) + 1 /\ Len(rest) \in Nat /\ Len(s) \in Nat
  BY <1>1, <1>2, <1>3, AppendProperties, LenProperties
<1>6. Short(new)
  BY <1>2, <1>5, StoreAssumption DEF Short
<1>7. Counted(new, used + c)
  <2>1. SizeOnDisk(rest) \in Nat /\ SizeOnDisk(s) \in Nat /\ c \in Nat
    BY <1>2, SizeTyped, StoreAssumption
  <2>2. QED
    BY <1>2, <1>4, <2>1 DEF Counted
<1>8. QED
  BY <1>4, <1>6, <1>7

DiskKept == DiskSound(index, disk.files, usage.disk, disk.index, given.put)
DiskShape == DOMAIN disk = {"files", "index"} /\ DOMAIN usage = {"memory", "disk"}

LEMMA Saved ==
  ASSUME NEW put, DiskSound(index, disk.files, usage.disk, disk.index, put), DiskShape,
         NEW k, NEW c, NEW ok \in BOOLEAN, SaveToDiskInternal(k, c, ok),
         ok => k \in Coordinates /\ c \in Contents /\ Under(put, k, c)
  PROVE  /\ DiskSound(index', disk'.files, usage'.disk, disk'.index, put)
         /\ DiskShape' /\ usage'.memory = usage.memory
<1> DEFINE full == Len(index) >= max_disk_cache_size /\ index # <<>>
           kept == IF full THEN Tail(index) ELSE index
           files == IF full THEN Less(disk.files, File(Head(index).key)) ELSE disk.files
           freed == IF full THEN Minus(usage.disk, Head(index).size) ELSE usage.disk
<1>1. /\ index \in Seq(Entries) /\ Short(index) /\ Counted(index, usage.disk)
      /\ disk.index \in Seq(Entries) /\ Short(disk.index) /\ FilesSound(disk.files, put)
  BY DEF DiskSound
<1>2. /\ index' = IF ok THEN Append(Without(kept, k), [key |-> k, size |-> c]) ELSE kept
      /\ disk' = [disk EXCEPT !.files = IF ok THEN With(files, File(k), c) ELSE files]
      /\ usage' = [usage EXCEPT !.disk = IF ok THEN freed + c ELSE freed]
  BY DEF SaveToDiskInternal
<1>3. /\ kept \in Seq(Entries) /\ Counted(kept, freed) /\ Short(kept)
      /\ Len(kept) + 1 <= max_disk_cache_size \/ Len(kept) = 0
  <2>1. PICK f : f = full
    OBVIOUS
  <2>2. PICK x : x = kept
    OBVIOUS
  <2>3. PICK y : y = freed
    OBVIOUS
  <2>4. x = (IF f THEN Tail(index) ELSE index)
    BY <2>1, <2>2
  <2>5. y = IF f THEN Minus(usage.disk, Head(index).size) ELSE usage.disk
    BY <2>1, <2>3
  <2>6. f = (Len(index) >= max_disk_cache_size /\ index # <<>>)
    BY <2>1
  <2> HIDE DEF full, kept, freed
  <2>7. /\ x \in Seq(Entries) /\ Counted(x, y) /\ Short(x)
        /\ Len(x) + 1 <= max_disk_cache_size \/ Len(x) = 0
    BY <1>1, <2>4, <2>5, <2>6, RoomMade
  <2>8. QED
    BY <2>2, <2>3, <2>7
<1>4. FilesSound(files, put)
  <2>1. PICK f : f = File(Head(index).key)
    OBVIOUS
  <2>2. FilesSound(Less(disk.files, f), put)
    BY <1>1, FewerFiles DEF Less
  <2>3. QED
    BY <1>1, <2>1, <2>2
<1> HIDE DEF full, kept, files, freed
<1>5. /\ DOMAIN disk' = {"files", "index"} /\ DOMAIN usage' = {"memory", "disk"}
      /\ disk'.files = (IF ok THEN With(files, File(k), c) ELSE files)
      /\ disk'.index = disk.index
      /\ usage'.disk = (IF ok THEN freed + c ELSE freed) /\ usage'.memory = usage.memory
  BY <1>2 DEF DiskShape
<1>6. CASE ok
  <2>1. k \in Coordinates /\ c \in Contents /\ Under(put, k, c)
    BY <1>6
  <2>2. index' \in Seq(Entries) /\ Short(index') /\ Counted(index', freed + c)
    <3>1. PICK x : x = Append(Without(kept, k), [key |-> k, size |-> c])
      OBVIOUS
    <3>2. x \in Seq(Entries) /\ Short(x) /\ Counted(x, freed + c)
      BY <1>3, <2>1, <3>1, EntryAdded
    <3>3. QED
      BY <1>2, <1>6, <3>1, <3>2
  <2>3. FilesSound(With(files, File(k), c), put)
    BY <1>4, <2>1, FileWritten
  <2>4. QED
    BY <1>1, <1>5, <1>6, <2>2, <2>3 DEF DiskSound, DiskShape
<1>7. CASE ~ok
  BY <1>1, <1>2, <1>3, <1>4, <1>5, <1>7 DEF DiskSound, DiskShape
<1>8. QED
  BY <1>6, <1>7

-----------------------------------------------------------------------------
(* Calls.  A thread that puts a chunk holds one that was given, and so is  *)
(* one that is on its way to disk.                                         *)
Putting == {"put", "evict", "evicting", "spill", "relock", "retry"}
CallSound(s, put) ==
    /\ DOMAIN s = {"pc", "key", "content", "todo", "out"}
    /\ s.pc \in Putting =>
         s.key \in Coordinates /\ s.content \in Contents /\ Under(put, s.key, s.content)
    /\ s.pc \in {"get", "load", "write"} => s.key \in Coordinates
    /\ s.pc = "spill" => /\ s.out.key \in Coordinates /\ s.out.content \in Contents
                         /\ Under(put, s.out.key, s.out.content)
    /\ s.pc \in {"evicting", "spill", "relock"} => s.todo \in Seq(Coordinates)

CallsSound(calls, put) ==
    DOMAIN calls = CacheThreads /\ \A t \in CacheThreads : CallSound(calls[t], put)

LEMMA OneCall ==
  ASSUME NEW calls, NEW put, CallsSound(calls, put), NEW t, t \in CacheThreads,
         NEW new, CallSound(new, put), NEW after, after = [calls EXCEPT ![t] = new]
  PROVE  CallsSound(after, put)
<1>1. /\ DOMAIN after = CacheThreads
      /\ \A u \in CacheThreads : after[u] = IF u = t THEN new ELSE calls[u]
  BY DEF CallsSound
<1>2. QED
  BY <1>1 DEF CallsSound

LEMMA NoCallSound == ASSUME NEW put PROVE CallSound(NoCall, put)
BY DEF CallSound, NoCall, NoEntry, Putting

LEMMA Returned ==
  ASSUME NEW put, CallsSound(store, put), NEW t, t \in CacheThreads, Return(t)
  PROVE  CallsSound(store', put)
<1>1. store' = [store EXCEPT ![t] = NoCall]
  BY DEF Return
<1>2. QED
  BY <1>1, NoCallSound, OneCall

(* Where a call may go with what it holds.                                 *)
Leads(from, to) ==
    \/ to \notin Putting \cup {"get", "load", "write"}
    \/ from \in Putting /\ to \in {"evict", "retry"}
    \/ from = "spill" /\ to = "relock"
    \/ from = "get" /\ to = "load"

LEMMA Gone ==
  ASSUME NEW put, CallsSound(store, put), NEW t, t \in CacheThreads,
         NEW pc, Goto(t, pc), Leads(store[t].pc, pc)
  PROVE  CallsSound(store', put)
<1>1. PICK new : new = [store[t] EXCEPT !.pc = pc]
  OBVIOUS
<1>2. store' = [store EXCEPT ![t] = new]
  BY <1>1 DEF Goto
<1>3. CallSound(store[t], put)
  BY DEF CallsSound
<1>4. /\ DOMAIN new = {"pc", "key", "content", "todo", "out"} /\ new.pc = pc
      /\ new.key = store[t].key /\ new.content = store[t].content
      /\ new.todo = store[t].todo /\ new.out = store[t].out
  BY <1>1, <1>3 DEF CallSound
<1>5. CallSound(new, put)
  <2> DEFINE call == store[t]
  <2>1. /\ call.pc \in Putting =>
            /\ call.key \in Coordinates /\ call.content \in Contents
            /\ Under(put, call.key, call.content)
        /\ call.pc \in {"get", "load", "write"} => call.key \in Coordinates
        /\ call.pc \in {"evicting", "spill", "relock"} => call.todo \in Seq(Coordinates)
    BY <1>3 DEF CallSound
  <2>2. CASE pc \notin Putting \cup {"get", "load", "write"}
    BY <1>4, <2>2 DEF CallSound, Putting
  <2>3. CASE call.pc \in Putting /\ pc \in {"evict", "retry"}
    <3>1. pc \notin {"get", "load", "write", "spill", "evicting", "relock"}
      BY <2>3
    <3>2. QED
      BY <1>4, <2>1, <2>3, <3>1 DEF CallSound
  <2>4. CASE call.pc = "spill" /\ pc = "relock"
    <3>1. pc \notin {"get", "load", "write", "spill"} /\ call.pc \in Putting
      BY <2>4 DEF Putting
    <3>2. QED
      BY <1>4, <2>1, <2>4, <3>1 DEF CallSound
  <2>5. CASE call.pc = "get" /\ pc = "load"
    <3>1. pc \notin Putting /\ pc \notin {"spill", "evicting", "relock", "write"}
      BY <2>5 DEF Putting
    <3>2. QED
      BY <1>4, <2>1, <2>5, <3>1 DEF CallSound
  <2>6. QED
    BY <2>2, <2>3, <2>4, <2>5 DEF Leads
<1>6. QED
  BY <1>2, <1>5, OneCall

LEMMA MoreGiven ==
  ASSUME NEW put, NEW more, put \subseteq more, NEW calls, CallsSound(calls, put),
         NEW files, FilesSound(files, put)
  PROVE  CallsSound(calls, more) /\ FilesSound(files, more)
<1>1. \A k, c : Under(put, k, c) => Under(more, k, c)
  BY DEF Under
<1>2. \A t \in CacheThreads : CallSound(calls[t], more)
  BY <1>1 DEF CallsSound, CallSound
<1>3. QED
  BY <1>1, <1>2 DEF CallsSound, FilesSound

-----------------------------------------------------------------------------
(* The steps.                                                              *)
MemoryKept == MemorySound(memory, access_order, created, usage.memory, given.put)
SettingsKept == DOMAIN config = {"limit", "policy"} /\ config.limit \in Limits
CacheIInv ==
    /\ MemoryKept /\ DiskKept /\ DiskShape /\ SettingsKept
    /\ CallsSound(store, given.put)

(* The cache starts empty.                                                 *)
LEMMA CacheStarts == ASSUME StoreInit PROVE CacheIInv
<1>1. /\ memory = <<>> /\ access_order = <<>> /\ created = <<>>
      /\ usage = [memory |-> 0, disk |-> 0]
      /\ index = <<>> /\ disk = [files |-> <<>>, index |-> <<>>]
      /\ config \in [limit : Limits, policy : Policies]
      /\ store = [t \in CacheThreads |-> NoCall]
      /\ given.put = {}
  BY DEF StoreInit
<1>2. usage.memory = 0 /\ usage.disk = 0 /\ disk.files = <<>> /\ disk.index = <<>> /\ DiskShape
  BY <1>1 DEF DiskShape
<1>3. SettingsKept
  BY <1>1 DEF SettingsKept
<1>4. MemoryKept
  <2>1. Limits # {}
    BY <1>3 DEF SettingsKept
  <2>2. QED
    BY <1>1, <1>2, <2>1, MemoryEmpty DEF MemoryKept
<1>5. DiskKept
  BY <1>1, <1>2, DiskEmpty DEF DiskKept
<1>6. CallsSound(store, given.put)
  BY <1>1, NoCallSound DEF CallsSound
<1>7. QED
  BY <1>2, <1>3, <1>4, <1>5, <1>6 DEF CacheIInv

(* What a step of the memory leaves of the disk, and one of the disk of    *)
(* the memory.                                                             *)
LEMMA DiskLeft ==
  ASSUME CacheIInv, UNCHANGED <<stored, config, given>>,
         NEW bytes, usage' = [usage EXCEPT !.memory = bytes] \/ UNCHANGED usage
  PROVE  /\ DiskKept' /\ DiskShape' /\ SettingsKept'
         /\ usage' = [usage EXCEPT !.memory = bytes] => usage'.memory = bytes
<1>1. /\ DOMAIN usage' = {"memory", "disk"} /\ usage'.disk = usage.disk
      /\ usage' = [usage EXCEPT !.memory = bytes] => usage'.memory = bytes
  BY DEF CacheIInv, DiskShape
<1>2. index' = index /\ disk' = disk /\ config' = config /\ given' = given
  BY DEF stored
<1>3. QED
  BY <1>1, <1>2 DEF CacheIInv, DiskKept, DiskShape, SettingsKept

LEMMA MemoryLeft ==
  ASSUME CacheIInv, UNCHANGED <<cached, given>>, usage'.memory = usage.memory
  PROVE  MemoryKept'
BY DEF CacheIInv, MemoryKept, cached

LEMMA Weighed == ASSUME CacheIInv PROVE usage.memory \in Nat /\ Cardinality(DOMAIN memory) \in Nat
<1>1. /\ created \in Seq(Coordinates) /\ Lists(created, DOMAIN memory)
      /\ memory \in [DOMAIN memory -> CacheEntries] /\ IsFiniteSet(DOMAIN memory)
      /\ usage.memory = Weight(Bytes(memory), created)
  BY DEF CacheIInv, MemoryKept, MemorySound
<1>2. PICK f : f = Bytes(memory)
  OBVIOUS
<1>3. PICK K : K = DOMAIN memory
  OBVIOUS
<1>4. f \in [K -> Nat]
  BY <1>1, <1>2, <1>3, BytesTyped
<1>5. ToSet(created) \subseteq K
  BY <1>1, <1>3 DEF Lists
<1>6. Weight(f, created) \in Nat
  BY <1>1, <1>4, <1>5, WeightTyped
<1>7. QED
  BY <1>1, <1>2, <1>6, FS_CardinalityType

(* A chunk that fits goes in.                                              *)
LEMMA Inserted ==
  ASSUME CacheIInv, NEW t, t \in CacheThreads, store[t].pc \in Putting,
         ~Full(store[t].content), Insert(t), UNCHANGED <<stored, config, given>>
  PROVE  CacheIInv'
<1> DEFINE k == store[t].key
           c == store[t].content
           e == [content |-> c, count |-> 1, dirty |-> TRUE]
           limit == config.limit
           size == Replaced(k)
<1>1. k \in Coordinates /\ c \in Contents /\ Under(given.put, k, c)
  BY DEF CacheIInv, CallsSound, CallSound
<1>2. /\ memory' = With(memory, k, e)
      /\ access_order' = <<k>> \o RemoveFirst(access_order, k)
      /\ created' = Append(RemoveFirst(created, k), k)
      /\ usage' = [usage EXCEPT !.memory = usage.memory - size + c]
      /\ Goto(t, "queue") /\ given' = given
  BY DEF Insert, CacheIInv, DiskShape
<1>3. e \in CacheEntries /\ e.content = c
  BY <1>1 DEF CacheEntries
<1>4. limit \in Limits /\ limit \in Nat /\ max_memory_size_bytes \in Nat /\ c \in Nat
  BY <1>1, StoreAssumption DEF CacheIInv, SettingsKept
<1>5. Cardinality(DOMAIN memory) < limit /\ usage.memory + c <= max_memory_size_bytes
  BY <1>4, Weighed DEF Full
<1>6. size = IF k \in DOMAIN memory THEN memory[k].content ELSE 0
  BY DEF Replaced
<1>7. MemorySound(memory, access_order, created, usage.memory, given.put)
  BY DEF CacheIInv, MemoryKept
<1> HIDE DEF k, c, e, limit, size
<1>8. MemorySound(memory', access_order', created', usage.memory - size + c, given.put)
  BY <1>1, <1>2, <1>3, <1>4, <1>5, <1>6, <1>7, PutSound
<1>9. /\ DiskKept' /\ DiskShape' /\ SettingsKept' /\ usage'.memory = usage.memory - size + c
  BY <1>2, DiskLeft
<1>10. CallsSound(store', given.put)
  BY <1>2, Gone DEF Leads, CacheIInv, Putting
<1>11. QED
  BY <1>2, <1>8, <1>9, <1>10 DEF CacheIInv, MemoryKept

LEMMA NothingStored ==
  ASSUME CacheIInv, UNCHANGED <<cached, usage, stored, config, given>>,
         CallsSound(store', given.put)
  PROVE  CacheIInv'
<1>1. DiskKept' /\ DiskShape' /\ SettingsKept'
  BY DiskLeft
<1>2. MemoryKept'
  BY MemoryLeft
<1>3. QED
  BY <1>1, <1>2 DEF CacheIInv

LEMMA PutStep ==
  ASSUME CacheIInv, NEW t, t \in CacheThreads, PutChunk(t) \/ PutAgain(t) PROVE CacheIInv'
<1>1. store[t].pc \in {"put", "retry"} /\ UNCHANGED <<stored, config, given>>
  BY DEF PutChunk, PutAgain, Where
<1>2. store[t].pc \in Putting /\ CallsSound(store, given.put)
  BY <1>1 DEF Putting, CacheIInv
<1>3. CASE Full(store[t].content)
  <2>1. UNCHANGED <<cached, usage>> /\ (Goto(t, "evict") \/ Return(t))
    BY <1>3 DEF PutChunk, PutAgain
  <2>2. CallsSound(store', given.put)
    <3>1. CASE Goto(t, "evict")
      <4>1. Leads(store[t].pc, "evict")
        BY <1>2 DEF Leads
      <4>2. QED
        BY <1>2, <3>1, <4>1, Gone
    <3>2. CASE Return(t)
      BY <1>2, <3>2, Returned
    <3>3. QED
      BY <2>1, <3>1, <3>2
  <2>3. QED
    BY <1>1, <2>1, <2>2, NothingStored
<1>4. CASE ~Full(store[t].content)
  <2>1. Insert(t)
    BY <1>4 DEF PutChunk, PutAgain
  <2>2. QED
    BY <1>1, <1>2, <1>4, <2>1, Inserted
<1>5. QED
  BY <1>3, <1>4

(* An entry goes.                                                          *)
LEMMA Erased ==
  ASSUME CacheIInv, NEW k \in DOMAIN memory, Erase(k), UNCHANGED <<stored, config, given>>,
         CallsSound(store', given.put)
  PROVE  CacheIInv'
<1> DEFINE size == memory[k].content
<1>1. /\ memory' = Less(memory, k)
      /\ access_order' = RemoveFirst(access_order, k)
      /\ created' = RemoveFirst(created, k)
      /\ usage' = [usage EXCEPT !.memory = usage.memory - size] /\ given' = given
  BY DEF Erase, CacheIInv, DiskShape
<1>2. size = IF k \in DOMAIN memory THEN memory[k].content ELSE 0
  OBVIOUS
<1>3. MemorySound(memory, access_order, created, usage.memory, given.put)
  BY DEF CacheIInv, MemoryKept
<1> HIDE DEF size
<1>4. MemorySound(memory', access_order', created', usage.memory - size, given.put)
  BY <1>1, <1>2, <1>3, RestSound
<1>5. /\ DiskKept' /\ DiskShape' /\ SettingsKept' /\ usage'.memory = usage.memory - size
  BY <1>1, DiskLeft
<1>6. QED
  BY <1>1, <1>4, <1>5 DEF CacheIInv, MemoryKept

LEMMA Chosen ==
  ASSUME NEW S, NEW s \in Seq(S), NEW K, NEW n,
         n = SelectInSeq(s, LAMBDA k : k \in K), n # 0
  PROVE  n \in 1..Len(s) /\ s[n] \in K
<1> DEFINE I == {i \in 1..Len(s) : s[i] \in K}
<1>1. I \subseteq Nat
  BY LenProperties
<1>2. I # {} /\ n = Min(I)
  BY DEF SelectInSeq
<1>3. Min(I) \in I
  <2> HIDE DEF I
  <2>1. QED
    BY <1>1, <1>2, LeastOne
<1>4. QED
  BY <1>2, <1>3

(* The orders in which the policies go through the entries.                *)
LEMMA InOrder ==
  ASSUME CacheIInv, NEW t, t \in CacheThreads, store[t].todo \in Seq(Coordinates)
  PROVE  Order(t) \in Seq(Coordinates)
<1>1. access_order \in Seq(Coordinates)
  BY DEF CacheIInv, MemoryKept, MemorySound
<1>2. Len(access_order) \in Nat /\ \A i \in 1..Len(access_order) : access_order[i] \in Coordinates
  BY <1>1, LenProperties, ElementOfSeq
<1>3. Reverse(access_order) \in [1..Len(access_order) -> Coordinates]
  BY <1>2 DEF Reverse
<1>4. Reverse(access_order) \in Seq(Coordinates)
  BY <1>2, <1>3, AsSequence
<1>5. QED
  BY <1>4 DEF Order

LEMMA EvictStep == ASSUME CacheIInv, NEW t, t \in CacheThreads, Evict(t) PROVE CacheIInv'
<1> DEFINE n == Turn(t)
           k == Order(t)[n]
           call == store[t]
<1>1. call.pc = "evicting" /\ UNCHANGED <<stored, config, given>>
  BY DEF Evict, Where
<1>2. CallsSound(store, given.put) /\ CallSound(call, given.put)
  BY DEF CacheIInv, CallsSound
<1>3. /\ call.todo \in Seq(Coordinates) /\ DOMAIN call = {"pc", "key", "content", "todo", "out"}
      /\ call.key \in Coordinates /\ call.content \in Contents
      /\ Under(given.put, call.key, call.content)
  BY <1>1, <1>2 DEF CallSound, Putting
<1>4. CASE Over /\ n # 0
  <2>1. Erase(k)
    BY <1>4 DEF Evict
  <2>2. k \in DOMAIN memory
    <3>1. Order(t) \in Seq(Coordinates)
      BY <1>3, InOrder
    <3>2. n = SelectInSeq(Order(t), LAMBDA x : x \in DOMAIN memory)
      BY DEF Turn
    <3>3. QED
      BY <1>4, <3>1, <3>2, Chosen
  <2>3. n \in Nat
    <3>1. Order(t) \in Seq(Coordinates)
      BY <1>3, InOrder
    <3>2. n = SelectInSeq(Order(t), LAMBDA x : x \in DOMAIN memory)
      BY DEF Turn
    <3>3. n \in 1..Len(Order(t)) /\ Order(t)[n] \in DOMAIN memory
      BY <1>4, <3>1, <3>2, Chosen
    <3>4. Len(Order(t)) \in Nat
      BY <3>1, LenProperties
    <3>5. QED
      BY <3>3, <3>4
  <2> HIDE DEF n, k
  <2>4. CallsSound(store', given.put)
    <3>1. CASE UNCHANGED store
      BY <1>2, <3>1
    <3>2. CASE store' = [store EXCEPT ![t].pc = "spill",
                             ![t].todo = SubSeq(@, n + 1, Len(@)),
                             ![t].out = [key |-> k, content |-> memory[k].content]]
      <4> DEFINE rest == SubSeq(call.todo, n + 1, Len(call.todo))
                 e == [key |-> k, content |-> memory[k].content]
      <4>1. PICK new : new = [call EXCEPT !.pc = "spill", !.todo = rest, !.out = e]
        OBVIOUS
      <4>2. store' = [store EXCEPT ![t] = new]
        BY <3>2, <4>1
      <4>3. rest \in Seq(Coordinates)
        <5>1. Len(call.todo) \in Nat /\ \A i \in 1..Len(call.todo) : call.todo[i] \in Coordinates
          BY <1>3, LenProperties, ElementOfSeq
        <5>2. n + 1 \in Int /\ \A i \in (n + 1)..Len(call.todo) : call.todo[i] \in Coordinates
          BY <2>3, <5>1
        <5>3. QED
          BY <5>1, <5>2, SubSeqProperties
      <4>4. e.key \in Coordinates /\ e.content \in Contents /\ Under(given.put, e.key, e.content)
        <5>1. /\ memory[k] \in CacheEntries /\ k \in Coordinates
              /\ Under(given.put, k, memory[k].content)
          BY <2>2 DEF CacheIInv, MemoryKept, MemorySound
        <5>2. QED
          BY <5>1 DEF CacheEntries
      <4> HIDE DEF rest, e
      <4>5. /\ DOMAIN new = {"pc", "key", "content", "todo", "out"} /\ new.pc = "spill"
            /\ new.key = call.key /\ new.content = call.content
            /\ new.todo = rest /\ new.out = e
        BY <1>3, <4>1
      <4>6. CallSound(new, given.put)
        BY <1>3, <4>3, <4>4, <4>5 DEF CallSound
      <4>7. QED
        BY <1>2, <4>2, <4>6, OneCall
    <3>3. QED
      BY <1>4, <3>1, <3>2 DEF Evict, n, k
  <2>5. QED
    BY <1>1, <2>1, <2>2, <2>4, Erased
<1>5. CASE ~(Over /\ n # 0)
  <2>1. Goto(t, "retry") /\ UNCHANGED <<cached, usage>>
    BY <1>5 DEF Evict
  <2>2. Leads(call.pc, "retry")
    BY <1>1 DEF Leads, Putting
  <2>3. CallsSound(store', given.put)
    BY <1>2, <2>1, <2>2, Gone
  <2>4. QED
    BY <1>1, <2>1, <2>3, NothingStored
<1>6. QED
  BY <1>4, <1>5

LEMMA OrderSound == ASSUME CacheIInv, NEW s \in Candidates PROVE s \in Seq(Coordinates)
<1>1. /\ IsFiniteSet(DOMAIN memory) /\ DOMAIN memory \subseteq Coordinates
      /\ created \in Seq(Coordinates)
  BY DEF CacheIInv, MemoryKept, MemorySound
<1>2. CASE s \in SetToSeqs(DOMAIN memory)
  <2>1. PICK n \in Nat : n = Cardinality(DOMAIN memory)
    BY <1>1, FS_CardinalityType
  <2>2. s \in [1..n -> Coordinates]
    BY <1>1, <1>2, <2>1 DEF SetToSeqs
  <2>3. QED
    BY <2>2, AsSequence
<1>3. CASE s = created
  BY <1>1, <1>3
<1>4. CASE s = <<>>
  BY <1>4
<1>5. QED
  BY <1>2, <1>3, <1>4 DEF Candidates

LEMMA ApplyEvictionPolicyStep ==
  ASSUME CacheIInv, NEW t, t \in CacheThreads, ApplyEvictionPolicy(t) PROVE CacheIInv'
<1> DEFINE call == store[t]
<1>1. call.pc = "evict" /\ UNCHANGED <<cached, usage, stored, config, given>>
  BY DEF ApplyEvictionPolicy, Where
<1>2. CallsSound(store, given.put) /\ CallSound(call, given.put)
  BY DEF CacheIInv, CallsSound
<1>3. PICK s \in Candidates : store' = [store EXCEPT ![t].pc = "evicting", ![t].todo = s]
  BY DEF ApplyEvictionPolicy
<1>4. PICK new : new = [call EXCEPT !.pc = "evicting", !.todo = s]
  OBVIOUS
<1>5. store' = [store EXCEPT ![t] = new]
  BY <1>3, <1>4
<1>6. CallSound(new, given.put)
  <2>1. s \in Seq(Coordinates)
    BY OrderSound
  <2>2. call.pc \in Putting
    BY <1>1 DEF Putting
  <2>3. QED
    BY <1>2, <1>4, <2>1, <2>2 DEF CallSound
<1>7. CallsSound(store', given.put)
  BY <1>2, <1>5, <1>6, OneCall
<1>8. QED
  BY <1>1, <1>7, NothingStored

LEMMA RelockStep == ASSUME CacheIInv, NEW t, t \in CacheThreads, Relock(t) PROVE CacheIInv'
<1> DEFINE call == store[t]
<1>1. call.pc = "relock" /\ UNCHANGED <<cached, usage, stored, config, given>>
  BY DEF Relock, Where
<1>2. CallsSound(store, given.put) /\ CallSound(call, given.put)
  BY DEF CacheIInv, CallsSound
<1>3. PICK new : new = [call EXCEPT !.pc = "evicting", !.out = NoEntry]
  OBVIOUS
<1>4. store' = [store EXCEPT ![t] = new]
  BY <1>3 DEF Relock
<1>5. CallSound(new, given.put)
  <2>1. call.pc \in Putting
    BY <1>1 DEF Putting
  <2>2. QED
    BY <1>1, <1>2, <1>3, <2>1 DEF CallSound
<1>6. CallsSound(store', given.put)
  BY <1>2, <1>4, <1>5, OneCall
<1>7. QED
  BY <1>1, <1>6, NothingStored

LEMMA GetChunkStep == ASSUME CacheIInv, NEW t, t \in CacheThreads, Get(t) PROVE CacheIInv'
<1> DEFINE k == store[t].key
<1>1. store[t].pc = "get" /\ UNCHANGED <<created, usage, stored, config, given>>
  BY DEF Get, Where
<1>2. CallsSound(store, given.put) /\ k \in Coordinates
  BY <1>1 DEF CacheIInv, CallsSound, CallSound
<1>3. CASE k \in DOMAIN memory
  <2>1. /\ memory' = [memory EXCEPT ![k].count = @ + 1]
        /\ access_order' = <<k>> \o RemoveFirst(access_order, k) /\ Return(t)
    BY <1>3 DEF Get
  <2>2. MemorySound(memory, access_order, created, usage.memory, given.put)
    BY DEF CacheIInv, MemoryKept
  <2>3. /\ memory \in [DOMAIN memory -> CacheEntries]
        /\ access_order \in Seq(Coordinates) /\ Lists(access_order, DOMAIN memory)
    BY <2>2 DEF MemorySound
  <2> HIDE DEF k
  <2>4. access_order' \in Seq(Coordinates) /\ Lists(access_order', DOMAIN memory)
    BY <1>2, <1>3, <2>1, <2>3, MovedUp
  <2>5. /\ DOMAIN memory' = DOMAIN memory
        /\ \A x \in DOMAIN memory : memory'[x] = IF x = k THEN [memory[k] EXCEPT !.count = @ + 1]
                                                 ELSE memory[x]
        /\ memory' = [x \in DOMAIN memory |-> memory'[x]]
    BY <2>1
  <2>6. ASSUME NEW x \in DOMAIN memory
        PROVE  memory'[x] \in CacheEntries /\ memory'[x].content = memory[x].content
    <3>1. memory[x] \in CacheEntries
      BY <2>3
    <3>2. QED
      BY <2>5, <3>1 DEF CacheEntries
  <2>7. memory' \in [DOMAIN memory -> CacheEntries]
    BY <2>5, <2>6
  <2>8. MemorySound(memory', access_order', created, usage.memory, given.put)
    BY <2>2, <2>4, <2>5, <2>6, <2>7, SameChunks
  <2>9. MemoryKept'
    BY <1>1, <2>8 DEF MemoryKept
  <2>10. CallsSound(store', given.put)
    BY <1>2, <2>1, Returned
  <2>11. DiskKept' /\ DiskShape' /\ SettingsKept'
    BY <1>1, DiskLeft
  <2>12. QED
    BY <1>1, <2>9, <2>10, <2>11 DEF CacheIInv
<1>4. CASE k \notin DOMAIN memory
  <2>1. Goto(t, "load") /\ UNCHANGED cached
    BY <1>1, <1>4 DEF Get, cached
  <2>2. Leads(store[t].pc, "load")
    BY <1>1 DEF Leads
  <2>3. CallsSound(store', given.put)
    BY <1>2, <2>1, <2>2, Gone
  <2>4. QED
    BY <1>1, <2>1, <2>3, NothingStored
<1>5. QED
  BY <1>3, <1>4

LEMMA MarkStep == ASSUME CacheIInv, NEW t, t \in CacheThreads, Mark(t) PROVE CacheIInv'
<1>1. /\ UNCHANGED <<access_order, created, usage, stored, config, given>> /\ Goto(t, "next")
      /\ \/ \E k : memory' = [memory EXCEPT ![k].dirty = FALSE]
         \/ UNCHANGED memory
  BY DEF Mark
<1>2. MemorySound(memory, access_order, created, usage.memory, given.put)
  BY DEF CacheIInv, MemoryKept
<1>3. /\ memory \in [DOMAIN memory -> CacheEntries]
      /\ access_order \in Seq(Coordinates) /\ Lists(access_order, DOMAIN memory)
  BY <1>2 DEF MemorySound
<1>4. CallsSound(store', given.put)
  <2>1. Leads(store[t].pc, "next")
    BY DEF Leads, Putting
  <2>2. QED
    BY <1>1, <2>1, Gone DEF CacheIInv
<1>5. DiskKept' /\ DiskShape' /\ SettingsKept'
  BY <1>1, DiskLeft
<1>6. MemorySound(memory', access_order, created, usage.memory, given.put)
  <2>1. ASSUME NEW k, memory' = [memory EXCEPT ![k].dirty = FALSE]
        PROVE  MemorySound(memory', access_order, created, usage.memory, given.put)
    <3>1. /\ DOMAIN memory' = DOMAIN memory
          /\ \A x \in DOMAIN memory : memory'[x] = IF x = k THEN [memory[k] EXCEPT !.dirty = FALSE]
                                                   ELSE memory[x]
          /\ memory' = [x \in DOMAIN memory |-> memory'[x]]
      BY <2>1
    <3>2. ASSUME NEW x \in DOMAIN memory
          PROVE  memory'[x] \in CacheEntries /\ memory'[x].content = memory[x].content
      <4>1. memory[x] \in CacheEntries
        BY <1>3
      <4>2. QED
        BY <3>1, <4>1 DEF CacheEntries
    <3>3. memory' \in [DOMAIN memory -> CacheEntries]
      BY <3>1, <3>2
    <3>4. QED
      BY <1>2, <1>3, <3>1, <3>2, <3>3, SameChunks
  <2>2. CASE UNCHANGED memory
    BY <1>2, <2>2
  <2>3. QED
    BY <1>1, <2>1, <2>2
<1>7. MemoryKept'
  BY <1>1, <1>6 DEF MemoryKept
<1>8. QED
  BY <1>1, <1>4, <1>5, <1>7 DEF CacheIInv

LEMMA RemoveChunkStep ==
  ASSUME CacheIInv, NEW t, t \in CacheThreads, RemoveChunk(t) PROVE CacheIInv'
<1>1. UNCHANGED <<stored, config, given>> /\ CallsSound(store, given.put)
  BY DEF RemoveChunk, CacheIInv
<1>2. CASE store[t].key \in DOMAIN memory
  <2>1. Erase(store[t].key) /\ Goto(t, "unlink")
    BY <1>2 DEF RemoveChunk
  <2>2. Leads(store[t].pc, "unlink")
    BY DEF Leads, Putting
  <2>3. CallsSound(store', given.put)
    BY <1>1, <2>1, <2>2, Gone
  <2>4. QED
    BY <1>1, <1>2, <2>1, <2>3, Erased
<1>3. CASE store[t].key \notin DOMAIN memory
  <2>1. Return(t) /\ UNCHANGED <<cached, usage>>
    BY <1>3 DEF RemoveChunk
  <2>2. CallsSound(store', given.put)
    BY <1>1, <2>1, Returned
  <2>3. QED
    BY <1>1, <2>1, <2>2, NothingStored
<1>4. QED
  BY <1>2, <1>3

LEMMA ClearStep == ASSUME CacheIInv, NEW t, t \in CacheThreads, Clear(t) PROVE CacheIInv'
<1>1. /\ memory' = <<>> /\ access_order' = <<>> /\ created' = <<>>
      /\ usage' = [usage EXCEPT !.memory = 0] /\ Goto(t, "wipe")
      /\ UNCHANGED <<stored, config, given>>
  BY DEF Clear
<1>2. DiskKept' /\ DiskShape' /\ SettingsKept' /\ usage'.memory = 0
  BY <1>1, DiskLeft
<1>3. MemoryKept'
  <2>1. Limits # {}
    BY DEF CacheIInv, SettingsKept
  <2>2. QED
    BY <1>1, <1>2, <2>1, MemoryEmpty DEF MemoryKept
<1>4. CallsSound(store', given.put)
  <2>1. Leads(store[t].pc, "wipe")
    BY DEF Leads, Putting
  <2>2. QED
    BY <1>1, <2>1, Gone DEF CacheIInv
<1>5. QED
  BY <1>1, <1>2, <1>3, <1>4 DEF CacheIInv

(* Steps that only take a thread further.                                  *)
Further(t) ==
    \/ PutQueued(t) \/ Holds(t) \/ LookUp(t) \/ Flush(t) \/ AllTaken(t) \/ SaveToDisk(t)

LEMMA FurtherStep == ASSUME CacheIInv, NEW t, t \in CacheThreads, Further(t) PROVE CacheIInv'
<1>1. UNCHANGED <<cached, usage, stored, config, given>>
  BY DEF Further, PutQueued, Holds, LookUp, Flush, AllTaken, SaveToDisk
<1>2. \/ Return(t) \/ Goto(t, "search") \/ Goto(t, "next") \/ Goto(t, "sync") \/ Goto(t, "index")
  BY DEF Further, PutQueued, Holds, LookUp, Flush, AllTaken, SaveToDisk
<1>3. CallsSound(store', given.put)
  <2>1. CallsSound(store, given.put)
    BY DEF CacheIInv
  <2>2. \A pc \in {"search", "next", "sync", "index"} : Leads(store[t].pc, pc)
    BY DEF Leads, Putting
  <2>3. QED
    BY <1>2, <2>1, <2>2, Returned, Gone
<1>4. QED
  BY <1>1, <1>3, NothingStored

(* Steps that give a thread a key to save.                                 *)
Given(t, pc) ==
    /\ DOMAIN store' = DOMAIN store /\ \A u \in DOMAIN store : u # t => store'[u] = store[u]
    /\ DOMAIN store'[t] = DOMAIN store[t] /\ store'[t].pc = pc

LEMMA KeyTaken ==
  ASSUME CacheIInv, UNCHANGED <<cached, usage, stored, config, given>>,
         NEW t, t \in CacheThreads, NEW pc \in {"next", "write"}, Given(t, pc),
         pc = "write" => store'[t].key \in Coordinates
  PROVE  CacheIInv'
<1>1. /\ CallsSound(store, given.put) /\ DOMAIN store = CacheThreads
      /\ DOMAIN store[t] = {"pc", "key", "content", "todo", "out"}
  BY DEF CacheIInv, CallsSound, CallSound
<1>2. CallSound(store'[t], given.put)
  BY <1>1 DEF CallSound, Putting, Given
<1>3. CallsSound(store', given.put)
  BY <1>1, <1>2 DEF CallsSound, Given
<1>4. QED
  BY <1>3, NothingStored

LEMMA TakeBatchStep == ASSUME CacheIInv, TakeBatch PROVE CacheIInv'
<1>1. Saver \in CacheThreads /\ DOMAIN store = CacheThreads
      /\ DOMAIN store[Saver] = {"pc", "key", "content", "todo", "out"}
  BY DEF CacheThreads, CacheIInv, CallsSound, CallSound
<1>2. PICK todo : store' = [store EXCEPT ![Saver].pc = "next", ![Saver].todo = todo]
  BY DEF TakeBatch
<1>3. UNCHANGED <<cached, usage, stored, config, given>>
  BY DEF TakeBatch
<1>4. Given(Saver, "next")
  BY <1>1, <1>2 DEF Given
<1>5. QED
  BY <1>1, <1>3, <1>4, KeyTaken

LEMMA NextKeyStep == ASSUME CacheIInv, NEW t, t \in CacheThreads, NextKey(t) PROVE CacheIInv'
<1>1. DOMAIN store = CacheThreads /\ DOMAIN store[t] = {"pc", "key", "content", "todo", "out"}
  BY DEF CacheIInv, CallsSound, CallSound
<1>2. UNCHANGED <<cached, usage, stored, config, given>>
  BY DEF NextKey
<1> DEFINE k == Head(Waiting(t))
           pc == IF k \in DOMAIN memory /\ memory[k].dirty THEN "write" ELSE "next"
<1>3. /\ pc \in {"next", "write"}
      /\ \/ store' = [store EXCEPT ![t].pc = pc, ![t].key = k, ![t].todo = Tail(@)]
         \/ store' = [store EXCEPT ![t].pc = pc, ![t].key = k]
  BY DEF NextKey
<1>a. pc = "write" => k \in Coordinates
  BY DEF CacheIInv, MemoryKept, MemorySound
<1> HIDE DEF k, pc
<1>4. Given(t, pc) /\ store'[t].key = k
  <2>1. CASE store' = [store EXCEPT ![t].pc = pc, ![t].key = k, ![t].todo = Tail(@)]
    BY <1>1, <2>1 DEF Given
  <2>2. CASE store' = [store EXCEPT ![t].pc = pc, ![t].key = k]
    BY <1>1, <2>2 DEF Given
  <2>3. QED
    BY <1>3, <2>1, <2>2
<1>5. QED
  BY <1>2, <1>3, <1>4, <1>a, KeyTaken

-----------------------------------------------------------------------------
(* Steps of the disk.                                                      *)
LEMMA MemoryApart ==
  ASSUME CacheIInv, UNCHANGED <<cached, config, given>>, usage'.memory = usage.memory,
         DiskKept', DiskShape', CallsSound(store', given.put)
  PROVE  CacheIInv'
<1>1. MemoryKept'
  BY MemoryLeft
<1>2. QED
  BY <1>1 DEF CacheIInv, SettingsKept

LEMMA SpillStep == ASSUME CacheIInv, NEW t, t \in CacheThreads, Spill(t) PROVE CacheIInv'
<1> DEFINE k == store[t].out.key
           c == store[t].out.content
<1>1. /\ store[t].pc = "spill" /\ Goto(t, "relock") /\ UNCHANGED <<cached, config, given>>
      /\ \E ok \in {FALSE, Readable(k)} : SaveToDiskInternal(k, c, ok)
  BY DEF Spill, Where
<1>2. CallsSound(store, given.put) /\ CallSound(store[t], given.put)
  BY DEF CacheIInv, CallsSound
<1>3. k \in Coordinates /\ c \in Contents /\ Under(given.put, k, c)
  BY <1>1, <1>2 DEF CallSound
<1> HIDE DEF k, c
<1>4. PICK ok \in BOOLEAN : SaveToDiskInternal(k, c, ok)
  <2>1. PICK ok \in {FALSE, Readable(k)} : SaveToDiskInternal(k, c, ok)
    BY <1>1
  <2>2. ok \in BOOLEAN
    <3>1. Readable(k) \in BOOLEAN
      BY DEF Readable
    <3>2. QED
      BY <2>1, <3>1
  <2>3. QED
    BY <2>1, <2>2
<1>5. DiskKept' /\ DiskShape' /\ usage'.memory = usage.memory
  <2>1. DiskSound(index, disk.files, usage.disk, disk.index, given.put) /\ DiskShape
    BY DEF CacheIInv, DiskKept
  <2>2. given' = given
    BY <1>1
  <2>3. QED
    BY <1>3, <1>4, <2>1, <2>2, Saved DEF DiskKept
<1>6. CallsSound(store', given.put)
  <2>1. Leads(store[t].pc, "relock")
    BY <1>1 DEF Leads
  <2>2. QED
    BY <1>1, <1>2, <2>1, Gone
<1>7. QED
  BY <1>1, <1>5, <1>6, MemoryApart

(* What freed memory gives counts as put under the key it is written for.  *)
LEMMA WriteStep == ASSUME CacheIInv, NEW t, t \in CacheThreads, Write(t) PROVE CacheIInv'
<1> DEFINE k == store[t].key
<1>1. /\ UNCHANGED <<cached, config>> /\ store[t].pc = "write"
      /\ Goto(t, "mark") \/ Goto(t, "next")
      /\ CallsSound(store, given.put) /\ MemoryKept /\ DiskShape /\ SettingsKept
      /\ DiskSound(index, disk.files, usage.disk, disk.index, given.put)
  BY DEF Write, Where, CacheIInv, DiskKept
<1>2. k \in Coordinates
  BY <1>1 DEF CallsSound, CallSound
<1>3. CallsSound(store', given.put)
  <2>1. Leads(store[t].pc, "mark") /\ Leads(store[t].pc, "next")
    BY DEF Leads, Putting
  <2>2. QED
    BY <1>1, <2>1, Gone
<1> HIDE DEF k
<1>4. CASE k \in DOMAIN memory /\ SaveToDiskInternal(k, memory[k].content, TRUE) /\ UNCHANGED given
  <2>1. memory[k] \in CacheEntries /\ Under(given.put, k, memory[k].content)
    BY <1>4 DEF CacheIInv, MemoryKept, MemorySound
  <2>2. memory[k].content \in Contents
    BY <2>1 DEF CacheEntries
  <2>3. DiskKept' /\ DiskShape' /\ usage'.memory = usage.memory
    BY <1>1, <1>2, <1>4, <2>1, <2>2, Saved DEF DiskKept
  <2>4. QED
    BY <1>1, <1>3, <1>4, <2>3, MemoryApart
<1>5. ASSUME NEW c \in Contents, SaveToDiskInternal(k, c, TRUE),
             given' = [put |-> given.put \cup {<<k, c>>}, calls |-> given.calls]
      PROVE  CacheIInv'
  <2> DEFINE put == given'.put
  <2>1. given.put \subseteq put /\ Under(put, k, c)
    <3>1. put = given.put \cup {<<k, c>>} /\ <<k, c>>[1] = k /\ <<k, c>>[2] = c
      BY <1>5
    <3>2. QED
      BY <3>1 DEF Under
  <2> HIDE DEF put
  <2>2. CallsSound(store', put) /\ FilesSound(disk.files, put)
    BY <1>1, <1>3, <2>1, MoreGiven DEF DiskSound
  <2>3. DiskSound(index, disk.files, usage.disk, disk.index, put)
    BY <1>1, <2>2 DEF DiskSound
  <2>4. /\ DiskSound(index', disk'.files, usage'.disk, disk'.index, put)
        /\ DiskShape' /\ usage'.memory = usage.memory
    BY <1>1, <1>2, <1>5, <2>1, <2>3, Saved
  <2>5. MemorySound(memory, access_order, created, usage.memory, put)
    BY <1>1, <2>1, MorePut DEF MemoryKept
  <2>6. QED
    BY <1>1, <2>2, <2>4, <2>5
    DEF CacheIInv, MemoryKept, DiskKept, SettingsKept, put, cached
<1>6. CASE SaveToDiskInternal(k, 0, FALSE) /\ UNCHANGED given
  <2>1. DiskKept' /\ DiskShape' /\ usage'.memory = usage.memory
    BY <1>1, <1>6, Saved DEF DiskKept
  <2>2. QED
    BY <1>1, <1>3, <1>6, <2>1, MemoryApart
<1>7. QED
  BY <1>4, <1>5, <1>6 DEF Write, k

(* What a file of the index takes with it.                                 *)
LEMMA Dropped ==
  ASSUME CacheIInv, NEW k, k \in KeysOf(index), UNCHANGED given,
         index' = Without(index, k), usage' = [usage EXCEPT !.disk = Minus(@, Entry(k).size)],
         NEW F, disk' = [disk EXCEPT !.files = [f \in DOMAIN @ \ F |-> @[f]]] \/ UNCHANGED disk
  PROVE  DiskKept' /\ DiskShape' /\ usage'.memory = usage.memory
<1>1. /\ index \in Seq(Entries) /\ Short(index) /\ Counted(index, usage.disk)
      /\ disk.index \in Seq(Entries) /\ Short(disk.index) /\ FilesSound(disk.files, given.put)
  BY DEF CacheIInv, DiskKept, DiskSound
<1>2. PICK e : e = Entry(k)
  OBVIOUS
<1>3. e = index[SelectInSeq(index, LAMBDA x : x.key = k)]
  BY <1>2 DEF Entry
<1>4. index' \in Seq(Entries) /\ Short(index') /\ Counted(index', Minus(usage.disk, e.size))
  BY <1>1, <1>3, WithoutCounted
<1>5. DOMAIN usage' = {"memory", "disk"} /\ usage'.memory = usage.memory
      /\ usage'.disk = Minus(usage.disk, e.size)
  BY <1>2 DEF CacheIInv, DiskShape
<1>6. /\ DOMAIN disk' = {"files", "index"} /\ disk'.index = disk.index
      /\ FilesSound(disk'.files, given.put)
  <2>1. CASE disk' = [disk EXCEPT !.files = [f \in DOMAIN @ \ F |-> @[f]]]
    <3>1. /\ DOMAIN disk' = {"files", "index"} /\ disk'.index = disk.index
          /\ disk'.files = [f \in DOMAIN disk.files \ F |-> disk.files[f]]
      BY <2>1 DEF CacheIInv, DiskShape
    <3>2. PICK files : files = [f \in DOMAIN disk.files \ F |-> disk.files[f]]
      OBVIOUS
    <3>3. FilesSound(files, given.put)
      BY <1>1, <3>2, FewerFiles
    <3>4. QED
      BY <3>1, <3>2, <3>3
  <2>2. CASE UNCHANGED disk
    BY <1>1, <2>2 DEF CacheIInv, DiskShape
  <2>3. QED
    BY <2>1, <2>2
<1>7. QED
  BY <1>1, <1>4, <1>5, <1>6 DEF DiskKept, DiskSound, DiskShape

LEMMA UnlinkStep == ASSUME CacheIInv, NEW t, t \in CacheThreads, Unlink(t) PROVE CacheIInv'
<1> DEFINE k == store[t].key
<1>1. RemoveFromDisk(k) /\ Return(t) /\ UNCHANGED <<cached, config, given>>
  BY DEF Unlink
<1>2. CallsSound(store', given.put)
  BY <1>1, Returned DEF CacheIInv
<1> HIDE DEF k
<1>3. CASE k \in KeysOf(index)
  <2>1. /\ disk' = [disk EXCEPT !.files = [f \in DOMAIN @ \ {File(k)} |-> @[f]]]
        /\ usage' = [usage EXCEPT !.disk = Minus(@, Entry(k).size)]
        /\ index' = Without(index, k)
    BY <1>1, <1>3 DEF RemoveFromDisk, Less
  <2>2. DiskKept' /\ DiskShape' /\ usage'.memory = usage.memory
    BY <1>1, <1>3, <2>1, Dropped
  <2>3. QED
    BY <1>1, <1>2, <2>2, MemoryApart
<1>4. CASE k \notin KeysOf(index)
  <2>1. UNCHANGED <<cached, usage, stored, config, given>>
    BY <1>1, <1>4 DEF RemoveFromDisk, stored
  <2>2. QED
    BY <1>2, <2>1, NothingStored
<1>5. QED
  BY <1>3, <1>4

(* What is read from the file of a key was put under one that shares it.   *)
LEMMA LoadFromDiskStep ==
  ASSUME CacheIInv, NEW t, t \in CacheThreads, LoadFromDiskInternal(t) PROVE CacheIInv'
<1> DEFINE k == store[t].key
           call == store[t]
<1>1. call.pc = "load" /\ UNCHANGED <<cached, disk, config, given>>
  BY DEF LoadFromDiskInternal, Where
<1>2. CallsSound(store, given.put) /\ CallSound(call, given.put)
  BY DEF CacheIInv, CallsSound
<1>3. k \in Coordinates /\ DOMAIN call = {"pc", "key", "content", "todo", "out"}
  BY <1>1, <1>2 DEF CallSound
<1>4. CASE k \in KeysOf(index) /\ File(k) \in DOMAIN disk.files
  <2> DEFINE c == disk.files[File(k)]
  <2>1. store' = [store EXCEPT ![t].pc = "put", ![t].content = c] /\ UNCHANGED <<index, usage>>
    BY <1>4 DEF LoadFromDiskInternal
  <2>2. c \in Contents /\ Under(given.put, k, c)
    <3>1. PICK x \in Coordinates : File(x) = File(k) /\ Under(given.put, x, c) /\ c \in Contents
      BY <1>4 DEF CacheIInv, DiskKept, DiskSound, FilesSound
    <3>2. QED
      BY <3>1 DEF Under, File
  <2> HIDE DEF c
  <2>3. PICK new : new = [call EXCEPT !.pc = "put", !.content = c]
    OBVIOUS
  <2>4. store' = [store EXCEPT ![t] = new]
    BY <2>1, <2>3
  <2>5. /\ DOMAIN new = {"pc", "key", "content", "todo", "out"}
        /\ new.pc = "put" /\ new.key = k /\ new.content = c
    BY <1>3, <2>3
  <2>6. CallSound(new, given.put)
    BY <1>3, <2>2, <2>5 DEF CallSound
  <2>7. CallsSound(store', given.put)
    BY <1>2, <2>4, <2>6, OneCall
  <2>8. UNCHANGED <<cached, usage, stored, config, given>>
    BY <1>1, <2>1 DEF stored
  <2>9. QED
    BY <2>7, <2>8, NothingStored
<1>5. CASE k \in KeysOf(index) /\ File(k) \notin DOMAIN disk.files
  <2>1. /\ usage' = [usage EXCEPT !.disk = Minus(@, Entry(k).size)]
        /\ index' = Without(index, k) /\ Return(t)
    BY <1>5 DEF LoadFromDiskInternal
  <2>2. CallsSound(store', given.put)
    BY <1>2, <2>1, Returned
  <2> HIDE DEF k
  <2>3. DiskKept' /\ DiskShape' /\ usage'.memory = usage.memory
    BY <1>1, <1>5, <2>1, Dropped
  <2>4. QED
    BY <1>1, <2>2, <2>3, MemoryApart
<1>6. CASE k \notin KeysOf(index)
  <2>1. Return(t) /\ UNCHANGED <<cached, usage, stored, config, given>>
    BY <1>1, <1>6 DEF LoadFromDiskInternal, stored
  <2>2. CallsSound(store', given.put)
    BY <1>2, <2>1, Returned
  <2>3. QED
    BY <2>1, <2>2, NothingStored
<1>7. QED
  BY <1>4, <1>5, <1>6

LEMMA WipeStep == ASSUME CacheIInv, NEW t, t \in CacheThreads, Wipe(t) PROVE CacheIInv'
<1> DEFINE F == {File(k) : k \in KeysOf(index)}
<1>1. /\ disk' = [disk EXCEPT !.files = [f \in DOMAIN @ \ F |-> @[f]]]
      /\ index' = <<>> /\ usage' = [usage EXCEPT !.disk = 0] /\ Return(t)
      /\ UNCHANGED <<cached, config, given>>
  BY DEF Wipe
<1>2. CallsSound(store', given.put)
  BY <1>1, Returned DEF CacheIInv
<1>3. /\ disk.index \in Seq(Entries) /\ Short(disk.index) /\ FilesSound(disk.files, given.put)
      /\ DiskShape
  BY DEF CacheIInv, DiskKept, DiskSound
<1> HIDE DEF F
<1>4. /\ DiskShape' /\ usage'.disk = 0 /\ usage'.memory = usage.memory /\ disk'.index = disk.index
      /\ disk'.files = [f \in DOMAIN disk.files \ F |-> disk.files[f]]
  BY <1>1, <1>3 DEF DiskShape
<1>5. FilesSound(disk'.files, given.put)
  <2>1. PICK files : files = [f \in DOMAIN disk.files \ F |-> disk.files[f]]
    OBVIOUS
  <2>2. FilesSound(files, given.put)
    BY <1>3, <2>1, FewerFiles
  <2>3. QED
    BY <1>4, <2>1, <2>2
<1>6. DiskKept'
  <2>1. DiskSound(<<>>, <<>>, 0, <<>>, given.put)
    BY DiskEmpty
  <2>2. QED
    BY <1>1, <1>3, <1>4, <1>5, <2>1 DEF DiskKept, DiskSound
<1>7. QED
  BY <1>1, <1>2, <1>4, <1>6, MemoryApart

LEMMA WriteIndexStep == ASSUME CacheIInv, NEW t, t \in CacheThreads, WriteIndex(t) PROVE CacheIInv'
<1>1. UNCHANGED <<cached, usage, index, config, given>> /\ CallsSound(store, given.put)
  BY DEF WriteIndex, CacheIInv
<1>2. CallsSound(store', given.put)
  <2>1. Goto(t, "stuck") \/ Return(t)
    BY DEF WriteIndex
  <2>2. Leads(store[t].pc, "stuck")
    BY DEF Leads, Putting
  <2>3. QED
    BY <1>1, <2>1, <2>2, Gone, Returned
<1>3. DiskKept' /\ DiskShape'
  <2>1. DiskKept /\ DiskShape
    BY DEF CacheIInv
  <2>2. CASE UNCHANGED disk
    BY <1>1, <2>1, <2>2 DEF DiskKept, DiskShape
  <2>3. CASE disk' = [disk EXCEPT !.index = index]
    <3>1. /\ DOMAIN disk' = {"files", "index"} /\ disk'.files = disk.files /\ disk'.index = index
      BY <2>1, <2>3 DEF DiskShape
    <3>2. QED
      BY <1>1, <2>1, <3>1 DEF DiskKept, DiskShape, DiskSound
  <2>4. QED
    BY <2>2, <2>3 DEF WriteIndex
<1>4. QED
  BY <1>1, <1>2, <1>3, MemoryApart

LEMMA RestartStep == ASSUME CacheIInv, Restart PROVE CacheIInv'
<1>1. /\ memory' = <<>> /\ access_order' = <<>> /\ created' = <<>>
      /\ index' = disk.index /\ usage' = [memory |-> 0, disk |-> SizeOnDisk(disk.index)]
      /\ store' = [t \in CacheThreads |-> NoCall] /\ UNCHANGED <<disk, config, given>>
  BY DEF Restart
<1>2. /\ DOMAIN usage' = {"memory", "disk"}
      /\ usage'.memory = 0 /\ usage'.disk = SizeOnDisk(disk.index)
  BY <1>1
<1>3. MemoryKept'
  <2>1. Limits # {}
    BY DEF CacheIInv, SettingsKept
  <2>2. QED
    BY <1>1, <1>2, <2>1, MemoryEmpty DEF MemoryKept
<1>4. DiskKept'
  <2>1. /\ disk.index \in Seq(Entries) /\ Short(disk.index) /\ FilesSound(disk.files, given.put)
    BY DEF CacheIInv, DiskKept, DiskSound
  <2>2. Counted(disk.index, SizeOnDisk(disk.index))
    BY <2>1, SizeTyped DEF Counted
  <2>3. QED
    BY <1>1, <1>2, <2>1, <2>2 DEF DiskKept, DiskSound
<1>5. DiskShape' /\ SettingsKept'
  BY <1>1, <1>2 DEF DiskShape, SettingsKept, CacheIInv
<1>6. CallsSound(store', given'.put)
  BY <1>1, NoCallSound DEF CallsSound
<1>7. QED
  BY <1>3, <1>4, <1>5, <1>6 DEF CacheIInv

LEMMA SetConfigStep == ASSUME CacheIInv, NEW limit \in Limits, SetConfig(limit) PROVE CacheIInv'
<1>1. config' = [config EXCEPT !.limit = limit] /\ UNCHANGED <<cached, usage, stored, store, given>>
  BY DEF SetConfig
<1>2. SettingsKept'
  BY <1>1 DEF CacheIInv, SettingsKept
<1>3. QED
  BY <1>1, <1>2 DEF CacheIInv, MemoryKept, DiskKept, DiskShape, cached, stored

-----------------------------------------------------------------------------
(* Calls start with what was given.                                        *)
LEMMA CallStep ==
  ASSUME CacheIInv, NEW t, t \in CacheThreads, NEW op, NEW k, NEW c, Call(t, op, k, c),
         \/ op = "put" /\ k \in Coordinates /\ c \in Contents
         \/ op = "get" /\ k \in Coordinates
         \/ op \in {"remove", "contains", "clear", "flush", "sync"}
  PROVE  CacheIInv'
<1> DEFINE put == IF op = "put" THEN given.put \cup {<<k, c>>} ELSE given.put
<1>1. /\ store' = [store EXCEPT ![t] = [NoCall EXCEPT !.pc = op, !.key = k, !.content = c]]
      /\ given'.put = put
      /\ UNCHANGED <<cached, usage, stored, config>>
  BY DEF Call
<1>2. given.put \subseteq put /\ (op = "put" => <<k, c>> \in put)
  OBVIOUS
<1>3. op = "put" => Under(put, k, c)
  <2>1. <<k, c>>[1] = k /\ <<k, c>>[2] = c
    OBVIOUS
  <2>2. QED
    BY <1>2, <2>1 DEF Under
<1> HIDE DEF put
<1>4. /\ CallsSound(store, given.put) /\ FilesSound(disk.files, given.put)
      /\ MemorySound(memory, access_order, created, usage.memory, given.put)
  BY DEF CacheIInv, DiskKept, DiskSound, MemoryKept
<1>5. CallsSound(store, put) /\ FilesSound(disk.files, put)
  BY <1>2, <1>4, MoreGiven
<1>6. MemorySound(memory, access_order, created, usage.memory, put)
  BY <1>2, <1>4, MorePut
<1>7. PICK new : new = [NoCall EXCEPT !.pc = op, !.key = k, !.content = c]
  OBVIOUS
<1>8. /\ DOMAIN new = {"pc", "key", "content", "todo", "out"}
      /\ new.pc = op /\ new.key = k /\ new.content = c
  BY <1>7 DEF NoCall
<1>9. CallSound(new, put)
  BY <1>3, <1>8 DEF CallSound, Putting
<1>10. CallsSound(store', put)
  <2>1. store' = [store EXCEPT ![t] = new]
    BY <1>1, <1>7
  <2>2. QED
    BY <1>5, <1>9, <2>1, OneCall
<1>11. MemoryKept'
  BY <1>1, <1>6 DEF MemoryKept, cached
<1>12. DiskKept'
  BY <1>1, <1>5 DEF CacheIInv, DiskKept, DiskSound, stored
<1>13. DiskShape' /\ SettingsKept'
  BY <1>1 DEF CacheIInv, DiskShape, SettingsKept, stored
<1>14. QED
  BY <1>1, <1>10, <1>11, <1>12, <1>13 DEF CacheIInv

(* Whatever a thread does next, and over a restart.                        *)
LEMMA CacheStep == ASSUME CacheIInv, [StoreNext]_storeVars PROVE CacheIInv'
<1>1. ASSUME NEW t \in Clients, Calls(t) PROVE CacheIInv'
  <2>1. t \in CacheThreads
    BY DEF CacheThreads
  <2>2. CASE \E k \in Coordinates, c \in Contents : Call(t, "put", k, c)
    BY <2>1, <2>2, CallStep
  <2>3. CASE \E k \in Coordinates, op \in {"get", "remove", "contains"} : Call(t, op, k, 0)
    BY <2>1, <2>3, CallStep
  <2>4. CASE \E op \in {"clear", "flush", "sync"} : Call(t, op, 0, 0)
    BY <2>1, <2>4, CallStep
  <2>5. QED
    BY <1>1, <2>2, <2>3, <2>4 DEF Calls
<1>2. ASSUME NEW t, t \in CacheThreads, InMemory(t) PROVE CacheIInv'
  BY <1>2, PutStep, ApplyEvictionPolicyStep, EvictStep, RelockStep, GetChunkStep, RemoveChunkStep,
     ClearStep, FurtherStep DEF InMemory, Further
<1>3. ASSUME NEW t, t \in CacheThreads, OnDisk(t) PROVE CacheIInv'
  BY <1>3, SpillStep, LoadFromDiskStep, UnlinkStep, WipeStep, FurtherStep DEF OnDisk, Further
<1>4. ASSUME NEW t, t \in CacheThreads, Flush(t) \/ SaveToDisk(t) \/ WriteIndex(t) PROVE CacheIInv'
  BY <1>4, FurtherStep, WriteIndexStep DEF Further
<1>5. ASSUME NEW t, t \in CacheThreads, Saving(t) PROVE CacheIInv'
  BY <1>5, NextKeyStep, FurtherStep, WriteStep, MarkStep DEF Saving, Further
<1>6. CASE UNCHANGED storeVars
  BY <1>6 DEF storeVars, cached, stored, CacheIInv, MemoryKept, DiskKept, DiskShape, SettingsKept
<1>7. QED
  <2>1. \A t \in Clients : t \in CacheThreads
    BY DEF CacheThreads
  <2>2. CASE StoreNext
    BY <1>1, <1>2, <1>3, <1>4, <1>5, <2>1, <2>2,
       TakeBatchStep, RestartStep, SetConfigStep DEF StoreNext, StoreStep
  <2>3. QED
    BY <1>6, <2>2

LEMMA CacheIInvIsSound == ASSUME CacheIInv PROVE CacheInv
<1>1. /\ MemorySound(memory, access_order, created, usage.memory, given.put)
      /\ DiskSound(index, disk.files, usage.disk, disk.index, given.put)
  BY DEF CacheIInv, MemoryKept, DiskKept
<1>2. TrackingAgrees
  <2>1. /\ Lists(access_order, DOMAIN memory) /\ Lists(created, DOMAIN memory)
        /\ usage.memory = Weight(Bytes(memory), created) /\ created \in Seq(Coordinates)
    BY <1>1 DEF MemorySound
  <2>2. Weights(Bytes(memory), created) = [i \in 1..Len(created) |-> memory[created[i]].content]
    <3>1. \A i \in 1..Len(created) : created[i] \in DOMAIN memory
      BY <2>1 DEF Lists, ToSet
    <3>2. QED
      BY <3>1 DEF Weights, Bytes
  <2>3. QED
    BY <2>1, <2>2 DEF TrackingAgrees, Lists, Weight
<1>3. StoreBounded
  <2>1. usage.memory <= max_memory_size_bytes /\ Few(memory)
    BY <1>1 DEF MemorySound
  <2>2. Short(index) /\ Counted(index, usage.disk) /\ SizeOnDisk(index) \in Nat
    BY <1>1, SizeTyped DEF DiskSound
  <2>3. QED
    BY <2>1, <2>2 DEF StoreBounded, Few, Short, Counted
<1>4. Genuine
  <2>1. \A k, c : Under(given.put, k, c) => PutUnder(k, c)
    BY DEF Under, PutUnder
  <2>2. QED
    BY <1>1, <2>1 DEF Genuine, MemorySound, DiskSound, FilesSound
<1>5. QED
  BY <1>2, <1>3, <1>4 DEF CacheInv

(* Whatever is put, evicted, replaced, removed, saved, cleared or loaded,  *)
(* and over restarts with an old index, the lists and the bytes in use are *)
(* those of the chunks in memory, memory and disk keep to their limits,    *)
(* and a chunk found under a key was put under one that shares its file.   *)
THEOREM CacheIsSound == StoreSpec => []CacheInv
<1>1. StoreInit => CacheIInv
  BY CacheStarts
<1>2. CacheIInv /\ [StoreNext]_storeVars => CacheIInv'
  BY CacheStep
<1>3. CacheIInv => CacheInv
  BY CacheIInvIsSound
<1>4. QED
  BY <1>1, <1>2, <1>3, PTL DEF StoreSpec
=============================================================================
