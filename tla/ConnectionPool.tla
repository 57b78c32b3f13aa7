----------------------------- MODULE ConnectionPool -----------------------------
(***************************************************************************)
(* The connection pool of PostgreSqlClient: the threads of the master      *)
(* (io, game loop, savers, DatabaseService) take a connection for every    *)
(* statement and give it back, and a maintenance thread looks after the    *)
(* idle ones.  All of them work under poolMutex_, which a thread gives up  *)
(* only while it waits for a connection.                                   *)
(*                                                                         *)
(* A connection is the address of its PGconn, which the allocator may give *)
(* out again once it is finished.  The scan of connections_ may find any   *)
(* idle connection that passes TestConnection.  A PGconn whose connect      *)
(* failed is dropped without PQfinish and stays for ever.                  *)
(*                                                                         *)
(* Not modelled: Reconnect and the transactions, which have no caller that *)
(* runs, and a configuration without a pool, where nothing works.          *)
(***************************************************************************)
EXTENDS Integers, FiniteSets

CONSTANTS Threads,
          Conns,            \* the addresses of PGconns
          NoConn,           \* nullptr
          minConnections, maxConnections,
          MaxWaits,         \* seconds a thread waits for a connection
          MaxFaults,        \* bound on the faults of server and network
          MaxLeaks          \* bound on the PGconns dropped without PQfinish

ASSUME PoolAssumption ==
    /\ NoConn \notin Conns
    /\ IsFiniteSet(Conns) /\ maxConnections + MaxLeaks <= Cardinality(Conns)
    /\ minConnections \in Nat \ {0} /\ maxConnections \in Nat
    /\ minConnections <= maxConnections
    /\ MaxWaits \in Nat \ {0} /\ MaxFaults \in Nat /\ MaxLeaks \in Nat

VARIABLES
    poolInitialized,  \* poolInitialized_
    pool,             \* the connections in connections_
    inUse,            \* those of them whose inUse is set
    open,             \* the PGconns that exist
    broken,           \* those of them that do not pass TestConnection
    held,             \* per thread, the connection GetConnection gave it
    waited,           \* per thread, seconds in the wait of GetConnection, or
                      \* -1 when it is not there
    serverUp, faults

vars == <<poolInitialized, pool, inUse, open, broken, held, waited, serverUp, faults>>

TypeOK ==
    /\ poolInitialized \in BOOLEAN /\ serverUp \in BOOLEAN
    /\ pool \subseteq open /\ inUse \subseteq pool
    /\ broken \subseteq open /\ open \subseteq Conns
    /\ held \in [Threads -> Conns \cup {NoConn}]
    /\ waited \in [Threads -> -1..(MaxWaits - 1)]
    /\ faults \in 0..MaxFaults

Init ==
    /\ poolInitialized = FALSE
    /\ pool = {} /\ inUse = {} /\ open = {} /\ broken = {}
    /\ held = [t \in Threads |-> NoConn]
    /\ waited = [t \in Threads |-> -1]
    /\ serverUp = TRUE /\ faults = 0

Idle == pool \ inUse
IdleAndHealthy == Idle \ broken
-----------------------------------------------------------------------------
(* Connects that fail.                                                     *)

Fault == faults < MaxFaults /\ faults' = faults + 1

\* One connect fails: the server is down, or refuses this one.
ConnectFails == (~serverUp /\ UNCHANGED faults) \/ (serverUp /\ Fault)

\* The PGconns nobody can finish any more.
Leaked == open \ pool

\* lost are the PGconns of n failed connects: CreateNewConnection looks at the
\* status and returns nullptr without a PQfinish.
LeftBy(n, lost) ==
    LET left == MaxLeaks - Cardinality(Leaked)
    IN  Cardinality(lost) = IF n < left THEN n ELSE left

LeaveOne ==
    \E lost \in SUBSET (Conns \ open) :
        LeftBy(1, lost) /\ open' = open \cup lost /\ broken' = broken \cup lost
-----------------------------------------------------------------------------
BeforeConnect == ~poolInitialized /\ pool = {} /\ \A t \in Threads : held[t] = NoConn

\* Connect, before the other threads start.
InitializeConnectionPool ==
    /\ BeforeConnect /\ serverUp
    /\ \E fresh \in SUBSET (Conns \ open) :
          /\ Cardinality(fresh) = minConnections
          /\ pool' = fresh /\ open' = open \cup fresh
    /\ poolInitialized' = TRUE
    /\ UNCHANGED <<inUse, broken, held, waited, serverUp, faults>>

\* If one connection cannot be made, the others are closed and the pool stays
\* empty.
InitializationFails ==
    /\ BeforeConnect
    /\ ConnectFails /\ LeaveOne
    /\ UNCHANGED <<poolInitialized, pool, inUse, held, waited, serverUp>>

\* A thread that asks for a connection.
Asks(t) == poolInitialized /\ held[t] = NoConn /\ waited[t] = -1

\* An idle connection that works is taken.
Take(t) ==
    /\ \E c \in IdleAndHealthy :
          inUse' = inUse \cup {c} /\ held' = [held EXCEPT ![t] = c]
    /\ waited' = [waited EXCEPT ![t] = -1]
    /\ UNCHANGED <<poolInitialized, pool, open, broken, serverUp, faults>>

Room == Cardinality(pool) < maxConnections

\* Variant: the new connection enters the pool as an idle one.
EnterIdle(c) == pool' = pool \cup {c} /\ UNCHANGED inUse

EnterInUse(c) == pool' = pool \cup {c} /\ inUse' = inUse \cup {c}

\* A new connection for the thread.
Grow(t) ==
    /\ IdleAndHealthy = {} /\ Room /\ serverUp
    /\ \E c \in Conns \ open :
          EnterInUse(c) /\ open' = open \cup {c} /\ held' = [held EXCEPT ![t] = c]
    /\ UNCHANGED <<poolInitialized, broken, waited, serverUp, faults>>

\* None, and none may be made or the connect fails: the thread waits.
StartWaiting(t) ==
    /\ IdleAndHealthy = {}
    /\ \/ ~Room /\ UNCHANGED <<open, broken, faults>>
       \/ Room /\ ConnectFails /\ LeaveOne
    /\ waited' = [waited EXCEPT ![t] = 0]
    /\ UNCHANGED <<poolInitialized, pool, inUse, held, serverUp>>

\* Variant: every look at the pool starts the wait anew.
WaitAnew(t) == waited' = [waited EXCEPT ![t] = 0]

\* After ten seconds GetConnection gives up.
WaitOn(t) ==
    waited' = [waited EXCEPT ![t] = IF @ + 1 < MaxWaits THEN @ + 1 ELSE -1]

\* Woken by a release or after a second, the thread looks for an idle
\* connection; it does not try to make one.
LookAgain(t) ==
    /\ waited[t] # -1
    /\ \/ Take(t)
       \/ /\ IdleAndHealthy = {}
          /\ WaitOn(t)
          /\ UNCHANGED <<poolInitialized, pool, inUse, open, broken, held,
                         serverUp, faults>>

GetConnection(t) == Asks(t) /\ (Take(t) \/ Grow(t) \/ StartWaiting(t))

\* ReleaseConnection.  A connection the pool does not know is finished.  After
\* Disconnect that happens a second time, to memory that is gone; the process
\* is about to end then, and the step only frees the thread.
ReleaseConnection(t) ==
    /\ held[t] # NoConn
    /\ inUse' = inUse \ {held[t]}
    /\ open' = IF held[t] \in pool THEN open ELSE open \ {held[t]}
    /\ broken' = broken \cap open'
    /\ held' = [held EXCEPT ![t] = NoConn]
    /\ UNCHANGED <<poolInitialized, pool, waited, serverUp, faults>>

\* Variants: a connection that is dropped is not finished; the pool is not
\* filled up again.
NotFinished(gone) == open
NoMinimum(n) == n

\* Maintenance leaves the connections in use alone.
Maintained == Idle
Finish(gone) == open \ gone
AtLeastMinimum(n) == IF n < minConnections THEN minConnections ELSE n

\* What becomes of a pool that keeps some connections and lost others to be
\* replaced: how many it has then, and how many connects left their PGconn.
\* A replacement that fails is dropped; the filling up ends with the first that
\* fails, which is finished if it was only its test that failed.
Refilled(kept, replaced, total, leaks) ==
    \/ /\ serverUp /\ UNCHANGED faults
       /\ total = AtLeastMinimum(kept + replaced) /\ leaks = 0
    \/ /\ ~serverUp /\ UNCHANGED faults
       /\ total = kept
       /\ leaks = replaced + (IF kept < minConnections THEN 1 ELSE 0)
    \/ /\ serverUp /\ Fault
       /\ \/ replaced > 0 /\ total = AtLeastMinimum(kept + replaced - 1) /\ leaks = 1
          \/ total \in (kept + replaced)..(minConnections - 1) /\ leaks \in 0..1

\* MaintainPool: connections idle for more than a minute go, down to the
\* minimum; broken ones are replaced, or dropped if that fails; then the pool
\* is filled up to the minimum.
MaintainPool ==
    /\ poolInitialized
    /\ \E old \in SUBSET Maintained :
          LET replaced == (Maintained \cap broken) \ old
              gone == old \cup replaced
              kept == pool \ gone
          IN  /\ old # {} => Cardinality(pool \ old) >= minConnections
              /\ \E fresh \in SUBSET (Conns \ Finish(gone)) :
                 \E leaks \in 0..(Cardinality(Maintained) + 1) :
                    /\ Refilled(Cardinality(kept), Cardinality(replaced),
                                Cardinality(kept \cup fresh), leaks)
                    /\ pool' = kept \cup fresh
                    /\ \E lost \in SUBSET (Conns \ (Finish(gone) \cup fresh)) :
                          /\ LeftBy(leaks, lost)
                          /\ open' = Finish(gone) \cup fresh \cup lost
                          /\ broken' = (broken \cap Finish(gone)) \cup lost
    /\ UNCHANGED <<poolInitialized, inUse, held, waited, serverUp>>

\* Disconnect, at the end of main: it finishes every connection, those in use
\* by the threads that still run too.
Disconnect ==
    /\ poolInitialized
    /\ poolInitialized' = FALSE
    /\ pool' = {} /\ inUse' = {}
    /\ open' = Leaked /\ broken' = broken \cap Leaked
    /\ UNCHANGED <<held, waited, serverUp, faults>>
-----------------------------------------------------------------------------
(* The server and the network.                                             *)

\* One connection is cut.
Cut(c) ==
    /\ Fault /\ c \in open \ broken
    /\ broken' = broken \cup {c}
    /\ UNCHANGED <<poolInitialized, pool, inUse, open, held, waited, serverUp>>

\* The server stops, and all connections with it.
ServerStops ==
    /\ Fault /\ serverUp
    /\ serverUp' = FALSE /\ broken' = open
    /\ UNCHANGED <<poolInitialized, pool, inUse, open, held, waited>>

ServerStarts ==
    /\ ~serverUp /\ serverUp' = TRUE
    /\ UNCHANGED <<poolInitialized, pool, inUse, open, broken, held, waited, faults>>
-----------------------------------------------------------------------------
Next ==
    \/ InitializeConnectionPool \/ InitializationFails \/ MaintainPool \/ Disconnect
    \/ \E t \in Threads : GetConnection(t) \/ LookAgain(t) \/ ReleaseConnection(t)
    \/ \E c \in Conns : Cut(c)
    \/ ServerStops \/ ServerStarts

Spec == Init /\ [][Next]_vars

\* A wait ends after a second, and the maintenance thread wakes up every thirty
\* seconds for as long as the client exists.
FairSpec ==
    /\ Spec
    /\ WF_vars(MaintainPool)
    /\ \A t \in Threads : WF_vars(LookAgain(t))
-----------------------------------------------------------------------------
(* Properties.                                                             *)

\* As long as the pool is open, no two threads have the same connection, and
\* the connections marked as in use are the ones the threads have, although
\* maintenance closes and replaces connections and addresses come back.
ExclusiveUse ==
    poolInitialized =>
        /\ \A s, t \in Threads : (s # t /\ held[s] # NoConn) => held[s] # held[t]
        /\ inUse = {held[t] : t \in Threads} \ {NoConn}

\* The server never sees more than max_connections of the pool.
WithinMaximum == Cardinality(open \ broken) <= maxConnections

\* No PGconn that works is lost: one that is not in the pool failed to connect,
\* or did not survive its first test.
NothingLeaked == Leaked \subseteq broken

\* All three: what the lock, the marks and the maintenance keep true together.
PoolSafe == ExclusiveUse /\ WithinMaximum /\ NothingLeaked

\* While the server is up, the pool gets back to its minimum.
MinimumRestored ==
    []<>(~poolInitialized \/ ~serverUp \/ Cardinality(pool) >= minConnections)

\* Nobody waits for a connection for ever.
WaitEnds == \A t \in Threads : (waited[t] # -1) ~> (waited[t] = -1)

\* The pool recovers from a stop of the server, and no waiter is left behind.
PoolRecovers == MinimumRestored /\ WaitEnds
=============================================================================
