-------------------------- MODULE MCServerLifecycle --------------------------
(***************************************************************************)
(* ServerLifecycle, LogService and DatabaseManager for TLC, side by side:  *)
(* a behaviour runs one of them, the focus.  The close of the log is the   *)
(* last thing that Exit of ServerLifecycle does; a database manager is     *)
(* part of each process of the server.                                     *)
(***************************************************************************)
EXTENDS ServerLifecycle

CONSTANTS
    Children, MaxLogLines, maxFileSize_, FileCounts,
    Servers, Configured, LowerCase, Built, Tables, Migrations, NamedAlike, Workers, MaxCalls,
    SqlLines, MaxSqlLines, Keys

VARIABLES
    focus,
    logQueue_, running_, maxFiles_, writer, line, files, notifications, stopper, sink, wire,
    accepted, pushed, sent, atStop,
    managers, catalog, undone, pool, calls, queue, busy, main_io, joined, file, queries

Log == INSTANCE LogService
Db == INSTANCE DatabaseManager

ASSUME LogAssumption == Log!LogConstants
ASSUME DatabaseAssumption == Db!DatabaseConstants

logVars == <<logQueue_, running_, maxFiles_, writer, line, files, notifications, stopper,
             sink, wire, accepted, pushed, sent, atStop>>
serverVars == <<main, nextId, workers, at, proc, pipe, signals>>
managerVars == <<managers, catalog, undone>>
serviceVars == <<pool, calls, queue, busy, main_io, joined>>
providerVars == <<file, queries>>
databaseVars == <<managerVars, serviceVars, providerVars>>
allVars == <<focus, serverVars, logVars, databaseVars>>

Settings(given, wrong) == [given |-> given, wrong |-> wrong]
TheConfigured ==
    {Settings([backend |-> "sqlite"], {}), Settings([backend |-> "citus"], {}),
     Settings([min |-> 6, max |-> 5], {}), Settings([port |-> 65536], {}),
     Settings([name |-> "game_db", user |-> "game", pool |-> FALSE], {}),
     Settings([backend |-> "Postgres", name |-> "game_db", user |-> "game", min |-> 1], {}),
     Settings([name |-> "game_db", user |-> "game", port |-> 0], {"port"})}
TheLowerCase == [word \in {"Postgres"} |-> "postgres"]
TheNamedAlike == [v \in {1, 2} |-> IF v = 1 THEN {1, 10} ELSE {v}]

(* Where a part is not the focus it starts in one state.                   *)
MasterInit ==
    /\ focus \in {"server", "log", "manager", "service", "provider"}
    /\ Init /\ Log!LogInit
    /\ focus # "log" => maxFiles_ = CHOOSE n \in FileCounts : TRUE
    /\ Db!ManagerInit
    /\ focus # "manager" => catalog.versions = {} /\ catalog.databases = {Db!Admin}
                            /\ \A s \in Servers : managers[s].config = CHOOSE c \in Configured : TRUE
    /\ Db!ServiceInit
    /\ focus # "service" => pool = {CHOOSE w \in Workers : TRUE}
    /\ Db!ProviderInit
    /\ focus # "provider" => file = <<>>

ServerOnly(A) == focus = "server" /\ A /\ UNCHANGED <<focus, logVars, databaseVars>>

DatabaseNext ==
    \/ focus = "manager" /\ Db!ManagerNext /\ UNCHANGED <<serviceVars, providerVars>>
    \/ focus = "service" /\ Db!ServiceNext /\ UNCHANGED <<managerVars, providerVars>>
    \/ focus = "provider" /\ Db!LoadFromFile /\ UNCHANGED <<managerVars, serviceVars>>

MasterNext ==
    /\ UNCHANGED focus
    /\ \/ focus = "server" /\ Next /\ UNCHANGED <<logVars, databaseVars>>
       \/ focus = "log" /\ Log!LogNext /\ UNCHANGED <<serverVars, databaseVars>>
       \/ DatabaseNext /\ UNCHANGED <<serverVars, logVars>>

(* The main thread of the master runs.                                     *)
MasterSpec == MasterInit /\ [][MasterNext]_allVars /\ WF_allVars(ServerOnly(MainStep))

(* Stated in its module: what the senders give the log is written, in      *)
(* order, into files that stay within their bounds, until the log stops.   *)
LogInv == focus = "log" => Log!LogInv

(* Stated in its module: a server that started is on its database with all *)
(* its tables, a start that failed leaves nothing open, a migration is     *)
(* undone by its own file, no call of the service is lost, and the queries *)
(* are those of the .sql file.                                             *)
DatabaseInv == focus \in {"manager", "service", "provider"} => Db!DatabaseInv
=============================================================================
