---------------------------- MODULE DatabaseManager ----------------------------
(***************************************************************************)
(* DbManager, SQLProvider and DatabaseService.                             *)
(*                                                                         *)
(* Several servers may start on one database: EnsureDatabaseExists creates *)
(* the database, and the tables, that it does not find.  The database      *)
(* server is external.  A Citus backend is not built (CitusClient does not *)
(* compile), so a server configured for it does not start.                 *)
(***************************************************************************)
EXTENDS Integers, SequencesExt, FiniteSetsExt, TLC

CONSTANTS
    Servers,      \* processes that start on the database
    Configured,   \* configurations: the settings given, those of a wrong type
    LowerCase,    \* names of backends with capitals to the same without
    Built,        \* kinds of backend compiled in
    Tables,       \* what CreateDefaultTablesIfNotExist goes through
    Migrations,   \* versions with a file under migrations/
    NamedAlike,   \* version to the versions whose file names begin with its
    Workers,      \* threads of a DatabaseService
    MaxCalls,     \* bound on the calls to it
    SqlLines, MaxSqlLines, Keys   \* lines of a .sql file; Keys are the headers among them

VARIABLES
    managers,     \* per server: connected_, running_, backend_, step, config; open
                  \* is poolInitialized_ or db_; history: renewed by Reconnect
    catalog,      \* external: databases, tables, recorded versions
    undone,       \* history: <<version rolled back, version of the file>>
    pool, calls, queue, busy, main_io, joined,     \* DatabaseService
    file, queries \* a .sql file and SQLProvider's queries_

managerVars == <<managers, catalog, undone>>
serviceVars == <<pool, calls, queue, busy, main_io, joined>>
providerVars == <<file, queries>>
databaseVars == <<managerVars, serviceVars, providerVars>>

None == "none"
Admin == "postgres"
Target == "game_db"

(* The file of a version is named after it; no query is named as none.     *)
DatabaseConstants ==
    /\ \A c \in Configured :
         /\ c.wrong \subseteq {"backend", "host", "name", "user", "port"} \cap DOMAIN c.given
         /\ "pool" \in DOMAIN c.given => c.given.pool \in BOOLEAN
    /\ IsFiniteSet(Migrations) /\ \A v \in DOMAIN NamedAlike : v \in NamedAlike[v]
    /\ IsFiniteSet(Workers) /\ MaxCalls \in Nat
    /\ Keys \cup {None} \subseteq SqlLines /\ None \notin Keys /\ MaxSqlLines \in Nat

-----------------------------------------------------------------------------
(* DbManager.                                                              *)

Backend(kind) == [kind |-> kind, open |-> FALSE, db |-> Target]
NoBackend == Backend(None)
Goto(s, step) == [managers EXCEPT ![s].step = step]
Opened(s) == managers[s].backend.open

Lower(word) == IF word \in DOMAIN LowerCase THEN LowerCase[word] ELSE word
ParseBackendType(backend) == CASE Lower(backend) = "sqlite" -> "SQLITE"
                               [] Lower(backend) \in {"postgresql", "postgres"} -> "POSTGRESQL"
                               [] Lower(backend) = "citus" -> "CITUS"
                               [] OTHER -> "INVALID"

(* What the file or ConfigManager gives, with a default for what is not    *)
(* given; a value of a wrong type throws.                                  *)
Defaults == [backend |-> "postgresql", host |-> "127.0.0.1", name |-> Target, user |-> "postgres",
             port |-> 5432, pool |-> TRUE, min |-> 5, max |-> 20]
Loads(c) == c.wrong = {}
LoadConfiguration(c) == [c EXCEPT !.given = @ @@ Defaults]

ValidateConfiguration(c) ==
    /\ "host" \notin c.wrong /\ {"name", "user"} \subseteq DOMAIN c.given \ c.wrong
    /\ "port" \in DOMAIN c.given => "port" \notin c.wrong /\ c.given.port \in 1..65535
    /\ \A size \in {"min", "max"} \cap DOMAIN c.given : c.given[size] > 0
    /\ {"min", "max"} \subseteq DOMAIN c.given => c.given.min <= c.given.max

(* A configuration with no word of a pool has none.                        *)
PoolEnabled(c) ==
    /\ {"pool", "min", "max"} \cap DOMAIN c.given # {}
    /\ "pool" \in DOMAIN c.given => c.given.pool

(* Without a valid configuration, the .sql file or a known backend the     *)
(* start fails; connected_ is set though nothing is connected yet.  Where  *)
(* PostgreSQL is not built it is set without a backend, and the process    *)
(* ends at the next use of it.                                             *)
Initialize(s) ==
    LET m == managers[s]
        config == LoadConfiguration(m.config)
        kind == ParseBackendType(config.given.backend)
        goesOn == Loads(m.config) /\ ValidateConfiguration(config) /\ kind \in Built \cup {"POSTGRESQL"}
    IN /\ m.step = "start"
       /\ \E sqlLoaded \in BOOLEAN :
             managers' = IF m.connected THEN Goto(s, "ready")
                 ELSE IF goesOn /\ sqlLoaded
                 THEN [managers EXCEPT ![s].config = config, ![s].connected = TRUE,
                           ![s].backend = IF kind \in Built THEN Backend(kind) ELSE NoBackend,
                           ![s].step = "ready"]
                 ELSE Goto(s, "failed")
       /\ UNCHANGED <<catalog, undone>>

(* backend_->Connect(): a pool, or for PostgreSQL without one a test only. *)
BackendConnect(s, ok) ==
    [managers EXCEPT ![s].backend.open = @ \/
        (ok /\ (PoolEnabled(managers[s].config) \/ managers[s].backend.kind = "SQLITE"))]
Reachable(s) == managers[s].backend.kind = "SQLITE" \/ managers[s].backend.db \in catalog.databases

ConnectToDatabase(s, db) ==
    [managers EXCEPT ![s].backend.open = FALSE, ![s].backend.db = db]

(* EnsureDatabaseExists, step by step.                                     *)
OpenSQLite(s) ==
    /\ managers[s].step = "ready" /\ managers[s].backend.kind = "SQLITE"
    /\ \E ok \in BOOLEAN :
          managers' = IF ok THEN [BackendConnect(s, TRUE) EXCEPT ![s].step = "tables"]
                      ELSE Goto(s, "failed")
    /\ UNCHANGED <<catalog, undone>>

OpenAdmin(s) ==
    /\ managers[s].step = "ready" /\ managers[s].backend.kind = "POSTGRESQL"
    /\ \E ok \in BOOLEAN :
          managers' = [ConnectToDatabase(s, Admin) EXCEPT
              ![s].backend.open = ok /\ PoolEnabled(managers[s].config),
              ![s].step = IF ok THEN "check" ELSE "failed"]
    /\ UNCHANGED <<catalog, undone>>

CheckExists(s) ==
    /\ managers[s].step = "check"
    /\ \E answered \in BOOLEAN :
          managers' = Goto(s, IF answered /\ Opened(s) /\ Target \in catalog.databases
                              THEN "switch" ELSE "create")
    /\ UNCHANGED <<catalog, undone>>

CreateDatabase(s) ==
    /\ managers[s].step = "create"
    /\ \E ok \in BOOLEAN :
          /\ ok => Opened(s) /\ Target \notin catalog.databases
          /\ catalog' = IF ok THEN [catalog EXCEPT !.databases = @ \cup {Target}] ELSE catalog
          /\ managers' = Goto(s, IF ok THEN "switch" ELSE "recheck")
    /\ UNCHANGED undone

(* Created by another process after all?                                   *)
CheckAgain(s) ==
    /\ managers[s].step = "recheck"
    /\ \E answered \in BOOLEAN :
          managers' = IF answered /\ Opened(s) /\ Target \in catalog.databases
                      THEN Goto(s, "switch")
                      ELSE [Goto(s, "failed") EXCEPT ![s].backend.open = FALSE]
    /\ UNCHANGED <<catalog, undone>>

SwitchToTarget(s) ==
    /\ managers[s].step = "switch"
    /\ \E ok \in BOOLEAN :
          /\ ok => Target \in catalog.databases
          /\ managers' = [ConnectToDatabase(s, Target) EXCEPT
                 ![s].backend.open = ok /\ PoolEnabled(managers[s].config),
                 ![s].step = IF ok THEN "tables" ELSE "failed"]
    /\ UNCHANGED <<catalog, undone>>

(* A variant that goes on with the tables it could make.                   *)
CreateSomeTables(s) ==
    /\ managers[s].step = "tables"
    /\ \E made \in SUBSET Tables :
          /\ made # {} => Opened(s)
          /\ catalog' = [catalog EXCEPT !.tables = @ \cup made]
          /\ managers' = IF made # {} THEN Goto(s, "up") ELSE Goto(s, "failed")
    /\ UNCHANGED undone
(* All are tried whatever fails; SQLite is closed when one did.            *)
CreateDefaultTablesIfNotExist(s) ==
    /\ managers[s].step = "tables"
    /\ \E made \in SUBSET Tables :
          /\ made # {} => Opened(s)
          /\ catalog' = [catalog EXCEPT !.tables = @ \cup made]
          /\ managers' = IF made = Tables THEN Goto(s, "up")
                 ELSE IF managers[s].backend.kind = "SQLITE"
                 THEN [Goto(s, "failed") EXCEPT ![s].backend.open = FALSE]
                 ELSE Goto(s, "failed")
    /\ UNCHANGED undone

TableExists(s, table) == Opened(s) /\ table \in catalog.tables

Connect(s) ==
    LET m == managers[s]
    IN /\ m.step \in {"up", "changed", "stopping"} /\ m.backend # NoBackend
       /\ \E ok \in BOOLEAN :
             /\ ok => Reachable(s)
             /\ managers' = IF m.connected \/ ~ok THEN managers
                            ELSE [BackendConnect(s, TRUE) EXCEPT ![s].connected = TRUE,
                                                                 ![s].renewed = FALSE]
       /\ UNCHANGED <<catalog, undone>>

(* Disconnect marks the pool of PostgreSQL as not initialized, and nothing *)
(* in its Reconnect, which connects anew, marks it again.                  *)
Reconnect(s) ==
    LET m == managers[s]
        sqlite == m.backend.kind = "SQLITE"
        initialized == m.backend.open /\ ~m.connected
    IN /\ m.step \in {"up", "changed"} /\ m.backend # NoBackend
       /\ \E ok \in BOOLEAN :
             managers' = [managers EXCEPT ![s].connected = ok, ![s].renewed = ok /\ ~sqlite,
                              ![s].backend.open = IF sqlite THEN ok ELSE initialized]
       /\ UNCHANGED <<catalog, undone>>

Disconnect(s) ==
    /\ managers[s].step \in {"up", "changed"}
    /\ managers' = IF managers[s].backend # NoBackend /\ managers[s].connected
                   THEN [Goto(s, "stopping") EXCEPT ![s].connected = FALSE,
                                                    ![s].backend.open = FALSE]
                   ELSE Goto(s, "stopping")
    /\ UNCHANGED <<catalog, undone>>

Shutdown(s) ==
    LET m == managers[s]
    IN /\ m.step = "stopping"
       /\ managers' = IF ~m.running THEN managers
              ELSE [managers EXCEPT ![s].running = FALSE, ![s].connected = FALSE,
                    ![s].backend.open = FALSE]
       /\ UNCHANGED <<catalog, undone>>

(* The old backend goes first: without the .sql file, or for a kind that   *)
(* is not built, none is left, and connected_ keeps its value but where    *)
(* that kind is PostgreSQL.                                                *)
SetBackend(s, kind, config) ==
    LET made == [Goto(s, "changed") EXCEPT ![s].config = config, ![s].backend = NoBackend,
                                           ![s].renewed = FALSE]
    IN /\ managers[s].step \in {"up", "changed"} /\ ValidateConfiguration(config)
       /\ \E sqlLoaded \in BOOLEAN :
             managers' = IF sqlLoaded /\ kind \in Built
                 THEN [made EXCEPT ![s].backend = Backend(kind), ![s].connected = FALSE]
                 ELSE [made EXCEPT ![s].connected = @ /\ ~(sqlLoaded /\ kind = "POSTGRESQL")]
       /\ UNCHANGED <<catalog, undone>>

IsConnected(s) == managers[s].connected /\ Opened(s)

(* Of the files whose names begin with U<version>, the only one; its       *)
(* statements and the deletion of the record are one transaction.          *)
RollbackMigration(s, version) ==
    LET files == Migrations \cap NamedAlike[version]
    IN /\ managers[s].step = "up" /\ IsConnected(s) /\ Cardinality(files) = 1
       /\ \E ok \in BOOLEAN :
             /\ undone' = IF ok THEN undone \cup {<<version, CHOOSE f \in files : TRUE>>} ELSE undone
             /\ catalog' = IF ok THEN [catalog EXCEPT !.versions = @ \ {version}] ELSE catalog
       /\ UNCHANGED managers

ManagerInit ==
    /\ \E config \in Configured :
          managers = [s \in Servers |-> [connected |-> FALSE, running |-> TRUE, backend |-> NoBackend,
                                         step |-> "start", config |-> config, renewed |-> FALSE]]
    /\ undone = {}
    /\ catalog \in [databases : {{Admin}, {Admin, Target}}, tables : {{}},
                    versions : {{}, Migrations}]

ManagerNext == \E s \in Servers :
    \/ Initialize(s) \/ OpenSQLite(s) \/ OpenAdmin(s) \/ CheckExists(s) \/ CreateDatabase(s)
    \/ CheckAgain(s) \/ SwitchToTarget(s) \/ CreateDefaultTablesIfNotExist(s)
    \/ Connect(s) \/ Reconnect(s) \/ Disconnect(s) \/ Shutdown(s)
    \/ \E kind \in {"SQLITE", "POSTGRESQL", "CITUS"}, config \in Configured : SetBackend(s, kind, config)
    \/ \E v \in DOMAIN NamedAlike : RollbackMigration(s, v)

-----------------------------------------------------------------------------
(* DatabaseService: a call is a task for the pool, its answer one for      *)
(* main_io.  Call n writes n to one row.                                   *)

AsyncCall ==
    /\ calls < MaxCalls /\ calls' = calls + 1
    /\ queue' = IF joined = "joined" THEN queue ELSE Append(queue, calls + 1)
    /\ UNCHANGED <<pool, busy, main_io, joined>>

TakeTask(w) ==
    /\ busy[w] = 0 /\ queue # <<>>
    /\ busy' = [busy EXCEPT ![w] = Head(queue)] /\ queue' = Tail(queue)
    /\ UNCHANGED <<pool, calls, main_io, joined>>

PostAnswer(w) ==
    /\ busy[w] # 0
    /\ main_io' = Append(main_io, busy[w]) /\ busy' = [busy EXCEPT ![w] = 0]
    /\ UNCHANGED <<pool, calls, queue, joined>>

(* shutdown() and ShutdownAll, and the join that waits for the tasks.      *)
ResetWorkGuard ==
    /\ joined = "running" /\ joined' = "joining"
    /\ UNCHANGED <<pool, calls, queue, busy, main_io>>
Join ==
    /\ joined = "joining" /\ queue = <<>> /\ \A w \in pool : busy[w] = 0
    /\ joined' = "joined"
    /\ UNCHANGED <<pool, calls, queue, busy, main_io>>

ServiceInit ==
    /\ pool \in SUBSET Workers \ {{}} /\ busy = [w \in Workers |-> 0]
    /\ calls = 0 /\ queue = <<>> /\ main_io = <<>> /\ joined = "running"
ServiceNext == AsyncCall \/ ResetWorkGuard \/ Join \/ \E w \in pool : TakeTask(w) \/ PostAnswer(w)

-----------------------------------------------------------------------------
(* SQLProvider::LoadFromFile: [key] begins a query, the lines before the   *)
(* first are skipped, and an empty query is none.                          *)

NoQueries == [key \in Keys |-> <<>>]
Header(line) == line \in Keys \cup {None}

Saved(acc) == IF acc.key # None /\ acc.query # <<>>
              THEN [acc.queries EXCEPT ![acc.key] = acc.query] ELSE acc.queries
ReadLine(acc, line) ==
    IF Header(line)
    THEN [key |-> line, queries |-> Saved(acc),
          query |-> IF line = None THEN acc.query ELSE <<>>]
    ELSE IF acc.key # None THEN [acc EXCEPT !.query = Append(@, line)] ELSE acc

(* What is read after so many lines.                                       *)
Reading[n \in 0..Len(file)] ==
    IF n = 0 THEN [key |-> None, query |-> <<>>, queries |-> NoQueries]
    ELSE ReadLine(Reading[n - 1], file[n])

LoadFromFile ==
    /\ queries = NoQueries /\ queries' = Saved(Reading[Len(file)])
    /\ UNCHANGED file

GetQuery(key) == IF key \in Keys THEN queries[key] ELSE <<>>

ProviderInit == file \in UNION {[1..n -> SqlLines] : n \in 0..MaxSqlLines} /\ queries = NoQueries

-----------------------------------------------------------------------------
(* A server whose start succeeded is on the game's database, and all of    *)
(* its tables are there whichever server made them.  It is connected while *)
(* it says so, unless there is no backend left or no pool, and never once  *)
(* PostgreSQL was reconnected.  What is open is known to be connected, as  *)
(* Disconnect closes nothing else.                                         *)
StartedMeansReady ==
    \A s \in Servers : LET m == managers[s] IN
        /\ m.step = "up" => /\ m.backend.db = Target /\ Tables \subseteq catalog.tables
                            /\ Opened(s) => \A t \in Tables : TableExists(s, t)
        /\ m.step \in {"up", "changed"} /\ m.connected /\ m.backend # NoBackend
           /\ (PoolEnabled(m.config) \/ m.backend.kind = "SQLITE") => (Opened(s) <=> ~m.renewed)
        /\ Opened(s) => m.connected

(* A start that failed leaves no SQLite database open.                     *)
FailedIsClosed ==
    \A s \in Servers : managers[s].step = "failed" /\ managers[s].backend # NoBackend
        /\ managers[s].backend.kind = "SQLITE" => ~managers[s].backend.open

(* A migration is undone by its own file if it has one.                    *)
OwnFileUndoes == \A u \in undone : u[1] \in Migrations => u[2] = u[1]

(* No call before the join is lost; one thread answers in order.           *)
CallsAnswered ==
    /\ joined = "joined" => queue = <<>>
    /\ Cardinality(pool) = 1 => \A i \in DOMAIN main_io : main_io[i] = i
    /\ joined # "joined" => ToSet(main_io) \cup ToSet(queue) \cup ({busy[w] : w \in pool} \ {0})
                            = 1..calls

(* A query is what follows the last header of its key that is followed by  *)
(* any line that is no header.                                             *)
Body(key, i, j) ==
    /\ file[i] = key /\ \A k \in (i + 1)..j : ~Header(file[k])
    /\ j = Len(file) \/ Header(file[j + 1])
Follows(key, i, j) == i < j /\ Body(key, i, j)
QueriesFound ==
    queries # NoQueries => \A key \in Keys :
        \/ GetQuery(key) = <<>> /\ \A i, j \in DOMAIN file : ~Follows(key, i, j)
        \/ \E i, j \in DOMAIN file :
             /\ Follows(key, i, j) /\ GetQuery(key) = SubSeq(file, i + 1, j)
             /\ \A k, l \in DOMAIN file : Follows(key, k, l) => k <= i

DatabaseInv == StartedMeansReady /\ FailedIsClosed /\ OwnFileUndoes /\ CallsAnswered /\ QueriesFound
=============================================================================
