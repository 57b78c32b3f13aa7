------------------------------ MODULE SqlClients -------------------------------
(***************************************************************************)
(* SQLiteClient and PostgreSqlClient: the statements of the game, their    *)
(* parameters, the transactions and the prepared statements.               *)
(*                                                                         *)
(* SQLite is one connection that dbMutex_ hands from thread to thread;     *)
(* PostgreSQL is a pool, and each statement takes any connection of it     *)
(* (the pool itself is module ConnectionPool).  A row is its table and its *)
(* key with a value; the tables and the statements are those of            *)
(* dbschema/.  What a server does with a statement is external.            *)
(***************************************************************************)
EXTENDS Integers, SequencesExt, FiniteSetsExt, TLC

CONSTANTS
    Threads,        \* callers; each runs at most one transaction
    Links,          \* connections of the pool; SQLite uses the first
    Owners,         \* players; the name of any other row is one as well
    MaxStatements,  \* bound on the statements
    Texts, Fillings \* statement texts and lists of parameters

VARIABLES
    dialect,   \* which of the two clients
    rows,      \* the committed rows: <<table, key>> to a value
    links,     \* per connection: open, and the transaction on the server
    marks,     \* connections with inTransaction in transactionStates_
    prepared,  \* name of a prepared statement to the connection it is on
    jobs,      \* where a thread is in ExecuteTransaction
    claims,    \* history: rows reported as stored, with no transaction open
    count,     \* statements so far
    text       \* a statement, its parameters and what they made of it

sqlVars == <<dialect, rows, links, marks, prepared, jobs, claims, count, text>>

Absent == "absent"
Throws == "throws"
Plain == "plain"     \* the value a statement outside ExecuteTransaction writes
NoText == [sql |-> <<>>, params |-> <<>>, made |-> <<>>]

Dependent == {"player_inventory", "player_quests"}
Children(k) == {<<tb, k[2]>> : tb \in IF k[1] = "players" THEN Dependent ELSE {}}
Kept(view, gone) == [k \in DOMAIN view \ gone |-> view[k]]

-----------------------------------------------------------------------------
(* Parameters of SQLiteClient, put into the text one by one.               *)

EscapeString(s) == FlattenSeq([i \in DOMAIN s |-> IF s[i] = "'" THEN <<"'", "'">> ELSE <<s[i]>>])
Quoted(param) == <<"'">> \o EscapeString(param) \o <<"'">>

Fill(acc, param) ==
    LET marked == {i \in DOMAIN acc.made : i >= acc.pos /\ acc.made[i] = "?"}
        at == Min(marked)
    IN IF marked = {} THEN [acc EXCEPT !.pos = Len(acc.made) + 1]
       ELSE [made |-> SubSeq(acc.made, 1, at - 1) \o Quoted(param)
                      \o SubSeq(acc.made, at + 1, Len(acc.made)),
             pos |-> at + Len(param) + 2]

WithParams(sql, params) ==
    /\ text = NoText
    /\ text' = [sql |-> sql, params |-> params,
                made |-> FoldLeft(Fill, [made |-> sql, pos |-> 1], params).made]
    /\ UNCHANGED <<dialect, rows, links, marks, prepared, jobs, claims, count>>

(* What the placeholders stand for: each its own parameter, at once.       *)
Bound(sql, params) ==
    FlattenSeq([i \in DOMAIN sql |->
        LET nth == Cardinality({j \in 1..i : sql[j] = "?"})
        IN IF sql[i] = "?" /\ nth <= Len(params) THEN Quoted(params[nth]) ELSE <<sql[i]>>])

-----------------------------------------------------------------------------
(* Statements.  "put" inserts or replaces, "set" is an UPDATE, "drop" a    *)
(* DELETE; short is a statement with more placeholders than parameters.    *)

Statement(op, table, key, value) == [op |-> op, key |-> <<table, key>>, value |-> value]

(* REPLACE of SQLite deletes the old row, and with it what refers to it.   *)
Apply(view, s) ==
    CASE s.op = "put" -> (s.key :> s.value)
             @@ Kept(view, IF dialect = "sqlite" THEN Children(s.key) ELSE {})
      [] s.op = "set" -> IF s.key \in DOMAIN view THEN (s.key :> s.value) @@ view ELSE view
      [] s.op = "drop" -> Kept(view, {s.key} \cup Children(s.key))

Visible(l) == FoldLeft(Apply, rows, links[l].log)

Lawful(view, s) ==
    /\ s.op # "short"
    /\ s.op = "put" /\ s.key[1] \in Dependent => <<"players", s.key[2]>> \in DOMAIN view

Open == {l \in Links : links[l].open}
Closed == [open |-> FALSE, tx |-> FALSE, aborted |-> FALSE, log |-> <<>>]
Fresh == [Closed EXCEPT !.open = TRUE]

(* The server makes a statement wait for the rows another transaction has. *)
Free(l, s) == \A o \in Links \ {l} : \A i \in DOMAIN links[o].log :
                  ({s.key} \cup Children(s.key)) \cap
                  ({links[o].log[i].key} \cup Children(links[o].log[i].key)) = {}

(* One statement on one connection, inside the transaction it may have.    *)
OnLink(l, s, ok) ==
    /\ count < MaxStatements /\ count' = count + 1
    /\ ok => Lawful(Visible(l), s) /\ ~links[l].aborted
    /\ IF ok /\ links[l].tx
       THEN links' = [links EXCEPT ![l].log = Append(@, s)] /\ UNCHANGED rows
       ELSE IF ok THEN rows' = Apply(rows, s) /\ UNCHANGED links
       ELSE /\ UNCHANGED rows
            /\ links' = [links EXCEPT ![l].aborted = @ \/ (dialect = "postgres" /\ links[l].tx)]

(* What the callers may believe after a statement reported as done: its    *)
(* own row unless a transaction is open on the connection, and nothing any *)
(* more of the rows it changed.                                            *)
Believed(l, s, ok) ==
    claims' = IF ~ok THEN claims
              ELSE LET rest == Kept(claims, {s.key} \cup Children(s.key))
                   IN IF s.op = "put" /\ ~links[l].tx THEN (s.key :> s.value) @@ rest ELSE rest

(* A row changed within another thread's transaction is no longer its own. *)
Foreign(t, s) == [u \in Threads |->
    IF u = t THEN jobs[u] ELSE [jobs[u] EXCEPT !.wrote = @ \ ({s.key} \cup Children(s.key))]]

(* Execute and ExecuteWithParams: a closed database, or no connection.     *)
Execute(t, s) ==
    \/ \E l \in Open, ok \in BOOLEAN :
          /\ Free(l, s) /\ OnLink(l, s, ok) /\ Believed(l, s, ok)
          /\ jobs' = IF ok THEN Foreign(t, s) ELSE jobs
          /\ UNCHANGED <<dialect, marks, prepared, text>>
    \/ Open = {} /\ UNCHANGED sqlVars

(* Query and QueryWithParams, and what the caller makes of the first row.  *)
Query(l, k) == IF k \in DOMAIN Visible(l) THEN Visible(l)[k] ELSE Absent

-----------------------------------------------------------------------------
(* The statements of the game.                                             *)

(* Two parameters for the three of save_player_data: it always fails.      *)
SavePlayerData(t, p) == Execute(t, Statement("short", "players", p, Plain))

(* PlayerManager gives the third itself.                                   *)
SaveWithHash(t, p) == Execute(t, Statement("put", "players", p, Plain))

UpdatePlayer(t, p, updates) ==
    IF updates = {} THEN UNCHANGED sqlVars
    ELSE Execute(t, Statement("set", "players", p, Plain))
UpdatePlayerPosition(t, p) == Execute(t, Statement("set", "players", p, Plain))
DeletePlayer(t, p) == Execute(t, Statement("drop", "players", p, Absent))

LoadPlayerData(l, p) == Query(l, <<"players", p>>)
GetPlayer(l, p) == Query(l, <<"players", p>>)

(* PostgreSQL answers "t" or "f", which is not the bool it is read as.     *)
PlayerExists(l, p) ==
    IF dialect = "postgres" THEN Throws
    ELSE IF Query(l, <<"players", p>>) = Absent THEN "false" ELSE "true"

SaveGameState(t, k) == Execute(t, Statement("put", "game_state", k, Plain))
LoadGameState(l, k) == Query(l, <<"game_state", k>>)
DeleteGameState(t, k) == Execute(t, Statement("drop", "game_state", k, Absent))

LoadChunkData(l, c) == Query(l, <<"world_chunks", c>>)
DeleteChunkData(t, c) == Execute(t, Statement("drop", "world_chunks", c, Absent))

(* A chunk found has its coordinates as strings, read as int: it throws.   *)
ListChunksInRange(l) ==
    IF \E k \in DOMAIN Visible(l) : k[1] = "world_chunks" THEN Throws ELSE Absent

SaveInventory(t, p) == Execute(t, Statement("put", "player_inventory", p, Plain))
LoadInventory(l, p) == Query(l, <<"player_inventory", p>>)
SaveQuestProgress(t, p) == Execute(t, Statement("put", "player_quests", p, Plain))
LoadQuestProgress(l, p) == Query(l, <<"player_quests", p>>)

(* SQLite saves a chunk in a transaction of its own: not within another,   *)
(* and what a failing COMMIT leaves is an open transaction.                *)
SaveChunkData(t, c) ==
    LET s == Statement("put", "world_chunks", c, Plain)
    IN IF dialect = "postgres" THEN Execute(t, s)
       ELSE \E l \in Open, outcome \in {"saved", "refused", "uncommitted"} :
          /\ count < MaxStatements /\ count' = count + 1
          /\ outcome # "refused" => ~links[l].tx
          /\ rows' = IF outcome = "saved" THEN Apply(rows, s) ELSE rows
          /\ links' = IF outcome = "uncommitted"
                      THEN [links EXCEPT ![l].tx = TRUE, ![l].log = <<s>>] ELSE links
          /\ Believed(l, s, outcome = "saved")
          /\ UNCHANGED <<dialect, marks, prepared, jobs, text>>

-----------------------------------------------------------------------------
(* Transactions.  Each of the three statements takes its own connection    *)
(* from PostgreSQL's pool, and gives it back at once.                      *)

(* ExecuteTransaction, up to the operation.                                *)
BeginTransaction(t) ==
    /\ jobs[t].at = "idle"
    /\ \E l \in Open, ok \in BOOLEAN :
          /\ ok => ~links[l].tx /\ (dialect = "postgres" => l \notin marks)
          /\ links' = IF ok THEN [links EXCEPT ![l].tx = TRUE, ![l].log = <<>>] ELSE links
          /\ marks' = IF ok /\ dialect = "postgres" THEN marks \cup {l} ELSE marks
          /\ jobs' = [jobs EXCEPT ![t].at = IF ok THEN "operation" ELSE "refused"]
    /\ UNCHANGED <<dialect, rows, prepared, claims, count, text>>

(* A statement of the operation, which gives up at the first that fails.   *)
Operate(t, p) ==
    LET s == Statement("put", "players", p, t)
    IN /\ jobs[t].at = "operation"
       /\ \E l \in Open, ok \in BOOLEAN :
             /\ Free(l, s) /\ OnLink(l, s, ok) /\ Believed(l, s, ok)
             /\ jobs' = IF ok THEN [Foreign(t, s) EXCEPT ![t].wrote = @ \cup {s.key}]
                        ELSE [jobs EXCEPT ![t].at = "undo"]
       /\ UNCHANGED <<dialect, marks, prepared, text>>

OperationEnds(t, success) ==
    /\ jobs[t].at = "operation"
    /\ jobs' = [jobs EXCEPT ![t].at = IF success THEN "commit" ELSE "undo"]
    /\ UNCHANGED <<dialect, rows, links, marks, prepared, claims, count, text>>

(* PostgreSQL answers COMMIT of an aborted transaction with success.       *)
CommitTransaction(t) ==
    /\ jobs[t].at = "commit"
    /\ \E l \in Open, ok \in BOOLEAN :
          /\ ok => links[l].tx /\ (dialect = "postgres" => l \in marks)
          /\ rows' = IF ok /\ ~links[l].aborted THEN Visible(l) ELSE rows
          /\ links' = IF ok THEN [links EXCEPT ![l] = Fresh] ELSE links
          /\ marks' = IF ok THEN marks \ {l} ELSE marks
          /\ jobs' = [jobs EXCEPT ![t].at = IF ok THEN "done" ELSE "undo"]
          /\ claims' = IF ok /\ (\A u \in Threads : ~jobs[u].torn)
                       THEN [k \in jobs[t].wrote |-> t] @@ claims ELSE claims
    /\ UNCHANGED <<dialect, prepared, count, text>>

(* A variant in which a failed operation leaves its transaction open.      *)
RollbackForgotten(t) ==
    /\ jobs[t].at = "undo"
    /\ jobs' = [jobs EXCEPT ![t].at = "failed"]
    /\ UNCHANGED <<dialect, rows, links, marks, prepared, claims, count, text>>
(* ROLLBACK needs a transaction on the connection it meets; it is reported *)
(* to nobody.                                                              *)
RollbackTransaction(t) ==
    /\ jobs[t].at = "undo"
    /\ \E l \in Open :
          IF links[l].tx /\ (dialect = "postgres" => l \in marks)
          THEN links' = [links EXCEPT ![l] = Fresh] /\ marks' = marks \ {l}
          ELSE UNCHANGED <<links, marks>>
    /\ jobs' = [jobs EXCEPT ![t].at = "failed"]
    /\ UNCHANGED <<dialect, rows, prepared, claims, count, text>>

-----------------------------------------------------------------------------
(* Prepared statements, which belong to the connection they were made on.  *)

PrepareStatement(name) ==
    /\ dialect = "postgres" /\ count < MaxStatements /\ count' = count + 1
    /\ \E l \in Open, ok \in BOOLEAN :
          /\ ok => ~links[l].aborted
          /\ prepared' = IF ok THEN (name :> l) @@ prepared ELSE prepared
          /\ links' = [links EXCEPT ![l].aborted = @ \/ (~ok /\ links[l].tx)]
    /\ UNCHANGED <<dialect, rows, marks, jobs, claims, text>>

(* Unknown, or met on another connection, it fails; the parameters are     *)
(* quoted twice, so only an empty list of them gives a statement.          *)
ExecutePrepared(t, name, s, params) ==
    /\ dialect = "postgres"
    /\ IF name \in DOMAIN prepared
       THEN \E l \in Open, ok \in BOOLEAN :
              /\ ok => prepared[name] = l /\ params = <<>>
              /\ Free(l, s) /\ OnLink(l, s, ok) /\ Believed(l, s, ok)
              /\ jobs' = IF ok THEN Foreign(t, s) ELSE jobs
       ELSE UNCHANGED <<rows, links, jobs, claims, count>>
    /\ UNCHANGED <<dialect, marks, prepared, text>>

-----------------------------------------------------------------------------
(* Connect, Disconnect and Reconnect: the server drops what was open.      *)

Torn == [t \in Threads |-> IF jobs[t].at \in {"operation", "commit", "undo"}
                           THEN [jobs[t] EXCEPT !.torn = TRUE, !.wrote = {}] ELSE jobs[t]]

Used == IF dialect = "sqlite" THEN {Min(Links)} ELSE Links

Connect ==
    /\ links' = [l \in Links |-> IF Open = {} /\ l \in Used THEN Fresh ELSE links[l]]
    /\ UNCHANGED <<dialect, rows, marks, prepared, jobs, claims, count, text>>

Disconnect ==
    /\ links' = [l \in Links |-> Closed] /\ jobs' = Torn
    /\ UNCHANGED <<dialect, rows, marks, prepared, claims, count, text>>

Reconnect ==
    /\ links' = [l \in Links |-> IF l \in Used THEN Fresh ELSE Closed] /\ jobs' = Torn
    /\ UNCHANGED <<dialect, rows, marks, prepared, claims, count, text>>

-----------------------------------------------------------------------------
SqlInit ==
    /\ dialect \in {"sqlite", "postgres"} /\ rows = <<>> /\ claims = <<>>
    /\ links = [l \in Links |-> IF l \in Used THEN Fresh ELSE Closed]
    /\ marks = {} /\ prepared = <<>> /\ count = 0 /\ text = NoText
    /\ jobs = [t \in Threads |-> [at |-> "idle", wrote |-> {}, torn |-> FALSE]]

PlayerRows(t, p) ==
    \/ SavePlayerData(t, p) \/ SaveWithHash(t, p) \/ UpdatePlayerPosition(t, p)
    \/ DeletePlayer(t, p) \/ \E updates \in {{}, {"level"}} : UpdatePlayer(t, p, updates)

OtherRows(t, p) ==
    \/ SaveGameState(t, p) \/ DeleteGameState(t, p)
    \/ SaveChunkData(t, p) \/ DeleteChunkData(t, p)
    \/ SaveInventory(t, p) \/ SaveQuestProgress(t, p)

(* A thread does nothing else while its operation is under way.            *)
Busy(t) == jobs[t].at \in {"operation", "commit", "undo"}

SqlNext ==
    \/ \E t \in Threads :
          \/ \E p \in Owners :
                \/ ~Busy(t) /\ (PlayerRows(t, p) \/ OtherRows(t, p))
                \/ Operate(t, p)
                \/ \E params \in {<<>>, <<"a">>} : ~Busy(t) /\ ExecutePrepared(t, "save",
                       Statement("put", "game_state", p, Plain), params)
          \/ BeginTransaction(t) \/ CommitTransaction(t) \/ RollbackTransaction(t)
          \/ \E success \in BOOLEAN : OperationEnds(t, success)
    \/ PrepareStatement("save") \/ Connect \/ Disconnect \/ Reconnect

TextNext == \E sql \in Texts, params \in Fillings : WithParams(sql, params)

-----------------------------------------------------------------------------
(* A parameter with no more than one apostrophe in it never changes which  *)
(* parameter a later placeholder gets, whatever question marks it holds.   *)
ParametersSeparate ==
    (\A i \in DOMAIN text.params :
        Cardinality({j \in DOMAIN text.params[i] : text.params[i][j] = "'"}) <= 1)
    => text.made = Bound(text.sql, text.params)

(* A row reported as stored is what the next load returns, while nothing   *)
(* is under way: by a statement outside any transaction, or by one         *)
(* reported as committed on SQLite (of PostgreSQL's the COMMIT may meet    *)
(* another connection than the rest).                                      *)
Load(l, k) ==
    CASE k[1] = "players" -> LoadPlayerData(l, k[2])
      [] k[1] = "game_state" -> LoadGameState(l, k[2])
      [] k[1] = "world_chunks" -> LoadChunkData(l, k[2])
      [] k[1] = "player_inventory" -> LoadInventory(l, k[2])
      [] k[1] = "player_quests" -> LoadQuestProgress(l, k[2])
SavedStays ==
    \A k \in DOMAIN claims, l \in Open :
        ~links[l].tx /\ (dialect = "sqlite" \/ claims[k] = Plain) =>
            /\ Load(l, k) = claims[k]
            /\ k[1] = "players" => GetPlayer(l, k[2]) = claims[k] /\ PlayerExists(l, k[2]) # "false"

(* No stored chunk is ever listed: with one in range the query throws.     *)
RangeUnread == \A l \in Open : (\E k \in DOMAIN claims : ~links[l].tx /\ k[1] = "world_chunks")
                               => ListChunksInRange(l) = Throws

(* A transaction SQLite reported as failed left nothing, unless the        *)
(* database was closed under one.                                          *)
FailedLeavesNothing ==
    dialect = "sqlite" /\ (\A u \in Threads : ~jobs[u].torn) =>
        \A t \in Threads, k \in DOMAIN rows : rows[k] = t => jobs[t].at # "failed"

(* A transaction open on SQLite has a thread that is going to end it, or   *)
(* it is the chunk whose COMMIT failed.                                    *)
TransactionsEnd ==
    \A l \in Links : dialect = "sqlite" /\ links[l].tx =>
        \/ \E t \in Threads : jobs[t].at \in {"operation", "commit", "undo"}
        \/ links[l].log # <<>> /\ links[l].log[1].key[1] = "world_chunks"
              /\ links[l].log[1].op = "put"

(* PostgreSQL never begins within a transaction: a connection that is in   *)
(* one is marked so.                                                       *)
MarksKept == dialect = "postgres" => \A l \in Links : links[l].tx => l \in marks

(* The statements of the clients keep their parameters, rows and           *)
(* transactions apart.                                                     *)
SqlInv == /\ ParametersSeparate /\ SavedStays /\ RangeUnread
          /\ FailedLeavesNothing /\ TransactionsEnd /\ MarksKept
=============================================================================
