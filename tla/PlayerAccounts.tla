----------------------------- MODULE PlayerAccounts -----------------------------
(***************************************************************************)
(* The players of the PlayerManager and their rows in the table players.   *)
(*                                                                         *)
(* Three threads of the master work on them: the io thread, which logs     *)
(* players in, creates them and lets them progress, the save thread, which *)
(* writes every player every ten seconds, and the cleanup thread, which    *)
(* drops players that are not online and were not heard of for an hour.    *)
(* Nobody sets a player offline (PlayerDisconnected has no caller), but a  *)
(* new one starts offline and with the heartbeat of the epoch: the cleanup *)
(* takes it when it looks between its insertion and its SetOnline(true).   *)
(* The database may refuse a statement.  A restart keeps the rows and      *)
(* nothing else: the process ends in _Exit, without a last save, and its   *)
(* ids start again at the first one.                                       *)
(*                                                                         *)
(* LoadPlayer rejects every row since the table has no column username, so *)
(* no player comes back from its row: where the code falls back to it the  *)
(* player is not found.                                                    *)
(***************************************************************************)
EXTENDS Naturals, FiniteSets

CONSTANTS Users, Passwords,
          NoUser,        \* the user of a row that does not exist
          MaxId,         \* bound on the players one process creates
          MaxProgress,   \* bound on the progress of a player
          MaxRestarts,   \* bound on the restarts of the server
          MaxFailures    \* bound on the statements the database refuses

ASSUME AccountsAssumption ==
    /\ NoUser \notin Users
    /\ MaxId \in Nat /\ MaxProgress \in Nat
    /\ MaxRestarts \in Nat /\ MaxFailures \in Nat

Ids == 1..MaxId          \* counted from the first id, 1000000
NoId == 0

\* What is saved of a player.  born, the number of the process that created
\* the account, tells accounts with the same id apart.
Accounts == [user : Users, password : Passwords,
             progress : 0..MaxProgress, born : 0..MaxRestarts]
NoAccount == [user |-> NoUser, password |-> NoUser, progress |-> 0, born |-> 0]

VARIABLES
    nextPlayerId,  \* the next id CreatePlayer takes
    object,        \* the Player objects by id, as they are or last were
    players,       \* the ids in players_
    usernameToId,  \* usernameToId_, NoId for a name it does not hold
    io,            \* where the io thread is in OnAuthentication, for whom
    toSave,        \* the players the save thread holds
    unsaved,       \* those it has not saved yet
    serialized,    \* the one it has serialized and not written
    online,        \* the players with online_ set
    toRemove,      \* the players the cleanup found offline
    rows,          \* the table players
    refused,       \* history: the creations refused by this process
    swept,         \* history: the players its cleanup removed
    restarts, failures

memory == <<nextPlayerId, object, players, usernameToId>>
saver == <<toSave, unsaved, serialized>>
cleaner == <<toRemove, swept>>
vars == <<memory, io, saver, online, cleaner, rows, refused, restarts, failures>>

\* name, save: a new player is in players_, and then also in usernameToId_.
\* refused, created: CreatePlayer returns with or without it.  find: somebody
\* known has the right password.  connect: PlayerConnected.
IoSteps == {"name", "save", "refused", "created", "find", "connect", "crashed"}
Idle == [at |-> "idle", id |-> NoId]
NothingSerialized == [id |-> NoId, data |-> NoAccount]

TypeOK ==
    /\ nextPlayerId \in 1..(MaxId + 1)
    /\ object \in [Ids -> Accounts \cup {NoAccount}]
    /\ rows \in [Ids -> Accounts \cup {NoAccount}]
    /\ players \subseteq Ids
    /\ usernameToId \in [Users -> Ids \cup {NoId}]
    /\ io \in {Idle} \cup [at : IoSteps, id : Ids]
    /\ online \subseteq Ids /\ toRemove \subseteq Ids /\ swept \subseteq Ids
    /\ unsaved \subseteq toSave /\ toSave \subseteq Ids
    /\ serialized \in {NothingSerialized} \cup [id : Ids, data : Accounts]
    /\ refused \subseteq Ids
    /\ restarts \in 0..MaxRestarts /\ failures \in 0..MaxFailures

\* A process that has just started.
Started ==
    /\ nextPlayerId' = 1
    /\ object' = [id \in Ids |-> NoAccount]
    /\ players' = {} /\ usernameToId' = [u \in Users |-> NoId]
    /\ io' = Idle
    /\ toSave' = {} /\ unsaved' = {} /\ serialized' = NothingSerialized
    /\ online' = {} /\ toRemove' = {} /\ swept' = {}
    /\ refused' = {}

Init ==
    /\ nextPlayerId = 1
    /\ object = [id \in Ids |-> NoAccount]
    /\ players = {} /\ usernameToId = [u \in Users |-> NoId]
    /\ io = Idle
    /\ toSave = {} /\ unsaved = {} /\ serialized = NothingSerialized
    /\ online = {} /\ toRemove = {} /\ swept = {}
    /\ refused = {}
    /\ rows = [id \in Ids |-> NoAccount]
    /\ restarts = 0 /\ failures = 0
-----------------------------------------------------------------------------
(* The database.                                                           *)

\* The database answers, or refuses the statement.
Refuses == failures < MaxFailures /\ failures' = failures + 1
Answers == UNCHANGED failures

\* Variant: on a conflict only the data are updated, the password stays.
UpdateData(id, data) ==
    rows' = [rows EXCEPT ![id] =
               IF @ = NoAccount THEN data ELSE [@ EXCEPT !.user = data.user,
                                                         !.progress = data.progress,
                                                         !.born = data.born]]

\* save_player_data: an insert, or an update of the row with this id.
Upsert(id, data) == rows' = [rows EXCEPT ![id] = data]

\* get_player_by_username.
RowsOf(u) == {id \in Ids : rows[id].user = u}
-----------------------------------------------------------------------------
(* Who holds a Player.                                                     *)

\* A call of CreatePlayer holds the new player until OnAuthentication has its
\* id.
IoHolds(id) == io.id = id /\ io.at \in {"name", "save", "refused", "created"}

\* The destructor of the Player saves it again.
Destroy(id) ==
    \/ Answers /\ Upsert(id, object[id])
    \/ Refuses /\ UNCHANGED rows
-----------------------------------------------------------------------------
(* The io thread.                                                          *)

\* Only the players of this process are known.
PlayerExists(u) == usernameToId[u] # NoId

\* What AuthenticatePlayer may find out: it takes the first row with the name,
\* and the query does not say which one that is.
AuthenticatePlayer(u, pw) ==
    IF RowsOf(u) = {} THEN {FALSE} ELSE {rows[id].password = pw : id \in RowsOf(u)}

\* OnAuthentication of a player that is known, up to that answer.
LogIn(u, pw) ==
    /\ io = Idle /\ PlayerExists(u)
    /\ \/ /\ Answers
          /\ \E accepted \in AuthenticatePlayer(u, pw) :
                io' = IF accepted THEN [at |-> "find", id |-> usernameToId[u]] ELSE Idle
       \/ Refuses /\ UNCHANGED io
    /\ UNCHANGED <<memory, saver, online, cleaner, rows, refused, restarts>>

\* GetPlayerByUsername goes from the name to the player and finds null when
\* the name or the player is gone.  Nobody looks before it is dereferenced,
\* and the process dies.
FindPlayer ==
    /\ io.at = "find"
    /\ LET id == usernameToId[object[io.id].user]
       IN  io' = IF id \in players THEN [at |-> "connect", id |-> id]
                                   ELSE [io EXCEPT !.at = "crashed"]
    /\ UNCHANGED <<memory, saver, online, cleaner, rows, refused, restarts, failures>>

\* PlayerConnected: a player that is gone stays so.
ConnectPlayer ==
    /\ io.at = "connect"
    /\ online' = IF io.id \in players THEN online \cup {io.id} ELSE online
    /\ io' = Idle
    /\ UNCHANGED <<memory, saver, cleaner, rows, refused, restarts, failures>>

\* OnAuthentication of anybody else: CreatePlayer puts the new player into
\* players_.
CreatePlayer(u, pw) ==
    /\ io = Idle /\ ~PlayerExists(u)
    /\ nextPlayerId \in Ids
    /\ LET id == nextPlayerId
       IN  /\ object' = [object EXCEPT ![id] =
                [user |-> u, password |-> pw, progress |-> 0, born |-> restarts]]
           /\ players' = players \cup {id}
           /\ io' = [at |-> "name", id |-> id]
    /\ nextPlayerId' = nextPlayerId + 1
    /\ UNCHANGED <<usernameToId, saver, online, cleaner, rows, refused, restarts,
                   failures>>

\* Its name goes into usernameToId_ under another lock.
NamePlayer ==
    /\ io.at = "name"
    /\ usernameToId' = [usernameToId EXCEPT ![object[io.id].user] = io.id]
    /\ io' = [io EXCEPT !.at = "save"]
    /\ UNCHANGED <<nextPlayerId, object, players, saver, online, cleaner, rows, refused,
                   restarts, failures>>

\* Variant: a player that could not be saved keeps its name.
ForgetObject(id) ==
    /\ players' = players \ {id}
    /\ UNCHANGED usernameToId

\* A player that could not be saved leaves both maps.
Forget(id) ==
    /\ players' = players \ {id}
    /\ usernameToId' = [usernameToId EXCEPT ![object[id].user] = NoId]

\* Variant: the result of the save is not looked at.
AcceptAlways(id) == io' = [at |-> "created", id |-> id] /\ UNCHANGED <<memory, refused>>

\* The save of a new player failed, and its creation is refused.
Refuse(id) ==
    /\ Forget(id)
    /\ refused' = refused \cup {id}
    /\ io' = [at |-> "refused", id |-> id]
    /\ UNCHANGED <<nextPlayerId, object>>

SaveNew ==
    /\ io.at = "save"
    /\ \/ /\ Answers /\ Upsert(io.id, object[io.id])
          /\ io' = [io EXCEPT !.at = "created"] /\ UNCHANGED <<memory, refused>>
       \/ Refuses /\ Refuse(io.id) /\ UNCHANGED rows
    /\ UNCHANGED <<saver, online, cleaner, restarts>>

\* OnAuthentication gives the new player up, with its id at hand.  The object
\* goes unless it is in players_ or the save thread holds it.
DropNew ==
    /\ io.at \in {"refused", "created"}
    /\ IF io.id \in players \cup toSave THEN UNCHANGED <<rows, failures>>
                                       ELSE Destroy(io.id)
    /\ io' = IF io.at = "created" THEN [io EXCEPT !.at = "connect"] ELSE Idle
    /\ UNCHANGED <<memory, saver, online, cleaner, refused, restarts>>

\* OnPlayerState and the like.
Progress(id) ==
    /\ io = Idle /\ id \in players
    /\ object[id].progress < MaxProgress
    /\ object' = [object EXCEPT ![id].progress = @ + 1]
    /\ UNCHANGED <<nextPlayerId, players, usernameToId, io, saver, online, cleaner,
                   rows, refused, restarts, failures>>
-----------------------------------------------------------------------------
(* The save thread.                                                        *)

\* Variant: only players without a row are saved.
NewPlayers == {id \in players : rows[id].born # restarts \/ rows[id] = NoAccount}

\* SaveAllPlayers saves every player of players_.
PlayersToSave == players

SnapshotPlayers ==
    /\ toSave = {} /\ PlayersToSave # {}
    /\ toSave' = PlayersToSave /\ unsaved' = PlayersToSave
    /\ UNCHANGED <<memory, io, serialized, online, cleaner, rows, refused, restarts,
                   failures>>

SerializeNext ==
    /\ serialized = NothingSerialized
    /\ \E id \in unsaved :
          /\ serialized' = [id |-> id, data |-> object[id]]
          /\ unsaved' = unsaved \ {id}
    /\ UNCHANGED <<memory, io, toSave, online, cleaner, rows, refused, restarts,
                   failures>>

\* A save that fails is counted and not repeated before the next round.
WriteSerialized ==
    /\ serialized # NothingSerialized
    /\ \/ Answers /\ Upsert(serialized.id, serialized.data)
       \/ Refuses /\ UNCHANGED rows
    /\ serialized' = NothingSerialized
    /\ UNCHANGED <<memory, io, toSave, unsaved, online, cleaner, refused, restarts>>

\* The players nobody else holds.
LastReferences == {id \in toSave : id \notin players /\ ~IoHolds(id)}

\* The references go one after the other.
ReleasePlayers ==
    /\ toSave # {} /\ unsaved = {} /\ serialized = NothingSerialized
    /\ IF LastReferences = {}
       THEN toSave' = {} /\ UNCHANGED <<rows, failures>>
       ELSE \E id \in LastReferences : Destroy(id) /\ toSave' = toSave \ {id}
    /\ UNCHANGED <<memory, io, unsaved, serialized, online, cleaner, refused, restarts>>
-----------------------------------------------------------------------------
(* The cleanup thread.                                                     *)

\* CleanupInactivePlayers looks at players_, the heartbeat of an offline player
\* being that of the epoch, and gives the lock back.
CollectInactive ==
    /\ toRemove = {} /\ players \ online # {}
    /\ toRemove' = players \ online
    /\ UNCHANGED <<memory, io, saver, online, swept, rows, refused, restarts, failures>>

\* Statements that save the player a number of times, of which the database
\* may refuse some.
SavedTimes(id, times) ==
    \E n \in 0..times :
        /\ failures + n <= MaxFailures /\ failures' = failures + n
        /\ IF n = times THEN UNCHANGED rows ELSE Upsert(id, object[id])

\* With the lock again it saves each of them and takes it out of the maps,
\* also one that came online meanwhile, and its names; the destructor saves
\* it once more when nobody else holds it.
RemoveInactive(id) ==
    /\ id \in toRemove /\ toRemove' = toRemove \ {id}
    /\ IF id \in players
       THEN /\ players' = players \ {id}
            /\ usernameToId' =
                 [u \in Users |-> IF usernameToId[u] = id THEN NoId ELSE usernameToId[u]]
            /\ swept' = swept \cup {id}
            /\ SavedTimes(id, IF id \in toSave \/ IoHolds(id) THEN 1 ELSE 2)
       ELSE UNCHANGED <<players, usernameToId, swept, rows, failures>>
    /\ UNCHANGED <<nextPlayerId, object, io, saver, online, refused, restarts>>
-----------------------------------------------------------------------------
\* The server ends, in whatever state it is, and starts again.
Restart ==
    /\ restarts < MaxRestarts /\ restarts' = restarts + 1
    /\ Started
    /\ UNCHANGED <<rows, failures>>

Running == io.at # "crashed"

IoLoop ==
    \/ \E u \in Users, pw \in Passwords : LogIn(u, pw) \/ CreatePlayer(u, pw)
    \/ \E id \in Ids : Progress(id)
IoCall == FindPlayer \/ ConnectPlayer \/ NamePlayer \/ SaveNew \/ DropNew

SaveLoop ==
    /\ Running
    /\ SnapshotPlayers \/ SerializeNext \/ WriteSerialized \/ ReleasePlayers

CleanupLoop ==
    /\ Running
    /\ CollectInactive \/ \E id \in Ids : RemoveInactive(id)

Next == IoLoop \/ IoCall \/ SaveLoop \/ CleanupLoop \/ Restart

Spec == Init /\ [][Next]_vars

\* The save thread wakes up every ten seconds for as long as the process lives,
\* and the io thread ends the call it is in.
FairSpec == Spec /\ WF_vars(SaveLoop) /\ WF_vars(IoCall)
-----------------------------------------------------------------------------
(* Properties.                                                             *)

\* Everybody in memory is found by the name, but for a new player whose name
\* comes next; and a name leads to the player that was created with it, who is
\* in memory unless the cleanup took it away in the middle of its creation.
NamesAgree ==
    /\ \A id \in players :
          io = [at |-> "name", id |-> id] \/ usernameToId[object[id].user] = id
    /\ \A u \in Users : usernameToId[u] # NoId =>
          /\ object[usernameToId[u]].user = u
          /\ usernameToId[u] \in players \cup swept

\* a is the account b, with no more progress.
EarlierState(a, b) ==
    /\ a.user = b.user /\ a.password = b.password /\ a.born = b.born
    /\ a.progress <= b.progress

\* The accounts this process has created.
Created == {id \in Ids : /\ id < nextPlayerId /\ id \notin refused
                         /\ io.id = id => io.at \notin {"name", "save"}}

\* Every account that was created has a row, and the row is an earlier state
\* of the same account: whatever the save thread and the cleanup were doing
\* meanwhile, no save leaves the row of another account or a later state there.
RowBehindMemory == \A id \in Created : EarlierState(rows[id], object[id])

\* Where one row carries the name of somebody known, a login with the player's
\* password is accepted, whenever the database answers, and with no other.
PasswordDecides ==
    \A u \in Users, pw \in Passwords :
        (io = Idle /\ PlayerExists(u) /\ Cardinality(RowsOf(u)) <= 1)
        => AuthenticatePlayer(u, pw) = {object[usernameToId[u]].password = pw}

\* Two rows of one name that the same process wrote come from a creation that
\* was refused and whose player was saved nevertheless, or from a player whose
\* name the cleanup erased.
DuplicatesExplained ==
    \A i, j \in Ids :
        (i # j /\ rows[i] # NoAccount /\ rows[j] # NoAccount
               /\ rows[i].user = rows[j].user
               /\ rows[i].born = restarts /\ rows[j].born = restarts)
        => {i, j} \cap (refused \cup swept) # {}

\* A login kills the server only for a name whose player the cleanup removed.
CrashExplained == io.at = "crashed" => io.id \in swept

\* Names and passwords: all of the above.
LoginsSound == PasswordDecides /\ DuplicatesExplained /\ CrashExplained

\* What a player has achieved is in the database some time later, unless the
\* server ends before; a player that the cleanup removes is saved only as it
\* goes, so the database may not refuse that.
ProgressSaved ==
    \A id \in Ids, n \in 1..MaxProgress, r \in 0..MaxRestarts :
        (id \in players /\ object[id].progress >= n /\ restarts = r)
            ~> \/ rows[id].progress >= n \/ restarts > r \/ ~Running
               \/ id \in swept /\ failures > 0
=============================================================================
