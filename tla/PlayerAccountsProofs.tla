------------------------- MODULE PlayerAccountsProofs -------------------------
(***************************************************************************)
(* For any users, passwords and bounds: the maps of the PlayerManager      *)
(* agree, the row of an account this process created is an earlier state   *)
(* of it, and a login goes by the player's password.                       *)
(*                                                                         *)
(* The strengthening says that every id the process has given out has its  *)
(* account, and who holds one: nobody holds an id that was not given out;  *)
(* an account is in memory, was refused or was swept; a name never leads   *)
(* to a refused one; what the save thread is about to write is an earlier  *)
(* state; and a row with the number of this process is of a given id.      *)
(***************************************************************************)
EXTENDS PlayerAccounts, FiniteSetTheorems, TLAPS

\* The ids that were given out.
Given == {id \in Ids : id < nextPlayerId}

AccountsGiven ==
    /\ \A id \in Given : object[id] \in Accounts /\ object[id].born = restarts
    /\ players \cup toSave \cup toRemove \cup refused \cup swept \subseteq Given
    /\ Given \subseteq players \cup refused \cup swept
    /\ io # Idle => io.id \in Given

IoThread ==
    /\ io.at = "name" => usernameToId[object[io.id].user] = NoId /\ io.id \notin refused
    /\ io.at = "save" => usernameToId[object[io.id].user] \in {io.id, NoId}
    /\ io.at = "refused" => io.id \in refused
    /\ io.at = "find" => io.id \in players \cup swept

NamesAccepted == \A u \in Users : usernameToId[u] \notin refused

SaveThread ==
    serialized # NothingSerialized =>
        /\ serialized.id \in toSave
        /\ EarlierState(serialized.data, object[serialized.id])

\* Rows with the number of this process are of its accounts.
RowsOfThisProcess ==
    \A id \in Ids : rows[id] # NoAccount =>
        /\ rows[id].born <= restarts
        /\ rows[id].born = restarts => id \in Given /\ rows[id].user = object[id].user

Memory == AccountsGiven /\ IoThread /\ NamesAccepted /\ NamesAgree /\ CrashExplained
Table == RowBehindMemory /\ RowsOfThisProcess
AccountsInv == TypeOK /\ Memory /\ SaveThread /\ Table
-----------------------------------------------------------------------------
\* Ids are numbers, NoId is none of them.
LEMMA IdFacts == Ids \subseteq Nat /\ NoId \notin Ids
BY AccountsAssumption DEF Ids, NoId

\* Nothing and nobody at the start.
LEMMA InitAccounts == Init => AccountsInv
<1>. SUFFICES ASSUME Init PROVE AccountsInv
  OBVIOUS
<1>1. TypeOK
  BY AccountsAssumption, IdFacts
     DEF Init, TypeOK, Idle, NothingSerialized, Ids, NoId
<1>2. Given = {}
  BY AccountsAssumption DEF Init, Given, Ids
<1>3. Memory /\ SaveThread
  BY <1>2, IdFacts DEF Init, Memory, AccountsGiven, IoThread, NamesAccepted, NamesAgree,
                       CrashExplained, SaveThread, Idle, NoId
<1>4. Created = {}
  BY <1>2 DEF Created, Given
<1>5. Table
  BY <1>2, <1>4 DEF Init, Table, RowBehindMemory, RowsOfThisProcess
<1>. QED
  BY <1>1, <1>3, <1>5 DEF AccountsInv

\* A refused statement or an answered one: the number of failures is in bounds.
LEMMA FailuresBounded ==
    ASSUME TypeOK, Answers \/ Refuses
    PROVE  failures' \in 0..MaxFailures
BY AccountsAssumption DEF TypeOK, Answers, Refuses

\* An account is a state of itself.
LEMMA SameState == \A a \in Accounts : EarlierState(a, a)
BY AccountsAssumption DEF EarlierState, Accounts

\* What the steps that only touch the database write.
Written(id, data) ==
    /\ id \in Given /\ data \in Accounts /\ EarlierState(data, object[id])
    /\ Upsert(id, data)

\* A row that is written with an earlier state of an account of this process,
\* or none at all, leaves the table behind the memory.
LEMMA TableKept ==
    ASSUME TypeOK, AccountsGiven, Table,
           rows' = rows \/ \E id \in Ids, data \in Accounts : Written(id, data),
           UNCHANGED <<object, nextPlayerId, restarts>>,
           \A id \in Created' : id \in Created \/ rows'[id] = object[id]
    PROVE  Table' /\ rows' \in [Ids -> Accounts \cup {NoAccount}]
<1>1. Given' = Given
  BY DEF Given
<1>2. rows' \in [Ids -> Accounts \cup {NoAccount}]
  BY DEF TypeOK, Written, Upsert
<1>3. Created' \subseteq Given
  BY <1>1 DEF Created, Given
<1>4. ASSUME NEW p \in Created'
      PROVE  EarlierState(rows'[p], object'[p])
  <2>1. CASE rows'[p] = object[p]
    BY <1>3, <2>1, SameState DEF AccountsGiven
  <2>2. CASE p \in Created /\ rows'[p] = rows[p]
    BY <2>2 DEF Table, RowBehindMemory
  <2>3. CASE rows'[p] # rows[p]
    BY <1>3, <2>3 DEF Written, Upsert, TypeOK, Given
  <2>. QED
    BY <1>4, <2>1, <2>2, <2>3
<1>5. ASSUME NEW p \in Ids, rows'[p] # NoAccount
      PROVE  /\ rows'[p].born <= restarts
             /\ rows'[p].born = restarts => p \in Given /\ rows'[p].user = object[p].user
  <2>1. CASE rows'[p] = rows[p]
    BY <1>5, <2>1 DEF Table, RowsOfThisProcess
  <2>2. CASE rows'[p] # rows[p]
    <3>1. p \in Given /\ EarlierState(rows'[p], object[p])
      BY <2>2 DEF Written, Upsert, TypeOK
    <3>. QED
      BY <3>1, AccountsAssumption DEF EarlierState, AccountsGiven, TypeOK
  <2>. QED
    BY <2>1, <2>2
<1>. QED
  BY <1>1, <1>2, <1>4, <1>5 DEF Table, RowBehindMemory, RowsOfThisProcess

\* Saving an account as it is writes such a row.
LEMMA SavedAsItIs ==
    ASSUME AccountsGiven, NEW id \in Given, Upsert(id, object[id])
    PROVE  \E i \in Ids, data \in Accounts : Written(i, data)
BY SameState DEF AccountsGiven, Written, Given

\* Saving it, or the database refusing that, is one of both.
LEMMA DestroyedOrSaved ==
    ASSUME TypeOK, AccountsGiven, NEW id \in Given, Destroy(id)
    PROVE  /\ rows' = rows \/ \E i \in Ids, data \in Accounts : Written(i, data)
           /\ failures' \in 0..MaxFailures
BY SavedAsItIs, FailuresBounded DEF Destroy

\* The steps that leave the players alone, and the io thread where it is.
LEMMA MemoryStays ==
    ASSUME Memory, UNCHANGED <<memory, io, refused, swept, restarts>>,
           toSave' \cup toRemove' \subseteq players \cup toSave \cup toRemove
    PROVE  Memory'
BY DEF Memory, AccountsGiven, Given, IoThread, NamesAccepted, NamesAgree, CrashExplained,
       memory

\* The threads that are not the io thread leave the created accounts alone.
LEMMA CreatedStays ==
    ASSUME UNCHANGED <<nextPlayerId, refused, io>>
    PROVE  Created' = Created
BY DEF Created

\* What the save thread has serialized stays an earlier state.
LEMMA SaveThreadStays ==
    ASSUME SaveThread, UNCHANGED <<object, serialized, toSave>>
    PROVE  SaveThread'
BY DEF SaveThread, EarlierState
-----------------------------------------------------------------------------
(* The io thread.                                                          *)

\* The io thread goes on with somebody who was created, or ends its call:
\* nothing else changes.
GoesOn ==
    /\ UNCHANGED <<memory, saver, cleaner, refused, restarts>>
    /\ io.at \notin {"name", "save"}
    /\ \/ io' = Idle
       \/ io' \in [at : {"find", "connect", "crashed"}, id : Given]

LEMMA GoesOnStep ==
    ASSUME AccountsInv, GoesOn, online' \subseteq Ids, failures' \in 0..MaxFailures,
           rows' = rows \/ \E id \in Ids, data \in Accounts : Written(id, data),
           io'.at = "find" => io'.id \in players \cup swept,
           io'.at = "crashed" => io'.id \in swept
    PROVE  AccountsInv'
<1>. USE DEF AccountsInv, GoesOn, memory, saver, cleaner
<1>1. Created' = Created
  BY DEF Created, Idle
<1>2. Table' /\ rows' \in [Ids -> Accounts \cup {NoAccount}]
  BY <1>1, TableKept DEF Memory
<1>3. TypeOK'
  BY <1>2 DEF TypeOK, IoSteps, Given
<1>4. Memory'
  BY DEF Memory, AccountsGiven, Given, IoThread, NamesAccepted, NamesAgree, CrashExplained,
         Idle
<1>5. SaveThread'
  BY SaveThreadStays
<1>. QED
  BY <1>2, <1>3, <1>4, <1>5

\* A login leads to somebody in memory, or swept.
LEMMA LogInStep ==
    ASSUME AccountsInv, NEW u \in Users, NEW pw \in Passwords, LogIn(u, pw)
    PROVE  AccountsInv'
<1>. DEFINE id == usernameToId[u]
<1>1. id \in players \cup swept /\ id \in Given
  BY DEF LogIn, PlayerExists, AccountsInv, Memory, NamesAgree, AccountsGiven
<1>2. failures' \in 0..MaxFailures
  BY FailuresBounded DEF LogIn, AccountsInv
<1>3. io = Idle /\ io' \in {Idle, [at |-> "find", id |-> id]}
  BY DEF LogIn
<1>4. GoesOn
  BY <1>1, <1>3 DEF LogIn, GoesOn, Idle
<1>5. online' \subseteq Ids /\ rows' = rows
  BY DEF LogIn, AccountsInv, TypeOK
<1>. QED
  BY <1>1, <1>2, <1>3, <1>4, <1>5, GoesOnStep DEF Idle

\* Who is not found although a name led there was swept.
LEMMA FindStep ==
    ASSUME AccountsInv, FindPlayer
    PROVE  AccountsInv'
<1>. DEFINE u == object[io.id].user
            id == usernameToId[u]
<1>1. io.id \in Given /\ io.id \in players \cup swept /\ u \in Users
  BY DEF FindPlayer, AccountsInv, Memory, AccountsGiven, IoThread, Accounts, Idle
<1>2. CASE id \in players
  <2>1. id \in Given /\ io' = [at |-> "connect", id |-> id]
    BY <1>2 DEF FindPlayer, AccountsInv, Memory, AccountsGiven
  <2>2. GoesOn
    BY <2>1 DEF FindPlayer, GoesOn
  <2>. QED
    BY <2>1, <2>2, GoesOnStep DEF FindPlayer, AccountsInv, TypeOK
<1>3. CASE id \notin players
  <2>1. io.id \in swept
    BY <1>1, <1>3 DEF FindPlayer, AccountsInv, Memory, NamesAgree
  <2>2. io' = [at |-> "crashed", id |-> io.id]
    BY <1>3 DEF FindPlayer, AccountsInv, TypeOK, Idle
  <2>3. GoesOn
    BY <1>1, <2>2 DEF FindPlayer, GoesOn
  <2>. QED
    BY <2>1, <2>2, <2>3, GoesOnStep DEF FindPlayer, AccountsInv, TypeOK
<1>. QED
  BY <1>2, <1>3

\* Setting a player online changes nothing else.
LEMMA ConnectStep ==
    ASSUME AccountsInv, ConnectPlayer
    PROVE  AccountsInv'
<1>1. GoesOn /\ io' = Idle /\ rows' = rows /\ failures' = failures
  BY DEF ConnectPlayer, GoesOn
<1>2. online' \subseteq Ids
  BY DEF ConnectPlayer, AccountsInv, TypeOK
<1>. QED
  BY <1>1, <1>2, GoesOnStep DEF Idle, AccountsInv, TypeOK

\* OnAuthentication gives up the new player.
LEMMA DropStep ==
    ASSUME AccountsInv, DropNew
    PROVE  AccountsInv'
<1>1. io.id \in Given
  BY DEF DropNew, AccountsInv, Memory, AccountsGiven, Idle
<1>2. io' = Idle \/ io' = [at |-> "connect", id |-> io.id]
  BY DEF DropNew, AccountsInv, TypeOK, Idle
<1>3. GoesOn
  BY <1>1, <1>2 DEF DropNew, GoesOn
<1>4. /\ rows' = rows \/ \E id \in Ids, data \in Accounts : Written(id, data)
      /\ failures' \in 0..MaxFailures
  BY <1>1, DestroyedOrSaved DEF DropNew, AccountsInv, Memory, TypeOK
<1>. QED
  BY <1>2, <1>3, <1>4, GoesOnStep DEF Idle, DropNew, AccountsInv, TypeOK

\* The new player's id was not given to anybody, so nothing of another player
\* is overwritten.
LEMMA CreateStep ==
    ASSUME AccountsInv, NEW u \in Users, NEW pw \in Passwords, CreatePlayer(u, pw)
    PROVE  AccountsInv'
<1>. DEFINE new == nextPlayerId
            account == [user |-> u, password |-> pw, progress |-> 0, born |-> restarts]
<1>1. /\ new \in Ids /\ new # NoId /\ new \in Nat /\ new \notin Given
      /\ account \in Accounts /\ account.user = u /\ account.born = restarts
  BY AccountsAssumption, IdFacts DEF CreatePlayer, Accounts, AccountsInv, TypeOK, Given
<1>2. /\ io = Idle /\ usernameToId[u] = NoId
      /\ object' = [object EXCEPT ![new] = account]
      /\ players' = players \cup {new}
      /\ io' = [at |-> "name", id |-> new]
      /\ nextPlayerId' = new + 1
      /\ UNCHANGED <<usernameToId, saver, online, cleaner, rows, refused, restarts,
                     failures>>
  BY DEF CreatePlayer, PlayerExists
<1>3. Given' = Given \cup {new}
  <2>1. \A id \in Ids : id < new + 1 <=> id < new \/ id = new
    BY <1>1, IdFacts
  <2>. QED
    BY <1>1, <1>2, <2>1 DEF Given
<1>. HIDE DEF new, account
<1>4. object'[new] = account /\ \A p \in Given : object'[p] = object[p]
  BY <1>1, <1>2 DEF AccountsInv, TypeOK, Given
<1>5. TypeOK'
  <2>1. new + 1 \in 1..(MaxId + 1)
    BY <1>1, AccountsAssumption DEF Ids
  <2>2. io' \in [at : IoSteps, id : Ids]
    BY <1>1, <1>2 DEF IoSteps
  <2>. QED
    BY <1>1, <1>2, <2>1, <2>2 DEF AccountsInv, TypeOK, saver, cleaner
<1>6. AccountsGiven'
  BY <1>1, <1>2, <1>3, <1>4 DEF AccountsInv, Memory, AccountsGiven, saver, cleaner
<1>7. IoThread' /\ CrashExplained'
  BY <1>1, <1>2, <1>4 DEF AccountsInv, Memory, AccountsGiven, IoThread, CrashExplained
<1>8. NamesAccepted' /\ NamesAgree'
  BY <1>1, <1>2, <1>4
     DEF AccountsInv, Memory, AccountsGiven, NamesAccepted, NamesAgree, cleaner, Idle
<1>9. SaveThread'
  BY <1>2, <1>4 DEF AccountsInv, Memory, AccountsGiven, SaveThread, saver, EarlierState
<1>10. Table'
  <2>1. Created' \subseteq Given /\ Created' \subseteq Created
    BY <1>1, <1>2, <1>3 DEF Created, Given, Idle
  <2>2. RowBehindMemory'
    BY <1>2, <1>4, <2>1 DEF AccountsInv, Table, RowBehindMemory, EarlierState
  <2>3. RowsOfThisProcess'
    BY <1>2, <1>3, <1>4 DEF AccountsInv, Table, RowsOfThisProcess
  <2>. QED
    BY <2>2, <2>3 DEF Table
<1>. QED
  BY <1>5, <1>6, <1>7, <1>8, <1>9, <1>10 DEF AccountsInv, Memory

\* The name of the new player was nobody's, so it can go to it.
LEMMA NameStep ==
    ASSUME AccountsInv, NamePlayer
    PROVE  AccountsInv'
<1>. DEFINE id == io.id
            u == object[id].user
<1>1. /\ id \in Given /\ id \in Ids /\ u \in Users /\ id # NoId /\ id \notin refused
      /\ usernameToId[u] = NoId /\ io = [at |-> "name", id |-> id]
  BY IdFacts DEF NamePlayer, AccountsInv, TypeOK, Memory, AccountsGiven, IoThread, Given,
                 Accounts, Idle
<1>2. /\ usernameToId' = [usernameToId EXCEPT ![u] = id]
      /\ io' = [at |-> "save", id |-> id]
      /\ UNCHANGED <<nextPlayerId, object, players, saver, online, cleaner, rows, refused,
                     restarts, failures>>
  BY <1>1 DEF NamePlayer
<1>. HIDE DEF id, u
<1>3. Given' = Given /\ Created' = Created
  BY <1>1, <1>2 DEF Given, Created
<1>4. TypeOK'
  BY <1>1, <1>2 DEF AccountsInv, TypeOK, IoSteps, saver, cleaner
<1>5. AccountsGiven'
  BY <1>1, <1>2, <1>3 DEF AccountsInv, Memory, AccountsGiven, saver, cleaner
<1>6. IoThread' /\ CrashExplained'
  BY <1>1, <1>2 DEF AccountsInv, TypeOK, IoThread, CrashExplained, u, id
<1>7. NamesAccepted'
  BY <1>1, <1>2 DEF AccountsInv, TypeOK, Memory, NamesAccepted
<1>8. NamesAgree'
  <2>1. \A p \in players \ {id} : object[p].user # u
    BY <1>1, IdFacts DEF AccountsInv, TypeOK, Memory, NamesAgree
  <2>2. \A p \in players : object[p].user \in Users
    BY DEF AccountsInv, Memory, AccountsGiven, Accounts
  <2>3. id \in players \cup swept
    BY <1>1 DEF AccountsInv, Memory, AccountsGiven
  <2>4. object[id].user = u
    BY DEF u
  <2>. QED
    BY <1>1, <1>2, <2>1, <2>2, <2>3, <2>4
       DEF AccountsInv, TypeOK, Memory, NamesAgree, cleaner
<1>9. SaveThread'
  BY <1>2, SaveThreadStays DEF AccountsInv, saver
<1>10. Table'
  BY <1>2, <1>3, TableKept DEF AccountsInv, Memory
<1>. QED
  BY <1>4, <1>5, <1>6, <1>7, <1>8, <1>9, <1>10 DEF AccountsInv, Memory

\* The first save of a player writes the row the invariant asks for, or the
\* player leaves the game.
LEMMA SaveNewStep ==
    ASSUME AccountsInv, SaveNew
    PROVE  AccountsInv'
<1>. DEFINE id == io.id
            u == object[id].user
<1>1. /\ id \in Given /\ id \in Ids /\ u \in Users /\ id # NoId
      /\ object[id] \in Accounts
      /\ usernameToId[u] \in {id, NoId} /\ io = [at |-> "save", id |-> id]
  BY IdFacts DEF SaveNew, AccountsInv, TypeOK, Memory, AccountsGiven, IoThread, Given,
                 Accounts, Idle
<1>2. failures' \in 0..MaxFailures
  BY FailuresBounded DEF SaveNew, AccountsInv
<1>3. UNCHANGED <<saver, online, cleaner, restarts, nextPlayerId, object>>
  BY DEF SaveNew, Refuse, memory
<1>4. Given' = Given
  BY <1>3 DEF Given
<1>. HIDE DEF id, u
<1>5. SaveThread'
  BY <1>3, SaveThreadStays DEF AccountsInv, saver
<1>6. CASE /\ Upsert(id, object[id]) /\ io' = [io EXCEPT !.at = "created"]
           /\ UNCHANGED <<memory, refused>>
  <2>1. io' = [at |-> "created", id |-> id]
    BY <1>1, <1>6
  <2>2. Created' = Created \cup {id} \/ Created' = Created
    BY <1>1, <1>4, <1>6, <2>1 DEF Created, Given, memory
  <2>3. rows'[id] = object[id]
    BY <1>1, <1>6 DEF Upsert, AccountsInv, TypeOK
  <2>4. Table' /\ rows' \in [Ids -> Accounts \cup {NoAccount}]
    BY <1>1, <1>3, <1>6, <2>2, <2>3, SavedAsItIs, TableKept DEF AccountsInv, Memory
  <2>5. TypeOK'
    BY <1>1, <1>2, <1>3, <1>6, <2>1, <2>4
       DEF AccountsInv, TypeOK, IoSteps, saver, cleaner, memory
  <2>6. Memory'
    BY <1>1, <1>3, <1>4, <1>6, <2>1
       DEF AccountsInv, Memory, AccountsGiven, IoThread, NamesAccepted, NamesAgree,
           CrashExplained, saver, cleaner, memory
  <2>. QED
    BY <1>5, <2>4, <2>5, <2>6 DEF AccountsInv
<1>7. CASE Refuse(id) /\ UNCHANGED rows
  <2>1. /\ players' = players \ {id}
        /\ usernameToId' = [usernameToId EXCEPT ![u] = NoId]
        /\ io' = [at |-> "refused", id |-> id]
        /\ refused' = refused \cup {id}
    BY <1>7 DEF Refuse, Forget, u
  <2>2. Created' \subseteq Created
    BY <1>1, <1>4, <2>1 DEF Created, Given
  <2>3. TypeOK'
    BY <1>1, <1>2, <1>3, <1>7, <2>1 DEF AccountsInv, TypeOK, IoSteps, saver, cleaner
  <2>4. AccountsGiven' /\ IoThread' /\ CrashExplained'
    BY <1>1, <1>3, <1>4, <2>1
       DEF AccountsInv, Memory, AccountsGiven, IoThread, CrashExplained, saver, cleaner
  <2>5. \A w \in Users : usernameToId'[w] # NoId =>
           w # u /\ usernameToId'[w] = usernameToId[w] /\ usernameToId[w] # id
    BY <1>1, <2>1 DEF AccountsInv, TypeOK, Memory, NamesAgree, u
  <2>6. NamesAccepted'
    BY <1>1, <2>1, <2>5, IdFacts DEF AccountsInv, TypeOK, Memory, NamesAccepted, Given,
                                     AccountsGiven
  <2>7. NamesAgree'
    <3>1. \A p \in players \ {id} : object[p].user \in Users /\ object[p].user # u
      <4>. SUFFICES ASSUME NEW p \in players \ {id}
                    PROVE  object[p].user \in Users /\ object[p].user # u
        OBVIOUS
      <4>1. object[p].user \in Users
        BY DEF AccountsInv, Memory, AccountsGiven, Accounts
      <4>2. usernameToId[object[p].user] = p /\ p # NoId
        BY <1>1, IdFacts DEF AccountsInv, TypeOK, Memory, NamesAgree
      <4>. QED
        BY <1>1, <4>1, <4>2
    <3>2. \A p \in players' : usernameToId'[object'[p].user] = p
      BY <1>1, <1>3, <2>1, <3>1 DEF AccountsInv, TypeOK, Memory, NamesAgree
    <3>. QED
      BY <1>3, <2>1, <2>5, <3>2 DEF AccountsInv, Memory, NamesAgree, cleaner
  <2>8. Table'
    BY <1>3, <1>7, <2>2, TableKept DEF AccountsInv, Memory
  <2>. QED
    BY <1>5, <2>3, <2>4, <2>6, <2>7, <2>8 DEF AccountsInv, Memory
<1>. QED
  BY <1>6, <1>7 DEF SaveNew, id

\* Progress leaves every copy of the player behind.
LEMMA ProgressStep ==
    ASSUME AccountsInv, NEW id \in Ids, Progress(id)
    PROVE  AccountsInv'
<1>. DEFINE new == [object[id] EXCEPT !.progress = @ + 1]
<1>1. /\ object' = [object EXCEPT ![id] = new]
      /\ io = Idle /\ id \in players /\ id \in Given /\ object[id] \in Accounts
      /\ object[id].progress < MaxProgress
      /\ UNCHANGED <<nextPlayerId, players, usernameToId, io, saver, online, cleaner, rows,
                     refused, restarts, failures>>
  BY DEF Progress, AccountsInv, Memory, AccountsGiven
<1>2. /\ new \in Accounts /\ new.user = object[id].user
      /\ new.password = object[id].password /\ new.born = object[id].born
      /\ new.progress = object[id].progress + 1
  BY <1>1, AccountsAssumption DEF Accounts
<1>. HIDE DEF new
<1>3. Given' = Given /\ Created' = Created
  BY <1>1 DEF Given, Created
<1>4. TypeOK'
  BY <1>1, <1>2 DEF AccountsInv, TypeOK, saver, cleaner
<1>5. /\ object'[id] = new /\ \A p \in Ids \ {id} : object'[p] = object[p]
      /\ \A p \in Ids : object'[p].user = object[p].user
  BY <1>1, <1>2 DEF AccountsInv, TypeOK
<1>6. ASSUME NEW a, EarlierState(a, object[id]), a.progress \in Nat
      PROVE  EarlierState(a, new)
  BY <1>1, <1>2, <1>6, AccountsAssumption DEF EarlierState, Accounts
<1>7. ASSUME NEW p \in Ids, NEW a \in Accounts \cup {NoAccount}, EarlierState(a, object[p])
      PROVE  EarlierState(a, object'[p])
  <2>1. a.progress \in Nat
    BY AccountsAssumption DEF Accounts, NoAccount
  <2>. QED
    BY <1>5, <1>6, <1>7, <2>1
<1>8. SaveThread'
  BY <1>1, <1>7 DEF AccountsInv, TypeOK, SaveThread, saver
<1>9. AccountsGiven' /\ IoThread' /\ CrashExplained'
  BY <1>1, <1>2, <1>3, <1>5
     DEF AccountsInv, TypeOK, Memory, AccountsGiven, IoThread, CrashExplained, saver, cleaner,
         Given, Idle
<1>10. NamesAccepted' /\ NamesAgree'
  BY <1>1, <1>5 DEF AccountsInv, TypeOK, Memory, NamesAccepted, NamesAgree, cleaner,
                    AccountsGiven, Given, Idle
<1>11. RowBehindMemory'
  BY <1>1, <1>3, <1>7 DEF AccountsInv, TypeOK, Table, RowBehindMemory, Created
<1>12. RowsOfThisProcess'
  BY <1>1, <1>3, <1>5 DEF AccountsInv, Table, RowsOfThisProcess
<1>. QED
  BY <1>4, <1>8, <1>9, <1>10, <1>11, <1>12 DEF AccountsInv, Memory, Table
-----------------------------------------------------------------------------
(* The other threads.                                                      *)

\* The save thread.
LEMMA SaveLoopStep ==
    ASSUME AccountsInv, SaveLoop
    PROVE  AccountsInv'
<1>1. UNCHANGED <<memory, io, online, cleaner, refused, restarts>>
  BY DEF SaveLoop, SnapshotPlayers, SerializeNext, WriteSerialized, ReleasePlayers
<1>2. Created' = Created
  BY <1>1 DEF Created, memory
<1>3. CASE SnapshotPlayers
  <2>1. Memory'
    BY <1>1, <1>3, MemoryStays DEF SnapshotPlayers, PlayersToSave, AccountsInv, cleaner
  <2>2. Table' /\ SaveThread'
    BY <1>1, <1>2, <1>3, TableKept
       DEF SnapshotPlayers, AccountsInv, Memory, memory, SaveThread, EarlierState
  <2>3. TypeOK'
    BY <1>1, <1>3 DEF SnapshotPlayers, PlayersToSave, AccountsInv, TypeOK, memory, cleaner
  <2>. QED
    BY <2>1, <2>2, <2>3 DEF AccountsInv
<1>4. ASSUME SerializeNext
      PROVE  AccountsInv'
  <2>1. PICK id \in unsaved : /\ serialized' = [id |-> id, data |-> object[id]]
                              /\ unsaved' = unsaved \ {id}
    BY <1>4 DEF SerializeNext
  <2>2. id \in Ids /\ id \in toSave /\ object[id] \in Accounts
    BY DEF AccountsInv, TypeOK, Memory, AccountsGiven, Given
  <2>3. EarlierState(object[id], object[id])
    BY <2>2, SameState
  <2>4. UNCHANGED <<toSave, rows, failures>>
    BY <1>4 DEF SerializeNext
  <2>5. SaveThread'
    BY <1>1, <2>1, <2>2, <2>3, <2>4 DEF SaveThread, EarlierState, memory
  <2>6. Memory' /\ Table'
    BY <1>1, <1>2, <2>4, MemoryStays, TableKept DEF AccountsInv, Memory, memory, cleaner
  <2>7. TypeOK'
    BY <1>1, <2>1, <2>2, <2>4 DEF AccountsInv, TypeOK, memory, cleaner
  <2>. QED
    BY <2>5, <2>6, <2>7 DEF AccountsInv
<1>5. ASSUME WriteSerialized
      PROVE  AccountsInv'
  <2>. DEFINE id == serialized.id
  <2>1. /\ id \in Given /\ id \in Ids /\ serialized.data \in Accounts
        /\ EarlierState(serialized.data, object[id])
    BY <1>5 DEF WriteSerialized, AccountsInv, TypeOK, SaveThread, Memory, AccountsGiven, Given
  <2>2. failures' \in 0..MaxFailures /\ UNCHANGED <<toSave, unsaved>>
        /\ serialized' = NothingSerialized
    BY <1>5, FailuresBounded DEF WriteSerialized, AccountsInv
  <2>3. rows' = rows \/ Written(id, serialized.data)
    BY <1>5, <2>1 DEF WriteSerialized, Written
  <2>4. Table' /\ rows' \in [Ids -> Accounts \cup {NoAccount}]
    BY <1>1, <1>2, <2>1, <2>3, TableKept DEF AccountsInv, Memory, memory
  <2>5. Memory'
    BY <1>1, <2>2, MemoryStays DEF AccountsInv, cleaner
  <2>6. TypeOK' /\ SaveThread'
    BY <1>1, <2>2, <2>4 DEF AccountsInv, TypeOK, memory, cleaner, SaveThread
  <2>. QED
    BY <2>4, <2>5, <2>6 DEF AccountsInv
<1>6. ASSUME ReleasePlayers
      PROVE  AccountsInv'
  <2>1. UNCHANGED <<unsaved, serialized>> /\ unsaved = {} /\ serialized = NothingSerialized
    BY <1>6 DEF ReleasePlayers
  <2>2. /\ toSave' \subseteq toSave
        /\ rows' = rows \/ \E i \in Ids, data \in Accounts : Written(i, data)
        /\ failures' \in 0..MaxFailures
    <3>1. LastReferences \subseteq Given
      BY DEF LastReferences, AccountsInv, Memory, AccountsGiven
    <3>. QED
      BY <1>6, <3>1, DestroyedOrSaved DEF ReleasePlayers, AccountsInv, Memory, TypeOK
  <2>3. Table' /\ rows' \in [Ids -> Accounts \cup {NoAccount}]
    BY <1>1, <1>2, <2>2, TableKept DEF AccountsInv, Memory, memory
  <2>4. Memory'
    BY <1>1, <2>2, MemoryStays DEF AccountsInv, cleaner
  <2>5. TypeOK' /\ SaveThread'
    BY <1>1, <2>1, <2>2, <2>3 DEF AccountsInv, TypeOK, memory, cleaner, SaveThread
  <2>. QED
    BY <2>3, <2>4, <2>5 DEF AccountsInv
<1>. QED
  BY <1>3, <1>4, <1>5, <1>6 DEF SaveLoop

\* Statements that save an account as it is.
LEMMA SavedTimesIs ==
    ASSUME TypeOK, AccountsGiven, NEW id \in Given, NEW times \in Nat, SavedTimes(id, times)
    PROVE  /\ rows' = rows \/ \E i \in Ids, data \in Accounts : Written(i, data)
           /\ failures' \in 0..MaxFailures
<1>1. PICK n \in 0..times :
         /\ failures + n <= MaxFailures /\ failures' = failures + n
         /\ IF n = times THEN UNCHANGED rows ELSE Upsert(id, object[id])
  BY DEF SavedTimes
<1>2. failures' \in 0..MaxFailures
  BY <1>1, AccountsAssumption DEF TypeOK
<1>. QED
  BY <1>1, <1>2, SavedAsItIs

\* The cleanup takes a player and its name away together.
LEMMA CleanupLoopStep ==
    ASSUME AccountsInv, CleanupLoop
    PROVE  AccountsInv'
<1>1. CASE CollectInactive
  <2>1. /\ toRemove' = players \ online
        /\ UNCHANGED <<memory, io, saver, online, swept, rows, refused, restarts, failures>>
    BY <1>1 DEF CollectInactive
  <2>2. Created' = Created
    BY <2>1, CreatedStays DEF memory
  <2>3. Memory'
    BY <2>1, MemoryStays DEF AccountsInv, saver
  <2>4. Table' /\ SaveThread'
    BY <2>1, <2>2, TableKept, SaveThreadStays DEF AccountsInv, Memory, memory, saver
  <2>5. TypeOK'
    BY <2>1 DEF AccountsInv, TypeOK, memory, saver
  <2>. QED
    BY <2>3, <2>4, <2>5 DEF AccountsInv
<1>2. ASSUME NEW id \in Ids, RemoveInactive(id)
      PROVE  AccountsInv'
  <2>1. /\ toRemove' = toRemove \ {id} /\ id \in Given
        /\ UNCHANGED <<nextPlayerId, object, io, saver, online, refused, restarts>>
    BY <1>2 DEF RemoveInactive, AccountsInv, Memory, AccountsGiven
  <2>2. /\ rows' = rows \/ \E i \in Ids, data \in Accounts : Written(i, data)
        /\ failures' \in 0..MaxFailures
    BY <1>2, <2>1, SavedTimesIs DEF RemoveInactive, AccountsInv, TypeOK, Memory
  <2>3. Created' = Created /\ Given' = Given
    BY <2>1, CreatedStays DEF Given
  <2>4. Table' /\ SaveThread' /\ rows' \in [Ids -> Accounts \cup {NoAccount}]
    BY <2>1, <2>2, <2>3, TableKept, SaveThreadStays DEF AccountsInv, Memory, saver
  <2>5. CASE id \in players
    <3>1. /\ players' = players \ {id} /\ swept' = swept \cup {id}
          /\ usernameToId' =
               [u \in Users |-> IF usernameToId[u] = id THEN NoId ELSE usernameToId[u]]
      BY <1>2, <2>5 DEF RemoveInactive
    <3>2. \A u \in Users :
             usernameToId'[u] = IF usernameToId[u] = id THEN NoId ELSE usernameToId[u]
      BY <3>1
    <3>3. TypeOK'
      BY <2>1, <2>2, <2>4, <3>1 DEF AccountsInv, TypeOK, saver
    <3>4. AccountsGiven' /\ CrashExplained'
      BY <2>1, <2>3, <3>1 DEF AccountsInv, Memory, AccountsGiven, CrashExplained, saver
    <3>5. IoThread'
      <4>1. io # Idle => object[io.id].user \in Users
        BY DEF AccountsInv, Memory, AccountsGiven, Accounts
      <4>. QED
        BY <2>1, <3>1, <3>2, <4>1 DEF AccountsInv, Memory, IoThread, Idle
    <3>6. NamesAccepted'
      BY <2>1, <3>2, IdFacts DEF AccountsInv, TypeOK, Memory, NamesAccepted
    <3>7. \A p \in players : object[p].user \in Users
      BY DEF AccountsInv, Memory, AccountsGiven, Accounts
    <3>8. NamesAgree'
      BY <2>1, <3>1, <3>2, <3>7 DEF AccountsInv, Memory, NamesAgree
    <3>. QED
      BY <2>4, <3>3, <3>4, <3>5, <3>6, <3>8 DEF AccountsInv, Memory
  <2>6. CASE id \notin players
    <3>1. UNCHANGED <<players, usernameToId, swept, rows, failures>>
      BY <1>2, <2>6 DEF RemoveInactive
    <3>2. Memory'
      BY <2>1, <3>1, MemoryStays DEF AccountsInv, memory, saver
    <3>3. TypeOK'
      BY <2>1, <3>1 DEF AccountsInv, TypeOK, saver
    <3>. QED
      BY <2>4, <3>2, <3>3 DEF AccountsInv
  <2>. QED
    BY <2>5, <2>6
<1>. QED
  BY <1>1, <1>2 DEF CleanupLoop

\* A restart forgets everything but the rows, which are all of earlier
\* processes then.
LEMMA RestartStep ==
    ASSUME AccountsInv, Restart
    PROVE  AccountsInv'
<1>1. /\ rows' = rows /\ restarts' = restarts + 1 /\ failures' = failures
      /\ nextPlayerId' = 1 /\ object' = [id \in Ids |-> NoAccount]
      /\ players' = {} /\ usernameToId' = [u \in Users |-> NoId] /\ io' = Idle
      /\ toSave' = {} /\ unsaved' = {} /\ serialized' = NothingSerialized
      /\ online' = {} /\ toRemove' = {} /\ swept' = {} /\ refused' = {}
  BY DEF Restart, Started
<1>2. Given' = {}
  BY <1>1, AccountsAssumption DEF Given, Ids
<1>3. Created' = {}
  BY <1>1, <1>2 DEF Created, Given
<1>4. restarts < MaxRestarts
  BY DEF Restart
<1>5. TypeOK'
  BY <1>1, <1>4, AccountsAssumption DEF AccountsInv, TypeOK, NothingSerialized
<1>6. Memory' /\ SaveThread'
  BY <1>1, <1>2, IdFacts DEF Memory, AccountsGiven, IoThread, NamesAccepted, NamesAgree,
                             CrashExplained, SaveThread, Idle
<1>7. \A id \in Ids : rows[id] # NoAccount => rows[id].born \in Nat /\ rows[id].born <= restarts
  BY AccountsAssumption DEF AccountsInv, TypeOK, Table, RowsOfThisProcess, Accounts
<1>8. restarts \in Nat
  BY AccountsAssumption DEF AccountsInv, TypeOK
<1>9. Table'
  BY <1>1, <1>3, <1>7, <1>8 DEF Table, RowBehindMemory, RowsOfThisProcess
<1>. QED
  BY <1>5, <1>6, <1>9 DEF AccountsInv

LEMMA AccountsInvariant == Spec => []AccountsInv
<1>1. AccountsInv /\ [Next]_vars => AccountsInv'
  <2>. SUFFICES ASSUME AccountsInv, [Next]_vars PROVE AccountsInv'
    OBVIOUS
  <2>1. CASE UNCHANGED vars
    <3>1. Created' = Created /\ UNCHANGED vars
      BY <2>1, CreatedStays DEF vars, memory
    <3>2. Table' /\ Memory' /\ SaveThread'
      BY <3>1, TableKept, MemoryStays, SaveThreadStays
         DEF AccountsInv, Memory, vars, memory, saver, cleaner
    <3>3. TypeOK'
      BY <2>1 DEF AccountsInv, TypeOK, vars, memory, saver, cleaner
    <3>. QED
      BY <3>2, <3>3 DEF AccountsInv
  <2>2. ASSUME IoLoop \/ IoCall PROVE AccountsInv'
    BY <2>2, LogInStep, CreateStep, ProgressStep, FindStep, ConnectStep, NameStep,
       SaveNewStep, DropStep DEF IoLoop, IoCall
  <2>3. CASE SaveLoop \/ CleanupLoop \/ Restart
    BY <2>3, SaveLoopStep, CleanupLoopStep, RestartStep
  <2>. QED
    BY <2>1, <2>2, <2>3 DEF Next
<1>. QED
  BY <1>1, InitAccounts, PTL DEF Spec
-----------------------------------------------------------------------------
\* Every variable keeps its type, in each of the three threads and over the
\* restarts.
THEOREM AccountsTyped == Spec => []TypeOK
<1>1. AccountsInv => TypeOK
  BY DEF AccountsInv
<1>. QED
  BY <1>1, AccountsInvariant, PTL

\* Everybody in memory is found by the name but for a new player whose name
\* comes next, and every name leads to a player who is in memory or whom the
\* cleanup took away while it was created.
THEOREM NamesAlwaysAgree == Spec => []NamesAgree
<1>1. AccountsInv => NamesAgree
  BY DEF AccountsInv, Memory
<1>. QED
  BY <1>1, AccountsInvariant, PTL

\* Every account the process has created has a row, an earlier state of it.
THEOREM RowsAreEarlierStates == Spec => []RowBehindMemory
<1>1. AccountsInv => RowBehindMemory
  BY DEF AccountsInv, Table
<1>. QED
  BY <1>1, AccountsInvariant, PTL

\* A set with at most one element and that one element.
LEMMA AtMostOne ==
    ASSUME NEW S, IsFiniteSet(S), Cardinality(S) <= 1, NEW a \in S
    PROVE  S = {a}
<1>1. IsFiniteSet(S \ {a}) /\ Cardinality(S \ {a}) = Cardinality(S) - 1
  BY FS_RemoveElement
<1>2. Cardinality(S) \in Nat /\ Cardinality(S \ {a}) \in Nat
  BY <1>1, FS_CardinalityType
<1>3. Cardinality(S \ {a}) = 0
  BY <1>1, <1>2
<1>4. S \ {a} = {}
  BY <1>1, <1>3, FS_EmptySet
<1>. QED
  BY <1>4

\* Somebody known has a row of the name with the password, and if it is the
\* only one of the name, it decides.
LEMMA LoginDecides == AccountsInv => PasswordDecides
<1>. SUFFICES ASSUME AccountsInv, NEW u \in Users, NEW pw \in Passwords,
                     io = Idle, PlayerExists(u), Cardinality(RowsOf(u)) <= 1
              PROVE  AuthenticatePlayer(u, pw) = {object[usernameToId[u]].password = pw}
  BY DEF PasswordDecides
<1>. DEFINE me == usernameToId[u]
<1>1. me \in Created /\ object[me].user = u
  BY DEF PlayerExists, AccountsInv, TypeOK, Memory, NamesAgree, NamesAccepted,
         AccountsGiven, Given, Created, Idle
<1>2. rows[me].user = u /\ rows[me].password = object[me].password
  BY <1>1 DEF AccountsInv, Table, RowBehindMemory, EarlierState
<1>3. me \in RowsOf(u)
  BY <1>1, <1>2 DEF RowsOf, Created
<1>4. RowsOf(u) = {me}
  <2>1. IsFiniteSet(Ids)
    BY FS_Interval, AccountsAssumption DEF Ids
  <2>2. IsFiniteSet(RowsOf(u))
    BY <2>1, FS_Subset DEF RowsOf
  <2>. QED
    BY <1>3, <2>2, AtMostOne
<1>5. AuthenticatePlayer(u, pw) = {rows[id].password = pw : id \in {me}}
  BY <1>4, Zenon DEF AuthenticatePlayer
<1>6. {rows[id].password = pw : id \in {me}} = {rows[me].password = pw}
  BY Zenon
<1>. QED
  BY <1>2, <1>5, <1>6

\* Of two accounts with one name, one was refused or swept.
LEMMA DuplicatesAre == AccountsInv => DuplicatesExplained
<1>. SUFFICES ASSUME AccountsInv, NEW i \in Ids, NEW j \in Ids,
                     rows[i] # NoAccount, rows[j] # NoAccount,
                     rows[i].user = rows[j].user,
                     rows[i].born = restarts, rows[j].born = restarts,
                     i \notin refused \cup swept, j \notin refused \cup swept
              PROVE  i = j
  BY DEF DuplicatesExplained
<1>1. /\ i \in players /\ j \in players
      /\ object[i].user = rows[i].user /\ object[j].user = rows[j].user
  BY DEF AccountsInv, Table, RowsOfThisProcess, Memory, AccountsGiven
<1>2. CASE io # [at |-> "name", id |-> i] /\ io # [at |-> "name", id |-> j]
  BY <1>1, <1>2 DEF AccountsInv, Memory, NamesAgree
<1>3. ASSUME NEW p \in {i, j}, NEW q \in {i, j}, p # q, io = [at |-> "name", id |-> p]
      PROVE  FALSE
  <2>1. usernameToId[object[p].user] = NoId
    BY <1>3 DEF AccountsInv, Memory, IoThread
  <2>2. usernameToId[object[q].user] = q
    BY <1>1, <1>3 DEF AccountsInv, Memory, NamesAgree
  <2>. QED
    BY <1>1, <2>1, <2>2, IdFacts
<1>. QED
  BY <1>2, <1>3

\* Where one row carries the name of somebody known, a login goes by the
\* player's password; two rows of one name that one process wrote come from a
\* creation it refused or a player it swept; and no login kills the server but
\* for a name whose player was swept.
THEOREM LoginsAreSound == Spec => []LoginsSound
<1>1. AccountsInv => LoginsSound
  BY LoginDecides, DuplicatesAre DEF LoginsSound, AccountsInv, Memory
<1>. QED
  BY <1>1, AccountsInvariant, PTL
=============================================================================
