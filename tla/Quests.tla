------------------------------- MODULE Quests -------------------------------
(***************************************************************************)
(* QuestManager and the quest data of one entity (the data of different    *)
(* entities have nothing in common but the mutex).                         *)
(*                                                                         *)
(* An operation is a sequence of sections that hold mutex_, a              *)
(* shared_mutex; between two of them other threads run.  A section is one  *)
(* step here, and calls[t] what the thread t has still to do.  To lock the *)
(* mutex for reading in a thread that holds it for writing is undefined:   *)
(* the outcomes are an exception (the library notices) and waiting for     *)
(* ever.                                                                   *)
(*                                                                         *)
(* Times are choices: a running timer may run out at any OnTimerElapsed,   *)
(* the day or week of a repeated quest may be over at any moment.  Events  *)
(* sent to Python and rewards, which are a TODO, are left out.             *)
(***************************************************************************)
EXTENDS Integers, FiniteSets, SequencesExt

CONSTANTS Callers,        \* threads that call the manager
          Definition,     \* quest_definitions_
          Chains,         \* quest_chains_: a sequence of quests each
          Happenings,     \* monsters, items, NPCs, places, levels, skills
          MAX_QUESTS,     \* MAX_ACTIVE_QUESTS
          MaxCalls        \* bound on the operations of a behaviour

VARIABLES
    journal,    \* entity_quests_[entity], or NoJournal
    paper,      \* JSON made of it by SerializeEntityQuests, or NoJournal
    calls,      \* of each thread, the sections it has still to run
    wedged,     \* a thread waits for the mutex it holds
    called      \* operations so far

questsVars == <<journal, paper, calls, wedged, called>>

QuestIds == DOMAIN Definition
NoJournal == [known |-> FALSE]
EntityQuestData == [known |-> TRUE, active |-> <<>>, completed |-> <<>>, chains |-> <<>>,
                    discovered |-> {}, tracked |-> "none", cooling |-> {},
                    total_completed |-> 0]

QuestsInit ==
    /\ journal = NoJournal
    /\ paper = NoJournal
    /\ calls = [t \in Callers |-> <<>>]
    /\ wedged = FALSE
    /\ called = 0

-----------------------------------------------------------------------------
Objectives(q) == Definition[q].objectives

(* The quests are a finite book of rules: objectives that count to a       *)
(* number, some of them with a timer, and a list of the quests that follow.*)
ASSUME QuestsAssumption ==
    /\ MAX_QUESTS \in Nat /\ IsFiniteSet(QuestIds)
    /\ IsFiniteSet(UNION {DOMAIN Objectives(q) : q \in QuestIds})
    /\ \A q \in QuestIds :
         /\ \A o \in DOMAIN Objectives(q) : Objectives(q)[o].required \in Nat
         /\ Definition[q].next \in Seq(Range(Definition[q].next))

Data == IF journal = NoJournal THEN EntityQuestData ELSE journal
Put(f, k, v) == [x \in DOMAIN f \cup {k} |-> IF x = k THEN v ELSE f[x]]
Drop(f, k) == [x \in DOMAIN f \ {k} |-> f[x]]

HasQuest(q) == q \in DOMAIN Data.active \cup DOMAIN Data.completed

IsQuestCompleted(q) ==
    q \in DOMAIN Data.completed /\ Data.completed[q].state \in {"COMPLETED", "REWARDS_CLAIMED"}

CanStartQuest(q) ==
    /\ q \in QuestIds
    /\ q \notin DOMAIN Data.active
    /\ q \in DOMAIN Data.completed =>
         Definition[q].repeatable /\ ~(Definition[q].type # "SIDE" /\ q \in Data.cooling)
    /\ \A r \in Definition[q].prerequisites : IsQuestCompleted(r)

(* What the NPC n offers: GameLogic asks for it when a player talks to it. *)
GetQuestsFromNPC(n) ==
    {q \in QuestIds : Definition[q].giver = n /\ ~HasQuest(q) /\ CanStartQuest(q)}

QuestProgress(q) ==
    [state |-> "IN_PROGRESS", rewards_claimed |-> FALSE,
     count |-> [o \in DOMAIN Objectives(q) |-> 0],
     done |-> {},
     running |-> {o \in DOMAIN Objectives(q) : Objectives(q)[o].timed}]

AllComplete(q, progress) ==
    \A o \in DOMAIN Objectives(q) :
        Objectives(q)[o].optional \/ progress.count[o] >= Objectives(q)[o].required

Untracked(d, q) == [d EXCEPT !.tracked = IF @ = q THEN "none" ELSE @]

-----------------------------------------------------------------------------
(* Sections of operations.  A section is a record with its `op' and what   *)
(* it works on; Does(t, d, more) ends it with the data d and goes on with  *)
(* the sections `more' and then the rest of the thread's.                  *)
Section(op, q, o, n) == [op |-> op, quest |-> q, objective |-> o, n |-> n]
Check(q) == Section("check", q, "none", 0)
Step(op, q) == Section(op, q, "none", 0)

Does(t, d, more) ==
    /\ journal' = d
    /\ calls' = [calls EXCEPT ![t] = more \o Tail(@)]
    /\ UNCHANGED <<paper, wedged>>

Stays(t) == Does(t, journal, <<>>)

(* StartQuest: CanStartQuest in one section, the entry in another.         *)
CheckStart(t, q) ==
    IF CanStartQuest(q) THEN Does(t, journal, <<Step("insert", q)>>) ELSE Stays(t)

StartQuest(t, q) ==
    IF Cardinality(DOMAIN Data.active) >= MAX_QUESTS THEN Does(t, Data, <<>>)
    ELSE Does(t, [Data EXCEPT !.active = Put(@, q, QuestProgress(q)),
                              !.discovered = @ \cup {q}], <<>>)

AbandonQuest(t, q) ==
    IF q \notin DOMAIN Data.active THEN Stays(t)
    ELSE Does(t, Untracked([journal EXCEPT !.active = Drop(@, q)], q), <<>>)

(* (A variant that trusts the update it follows.)                          *)
CompleteQuestAtOnce(t, q) ==
    IF q \in DOMAIN Data.active /\ Data.active[q].state = "IN_PROGRESS"
    THEN Does(t, [journal EXCEPT !.active[q].state = "COMPLETED"], <<>>) ELSE Stays(t)

CompleteQuest(t, q) ==
    IF /\ q \in DOMAIN Data.active /\ Data.active[q].state = "IN_PROGRESS"
       /\ AllComplete(q, Data.active[q])
    THEN Does(t, [journal EXCEPT !.active[q].state = "COMPLETED"], <<>>)
    ELSE Stays(t)

(* FailQuest takes a quest in any state.                                   *)
FailQuest(t, q) ==
    IF q \notin DOMAIN Data.active THEN Stays(t)
    ELSE LET failed == [journal.active[q] EXCEPT !.state = "FAILED"]
         IN Does(t, Untracked([journal EXCEPT !.active = Drop(@, q),
                                              !.completed = Put(@, q, failed)], q), <<>>)

(* A quest that can be repeated stays among the active ones, NOT_STARTED.  *)
(* The quests that follow are started in further sections.                 *)
ClaimQuestReward(t, q) ==
    IF q \notin DOMAIN Data.active \/ Data.active[q].state # "COMPLETED" THEN Stays(t)
    ELSE LET claimed == [journal.active[q] EXCEPT !.state = "REWARDS_CLAIMED",
                                                  !.rewards_claimed = TRUE]
             again == [journal.active[q] EXCEPT !.state = "NOT_STARTED", !.done = {},
                                                !.count = [o \in DOMAIN @ |-> 0]]
             moved == IF Definition[q].repeatable
                      THEN [journal EXCEPT
                             !.active[q] = again,
                             !.cooling = IF Definition[q].type = "SIDE" THEN @ ELSE @ \cup {q}]
                      ELSE [journal EXCEPT !.active = Drop(@, q),
                                           !.completed = Put(@, q, claimed)]
         IN Does(t, Untracked([moved EXCEPT !.total_completed = @ + 1], q),
                 [k \in DOMAIN Definition[q].next |-> Check(Definition[q].next[k])])

UpdateObjective(t, q, o, delta) ==
    LET count == Data.active[q].count[o] + delta
        required == Objectives(q)[o].required
        new == IF count < required THEN count ELSE required
    IN IF /\ q \in DOMAIN Data.active
          /\ Data.active[q].state = "IN_PROGRESS"
          /\ new # Data.active[q].count[o]
       THEN Does(t, [journal EXCEPT
                       !.active[q].count[o] = new,
                       !.active[q].done = IF new >= required THEN @ \cup {o} ELSE @],
                 <<Step("complete", q)>>)
       ELSE Stays(t)

(* OnMonsterKilled, OnItemCollected, OnNPCTalkedTo, OnLocationVisited,     *)
(* OnDungeonCompleted, OnLevelGained, OnSkillLearned: what matches is      *)
(* collected in one section and updated in others, in any order.           *)
Matching(event) ==
    {u \in QuestIds \X UNION {DOMAIN Objectives(r) : r \in QuestIds} :
       /\ u[1] \in DOMAIN Data.active /\ Data.active[u[1]].state = "IN_PROGRESS"
       /\ u[2] \in DOMAIN Objectives(u[1]) /\ Objectives(u[1])[u[2]].event = event}

Happens(t, event, n) ==
    \E updates \in SetToSeqs(Matching(event)) :
      LET update == [k \in DOMAIN updates |-> Section("update", updates[k][1], updates[k][2], n)]
      IN IF journal = NoJournal THEN Stays(t)
         ELSE Does(t, journal, Append(update, Step("discover", event)))

(* The end of OnNPCTalkedTo starts what the NPC has to offer.              *)
DiscoverFromNPC(t, n) ==
    \E found \in SetToSeqs({q \in GetQuestsFromNPC(n) : Definition[q].discoverable}) :
        Does(t, journal, [k \in DOMAIN found |-> Check(found[k])])

(* OnTimerElapsed: some timers run out; where an objective was not done    *)
(* the quest is failed later.                                              *)
Elapsed(active, over) ==
    [q \in DOMAIN active |->
       IF active[q].state = "IN_PROGRESS"
       THEN [active[q] EXCEPT !.running = @ \ over] ELSE active[q]]

OnTimerElapsed(t, over) ==
    LET late == {q \in DOMAIN Data.active :
                   /\ Data.active[q].state = "IN_PROGRESS"
                   /\ (over \cap Data.active[q].running) \ Data.active[q].done # {}}
    IN IF journal = NoJournal THEN Stays(t)
       ELSE \E fail \in SetToSeqs(late) :
              Does(t, [journal EXCEPT !.active = Elapsed(@, over)],
                   [k \in DOMAIN fail |-> Step("fail", fail[k])])

-----------------------------------------------------------------------------
(* The chain is entered, then the mutex is locked again to start its first *)
(* quest: the operation ends there.                                        *)
LockedAgain(t, d) ==
    /\ journal' = d
    /\ calls' = [calls EXCEPT ![t] = Tail(@)]
    /\ wedged' \in BOOLEAN
    /\ UNCHANGED paper

StartQuestChain(t, c) ==
    IF c \in DOMAIN Data.chains THEN Does(t, Data, <<>>)
    ELSE LockedAgain(t, [Data EXCEPT !.chains =
                           Put(@, c, [index |-> 1, is_completed |-> FALSE])])

AdvanceQuestChain(t, c) ==
    IF c \notin DOMAIN Data.chains \/ Data.chains[c].is_completed THEN Stays(t)
    ELSE LET k == journal.chains[c].index + 1
         IN IF k > Len(Chains[c])
            THEN Does(t, [journal EXCEPT !.chains[c] = [index |-> k, is_completed |-> TRUE]], <<>>)
            ELSE Does(t, [journal EXCEPT !.chains[c].index = k], <<Check(Chains[c][k])>>)

(* TrackQuest locks for writing and calls HasQuest.                        *)
TrackQuest(t) == LockedAgain(t, journal)

(* DebugCompleteQuest starts the quest, sets it completed and claims.      *)
DebugComplete(t, q) ==
    LET more == <<Step("force", q)>>
    IN Does(t, journal, IF HasQuest(q) THEN more ELSE <<Check(q)>> \o more)

ForceComplete(t, q) ==
    IF q \notin DOMAIN Data.active THEN Does(t, Data, <<>>)
    ELSE Does(t, [journal EXCEPT
                    !.active[q].count = [o \in DOMAIN @ |-> Objectives(q)[o].required],
                    !.active[q].done = DOMAIN Objectives(q),
                    !.active[q].state = "COMPLETED"], <<Step("claim", q)>>)

(* ResetDailyQuests and ResetWeeklyQuests.                                 *)
ResetQuests(t, type) ==
    Does(t, [Data EXCEPT !.cooling = {q \in @ : Definition[q].type # type}], <<>>)

(* LoadEntityQuests only makes an entry and SaveEntityQuests does nothing: *)
(* what lasts is what a caller makes of the JSON.                          *)
LoadEntityQuests(t) == Does(t, Data, <<>>)

SerializeEntityQuests(t) ==
    /\ paper' = journal
    /\ calls' = [calls EXCEPT ![t] = Tail(@)]
    /\ UNCHANGED <<journal, wedged>>

DeserializeEntityQuests(t) ==
    IF paper = NoJournal THEN Stays(t) ELSE Does(t, paper, <<>>)

DebugResetEntityQuests(t) == Does(t, NoJournal, <<>>)

Run(t, s) ==
    \/ s.op = "check" /\ CheckStart(t, s.quest)
    \/ s.op = "insert" /\ StartQuest(t, s.quest)
    \/ s.op = "abandon" /\ AbandonQuest(t, s.quest)
    \/ s.op = "update" /\ UpdateObjective(t, s.quest, s.objective, s.n)
    \/ s.op = "complete" /\ CompleteQuest(t, s.quest)
    \/ s.op = "fail" /\ FailQuest(t, s.quest)
    \/ s.op = "claim" /\ ClaimQuestReward(t, s.quest)
    \/ s.op = "happens" /\ Happens(t, s.quest, s.n)
    \/ s.op = "discover" /\ DiscoverFromNPC(t, s.quest)
    \/ /\ s.op = "timer"
       /\ \E over \in SUBSET UNION {DOMAIN Objectives(q) : q \in QuestIds} :
            OnTimerElapsed(t, over)
    \/ s.op = "debug" /\ DebugComplete(t, s.quest)
    \/ s.op = "force" /\ ForceComplete(t, s.quest)
    \/ s.op = "chain" /\ StartQuestChain(t, s.quest)
    \/ s.op = "advance" /\ AdvanceQuestChain(t, s.quest)
    \/ s.op = "track" /\ TrackQuest(t)
    \/ s.op = "renew" /\ ResetQuests(t, "DAILY")
    \/ s.op = "load" /\ LoadEntityQuests(t)
    \/ s.op = "serialize" /\ SerializeEntityQuests(t)
    \/ s.op = "deserialize" /\ DeserializeEntityQuests(t)
    \/ s.op = "reset" /\ DebugResetEntityQuests(t)

RunSection ==
    /\ ~wedged /\ \E t \in Callers : calls[t] # <<>> /\ Run(t, Head(calls[t]))
    /\ UNCHANGED called

(* A thread that has nothing left to do is called with the next operation. *)
Operations ==
    {Step(op, q) : op \in {"check", "abandon", "complete", "fail", "claim", "debug", "track"},
                   q \in QuestIds}
      \cup {Section("happens", e, "none", n) : e \in Happenings, n \in 1..2}
      \cup {Step(op, c) : op \in {"chain", "advance"}, c \in DOMAIN Chains}
      \cup {Step(op, "none") : op \in {"timer", "renew", "load", "serialize",
                                       "deserialize", "reset"}}

Call ==
    /\ called < MaxCalls /\ called' = called + 1
    /\ \E t \in Callers, s \in Operations :
         calls[t] = <<>> /\ calls' = [calls EXCEPT ![t] = <<s>>]
    /\ UNCHANGED <<journal, paper, wedged>>

(* The day or week after a quest was done is over.                         *)
DayPasses ==
    /\ journal # NoJournal
    /\ \E q \in journal.cooling : journal' = [journal EXCEPT !.cooling = @ \ {q}]
    /\ UNCHANGED <<paper, calls, wedged, called>>

QuestsNext == RunSection \/ Call \/ DayPasses

-----------------------------------------------------------------------------
(* However starts, rewards, timers and abandoned quests of several threads *)
(* interleave, an entity never has more quests than MAX_ACTIVE_QUESTS: the *)
(* limit is looked at in the section that adds the quest, and not in the   *)
(* one that decides whether it may be started.                             *)
ActiveLimit == journal # NoJournal => Cardinality(DOMAIN journal.active) <= MAX_QUESTS

(* A quest counts as completed, or has given its reward, only with every   *)
(* objective reached, and objectives that are marked done are: late and    *)
(* repeated updates find a quest that is not in progress any more.         *)
DoneHonestly ==
    journal # NoJournal =>
      \A data \in {journal.active, journal.completed} : \A q \in DOMAIN data :
        /\ data[q].state \in {"COMPLETED", "REWARDS_CLAIMED"} => AllComplete(q, data[q])
        /\ \A o \in data[q].done : data[q].count[o] = Objectives(q)[o].required

(* Both, at any moment.                                                    *)
QuestsInv == ActiveLimit /\ DoneHonestly
=============================================================================
