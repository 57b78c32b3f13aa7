------------------------------- MODULE Movement -------------------------------
(***************************************************************************)
(* The movement of one player as the server computes it: OnPlayerState of  *)
(* GameLogic, which plays all inputs that PredictionSystem remembers, and  *)
(* the InputBuffer of the same file.                                       *)
(*                                                                         *)
(* Of a state the height over the plane y = 0, the direction of the        *)
(* vertical speed, on_ground and the rotation are kept, the first two as   *)
(* signs: how far gravity slows a jump and where a fall ends is a choice.  *)
(* Neither jumping nor movement is read from a message or set before it is *)
(* used, so that an input may jump or not whatever the client did; the     *)
(* numbers in movement are taken to be finite, and the plane coordinates   *)
(* they move are left out.  All messages come on the io thread.            *)
(***************************************************************************)
EXTENDS Integers, Sequences, FiniteSets

CONSTANTS
    MaxInputId,         \* the ids of inputs are 0 .. MaxInputId
    MAX_INPUT_HISTORY,  \* what StoreClientInput remembers
    BufferSize,         \* max_size_ of an InputBuffer
    MaxMessages         \* bound on the messages and the inputs of a buffer

MovementConstants ==
    /\ MaxInputId \in Nat /\ MAX_INPUT_HISTORY \in Nat \ {0} /\ BufferSize \in Nat

VARIABLES
    walker,   \* the player: position.y, velocity.y, onGround_, rotation
    history,  \* input_history_ of playerPrediction_[player_id]
    inputs_,  \* the ids in an InputBuffer, which has them in order, each once
    arrived,  \* the valid inputs so far, since the last leave
    lifted,   \* Len(arrived) when the player last left the ground, or 0
    buffered, \* the ids given to the InputBuffer since it was cleared
    messages  \* so far

movementVars == <<walker, history, inputs_, arrived, lifted, buffered, messages>>

Signs == {-1, 0, 1}
Inputs == [input_id : 0 .. MaxInputId, jumping : BOOLEAN]
IsValid(input) == input.input_id > 0

MovementInit ==
    /\ walker = [height |-> 0, rise |-> 0, onGround |-> TRUE, rotation |-> 0]
    /\ history = <<>> /\ inputs_ = {}
    /\ arrived = <<>> /\ lifted = 0 /\ buffered = {} /\ messages = 0

-----------------------------------------------------------------------------
(* PredictionSystem                                                        *)

Newest(s, n) == SubSeq(s, Len(s) - (IF n < Len(s) THEN n ELSE Len(s)) + 1, Len(s))

(* A variant that remembers every input.                                   *)
StoreAll(h, input) == IF IsValid(input) THEN Append(h, input) ELSE h

StoreClientInput(h, input) ==
    IF IsValid(input) THEN Newest(Append(h, input), MAX_INPUT_HISTORY) ELSE h

(* The places of the inputs it copies.                                     *)
GetUnprocessedInputs(h, last) == {k \in DOMAIN h : h[k].input_id > last}

(* What gravity makes of the vertical speed of one who is in the air.      *)
Slowed(rise) == IF rise = 1 THEN Signs ELSE {-1}

(* Where the speed takes him: up, not at all, or down, maybe to y <= 0.    *)
Moved(height, rise) ==
    CASE rise = 1 /\ height >= 0 -> {1}
      [] rise = 1 /\ height < 0  -> Signs
      [] rise = 0                -> {height}
      [] rise = -1 /\ height > 0 -> Signs
      [] OTHER                   -> {-1}

(* The ground detection: whoever is not over the plane stands on it.       *)
Grounded(w) ==
    IF w.height > 0 THEN w ELSE [w EXCEPT !.height = 0, !.rise = 0, !.onGround = TRUE]

(* The states that one input may lead to.                                  *)
ApplyInput(w, input) ==
    LET jumps == w.onGround /\ input.jumping
        rises == IF jumps THEN {1} ELSE IF w.onGround THEN {w.rise} ELSE Slowed(w.rise)
    IN {Grounded([height |-> p[2], rise |-> p[1], onGround |-> w.onGround /\ ~jumps,
                  rotation |-> input.input_id]) :
           p \in UNION {{r} \X Moved(w.height, r) : r \in rises}}

(* The inputs of h at these places, one after the other.                   *)
SimulateMovement(w, h, places) ==
    LET after[k \in 0..Len(h)] ==
            IF k = 0 THEN {w}
            ELSE IF k \in places THEN UNION {ApplyInput(v, h[k]) : v \in after[k - 1]}
            ELSE after[k - 1]
    IN after[Len(h)]

-----------------------------------------------------------------------------
(* Messages of the player                                                  *)

(* OnPlayerState.  The client turns with every input, so that the rotation *)
(* is the id of the input.                                                 *)
OnPlayerState ==
    \E input \in Inputs :
        /\ messages < MaxMessages /\ messages' = messages + 1
        /\ history' = StoreClientInput(history, input)
        /\ walker' \in SimulateMovement(walker, history', GetUnprocessedInputs(history', 0))
        /\ arrived' = IF IsValid(input) THEN Append(arrived, input) ELSE arrived
        /\ lifted' = IF walker.onGround /\ ~walker'.onGround THEN Len(arrived') ELSE lifted
        /\ UNCHANGED <<inputs_, buffered>>

(* OnPlayerPosition takes what the client reports, here its height.        *)
OnPlayerPosition ==
    \E h \in Signs :
        /\ messages < MaxMessages /\ messages' = messages + 1
        /\ walker' = [walker EXCEPT !.height = h]
        /\ UNCHANGED <<history, inputs_, arrived, lifted, buffered>>

(* OnPlayerDisconnected forgets the inputs.  The Player object stays.      *)
OnPlayerDisconnected ==
    /\ history # <<>>
    /\ history' = <<>> /\ arrived' = <<>> /\ lifted' = 0
    /\ UNCHANGED <<walker, inputs_, buffered, messages>>

-----------------------------------------------------------------------------
(* InputBuffer                                                             *)

(* std::sort and std::unique, on the ids, and what exceeds max_size_ goes  *)
(* from the front: those stay that few others are above of.                *)
Above(ids, id) == {other \in ids : other > id}
SortAndTrim(ids) == {id \in ids : Cardinality(Above(ids, id)) < BufferSize}

AddInput ==
    \E id \in 0 .. MaxInputId :
        /\ messages < MaxMessages /\ messages' = messages + 1
        /\ inputs_' = SortAndTrim(inputs_ \cup {id})
        /\ buffered' = buffered \cup {id}
        /\ UNCHANGED <<walker, history, arrived, lifted>>

Clear ==
    /\ inputs_ # {}
    /\ inputs_' = {} /\ buffered' = {}
    /\ UNCHANGED <<walker, history, arrived, lifted, messages>>

(* GetNextInput: the smallest id, or 0 of a default input.                 *)
GetNextInput ==
    IF inputs_ = {} THEN 0
    ELSE CHOOSE id \in inputs_ : \A other \in inputs_ : id <= other

MovementNext ==
    \/ OnPlayerState \/ OnPlayerPosition \/ OnPlayerDisconnected \/ AddInput \/ Clear

-----------------------------------------------------------------------------
(* A message ends with the player turned as the input says that arrived    *)
(* last, whatever its id, although all older ones were played again.       *)
NewestInputLast == arrived # <<>> => walker.rotation = arrived[Len(arrived)].input_id

(* A jump is played again with every message, and lifts a player who has   *)
(* come down, until newer inputs have pushed it out: the player leaves the *)
(* ground only for a jump among the last MAX_INPUT_HISTORY inputs.         *)
JumpsAreForgotten ==
    lifted > 0 =>
        \E i \in 1 .. lifted : lifted - i < MAX_INPUT_HISTORY /\ arrived[i].jumping

(* One who stands has no vertical speed left from a jump or a fall: he     *)
(* would rise or sink with on_ground set, out of reach of gravity.         *)
StandingIsAtRest == walker.onGround => walker.rise = 0

(* Duplicates and late inputs do not disturb an InputBuffer: it holds the  *)
(* highest ids of all it was given, as many as it may, and what it hands   *)
(* out next is above every id it has given up.                             *)
BufferKeepsNewest ==
    /\ inputs_ = SortAndTrim(buffered) /\ Cardinality(inputs_) <= BufferSize
    /\ inputs_ # {} => \A id \in buffered : id < GetNextInput <=> id \notin inputs_

(* What holds of OnPlayerState, whose every message plays all inputs that  *)
(* are remembered, and of InputBuffer.                                     *)
MovementInv ==
    NewestInputLast /\ JumpsAreForgotten /\ StandingIsAtRest /\ BufferKeepsNewest
=============================================================================
