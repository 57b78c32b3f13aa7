---------------------------- MODULE MessageLayouts ----------------------------
(***************************************************************************)
(* The fields of the messages between a WebSocket client and GameLogic.    *)
(* A worker turns the JSON of the client into the body of a binary         *)
(* message, MasterRouter reads it field by field for the handler, writes   *)
(* what the handler answers, and the worker reads that again to make JSON  *)
(* of it.  Writer and reader are two lists in two files; nothing but their *)
(* agreement says which bytes belong to which field.                       *)
(*                                                                         *)
(* A value is its bytes, the highest first (WireFormats has the            *)
(* conversions); a text is its characters.  A field has one name, that of  *)
(* the handler.  One message of one session is on its way at a time: the   *)
(* messages share nothing but the session's mode.                          *)
(***************************************************************************)
EXTENDS Integers, SequencesExt, FiniteSetsExt

CONSTANTS
    Values,    \* field -> values a client or the server gives it
    Texts,     \* the JSON text of a message that has no encoding
    Leftovers, \* what the memory of a variable that was not set may hold
    Attack, Talk, Commands \* texts the handlers know

VARIABLES
    backwards, \* the arguments of a call are evaluated from the last one
    mode,      \* protocolMode_ of the WebSocketSession
    asked,     \* the JSON message of the client
    forwarded, \* [kind, body] from the worker to the master
    handled,   \* what the handler is called with
    reply,     \* what was written, and the bytes pushed to the worker
    shown,     \* what the client gets
    failed     \* the process that an exception ended

layoutVars == <<backwards, mode, asked, forwarded, handled, reply, shown, failed>>

Nothing == [none |-> TRUE]
Nobody == "nobody"

-----------------------------------------------------------------------------
(* Writing and reading.                                                    *)

Width == [uint8 |-> 1, uint16 |-> 2, uint32 |-> 4, int32 |-> 4, float |-> 4, uint64 |-> 8,
          vector |-> 12]
Plain == DOMAIN Width

Zeros(n) == [i \in 1..n |-> 0]

(* A number in n bytes: the high ones are cut off, or zero.                *)
Fit(v, n) == IF Len(v) >= n THEN SubSeq(v, Len(v) - n + 1, Len(v)) ELSE Zeros(n - Len(v)) \o v

(* A bug: the low byte of a size or a kind first.                          *)
NumberTurned(k, n) == Fit(<<k % 256, k \div 256>>, n)
Number(k, n) == Fit(<<k \div 256, k % 256>>, n)

U8(n) == [name |-> n, type |-> "uint8"]
U16(n) == [name |-> n, type |-> "uint16"]
U32(n) == [name |-> n, type |-> "uint32"]
I32(n) == [name |-> n, type |-> "int32"]
F32(n) == [name |-> n, type |-> "float"]
U64(n) == [name |-> n, type |-> "uint64"]
Vec(n) == [name |-> n, type |-> "vector"]
Str(n) == [name |-> n, type |-> "string"]
Bytes(n) == [name |-> n, type |-> "bytes"] \* WriteBytes, which writes the size itself
Sized(n) == [name |-> n, type |-> "sized"] \* a size, and as many bytes
SizeOf(n) == [name |-> n, type |-> "size"]

NamesOf(layout) == {layout[i].name : i \in DOMAIN layout}

Put(f, v) ==
    CASE f.type \in Plain -> Fit(v, Width[f.type])
      [] f.type = "string" -> Number(Len(v), 2) \o v
      [] f.type = "bytes" -> Number(Len(v), 4) \o v
      [] f.type = "size" -> Number(Len(v), 4)

WriteAll(layout, data) == FoldLeft(LAMBDA b, f : b \o Put(f, data[f.name]), <<>>, layout)

(* The size that s spells; one of three bytes is past every buffer.        *)
SizeRead(s, b) ==
    IF \E i \in 1..Len(s) - 2 : s[i] # 0 THEN Len(b) + 1
    ELSE 256 * s[Len(s) - 1] + s[Len(s)]

(* The floats of a vector are read as the arguments of one call.           *)
Taken(f, v) ==
    IF f.type = "vector" /\ backwards THEN SubSeq(v, 9, 12) \o SubSeq(v, 5, 8) \o SubSeq(v, 1, 4)
    ELSE v

(* Reading goes on at r.at, and ends where a field is not all there.       *)
Get(b, r, f) ==
    LET head == IF f.type = "string" THEN 2 ELSE IF f.type = "sized" THEN 4 ELSE 0
        from == r.at + head
        n == IF head = 0 THEN Width[f.type] ELSE SizeRead(SubSeq(b, r.at + 1, from), b)
    IN IF r.past \/ from > Len(b) THEN [r EXCEPT !.past = TRUE]
       ELSE IF from + n > Len(b) THEN [r EXCEPT !.past = TRUE]
       ELSE [r EXCEPT !.at = from + n,
                      !.data = @ @@ (f.name :> Taken(f, SubSeq(b, from + 1, from + n)))]

ReadAll(layout, b) ==
    FoldLeft(LAMBDA r, f : Get(b, r, f), [at |-> 0, past |-> FALSE, data |-> <<>>], layout)

-----------------------------------------------------------------------------
(* The kinds and the layouts.                                              *)

Kind ==
    [authentication |-> 103, collision |-> 150, chunk_params |-> 200, get_chunk |-> 201,
     player_state |-> 302, player_spawn |-> 303, player_despawn |-> 304, player_update |-> 305,
     player_position |-> 308, players_update |-> 350, entity_spawn |-> 400,
     npc_interaction |-> 503, combat |-> 600, loot_pickup |-> 701, inventory |-> 703,
     chat_message |-> 800, familiar |-> 900]
UnknownKind == 65535

(* What a client may ask for; another name gets UnknownKind.               *)
JsonMessages ==
    {"authentication", "chat_message", "chunk_params", "get_chunk", "collision", "player_state",
     "player_position", "npc_interaction", "familiar", "entity_spawn", "loot_pickup", "inventory"}
jsonMsgType(msg) == IF msg \in JsonMessages THEN Kind[msg] ELSE UnknownKind

(* The worker writes the fields of the JSON; a message that is not here is *)
(* passed on as the text of the JSON.                                      *)
Encoded ==
    [authentication |-> <<Str("username"), Str("password")>>,
     chat_message |-> <<Str("sender"), Str("message"), U64("timestamp")>>,
     get_chunk |-> <<I32("x"), I32("z"), U8("lod"), F32("player_x"), F32("player_y"),
                     F32("player_z")>>,
     collision |-> <<Vec("position"), F32("radius")>>,
     player_position |-> <<U64("player_id"), Vec("position"), Vec("velocity"), U64("timestamp")>>,
     npc_interaction |-> <<U64("npc_id"), Str("npc_type")>>,
     familiar |-> <<U64("familiar_id"), U64("target_id"), Str("command")>>,
     entity_spawn |-> <<U64("entity_id"), I32("type"), Vec("position")>>,
     loot_pickup |-> <<U64("loot_id"), U16("quantity")>>,
     inventory |-> <<U64("loot_id"), U64("target_id"), U8("move_type"), I32("inv_slot_id"),
                     I32("use_slot_id"), U16("quantity")>>]

(* What msg.value answers for a field the JSON does not have.              *)
Default(f) ==
    CASE f.name = "quantity" -> <<0, 0, 0, 1>>
      [] f.name \in {"inv_slot_id", "use_slot_id"} -> <<255, 255, 255, 255>>
      [] f.name = "radius" -> <<63, 0, 0, 0>>
      [] f.type = "string" -> <<>>
      [] OTHER -> Zeros(12)

(* MasterRouter reads the body for the handler.                            *)
Routed ==
    [authentication |-> <<Str("username"), Str("password")>>,
     chat_message |-> <<Str("sender"), Str("message"), U64("timestamp")>>,
     chunk_params |-> <<>>,
     get_chunk |-> <<I32("x"), I32("z"), U8("lod"), F32("player_x"), F32("player_y"),
                     F32("player_z")>>,
     collision |-> <<Vec("position"), F32("radius")>>,
     player_state |-> <<U32("input_id"), Vec("position"), Vec("velocity"), Vec("rotation"),
                        U8("on_ground"), U64("timestamp")>>,
     player_position |-> <<U64("player_id"), Vec("position"), Vec("velocity"), U64("timestamp")>>,
     npc_interaction |-> <<U64("npc_id"), Str("npc_type")>>,
     familiar |-> <<U64("familiar_id"), U64("target_id"), Str("command")>>,
     entity_spawn |-> <<U64("entity_id"), I32("type"), Vec("position")>>,
     loot_pickup |-> <<U64("loot_id"), U16("quantity")>>,
     inventory |-> <<U64("loot_id"), U64("target_id"), U8("move_type"), I32("inv_slot_id"),
                     I32("use_slot_id"), U16("quantity")>>]

Update == <<U64("timestamp"), U64("player_id"), Vec("position"), F32("yaw"), F32("health"),
            F32("max_health"), Str("name")>>

(* MasterRouter writes these after their kind,                             *)
PushedWithKind ==
    [authentication |-> <<U64("timestamp"), U64("player_id"), Str("message")>>,
     chat_message |-> <<Str("sender"), Str("message"), U64("timestamp")>>,
     chunk_params |-> <<U64("timestamp"), U32("size"), F32("spacing")>>,
     get_chunk |-> <<U64("timestamp"), I32("x"), I32("z"), SizeOf("vertices"), Bytes("vertices"),
                     SizeOf("indices"), Bytes("indices"), U32("lod")>>,
     collision |-> <<U64("timestamp"), U8("collided"), U64("collided_id"), F32("penetration"),
                     Vec("resolution")>>,
     player_state |-> <<U64("timestamp"), U64("player_id"), Vec("position"), Vec("velocity"),
                        Vec("rotation"), U8("on_ground")>>,
     player_position |-> <<U64("timestamp"), U64("player_id"), Vec("position"), Vec("velocity")>>,
     player_spawn |-> <<U64("timestamp"), U64("player_id"), Str("name"), Vec("position"),
                        F32("yaw"), F32("health"), F32("max_health")>>,
     player_despawn |-> <<U64("timestamp"), U64("player_id")>>,
     player_update |-> Update,
     players_update |-> Update]

(* and these, and what GameLogic sends itself, without one.                *)
PushedBare ==
    [combat |-> <<U64("timestamp"), U64("player_id"), U64("npc_id"), F32("damage"), F32("health"),
                  U8("is_dead")>>,
     npc_interaction |-> <<U64("npc_id"), Str("quests"), U64("timestamp")>>,
     npc_failed |-> <<U64("zero"), Str("message")>>,
     familiar |-> <<U64("timestamp"), U64("familiar_id"), U64("target_id"), Str("command")>>,
     familiar_refused |-> <<U64("unset1"), U64("unset2"), U64("unset3"), Str("empty")>>,
     entity_spawn |-> <<U64("timestamp"), U64("entity_id"), I32("type"), Vec("position")>>,
     loot_pickup |-> <<U64("timestamp"), U64("loot_id"), U16("quantity")>>,
     inventory |-> <<U64("timestamp"), U64("loot_id"), U64("target_id"), U8("move_type"),
                     I32("inv_slot_id"), I32("use_slot_id"), U16("quantity")>>,
     nearby |-> <<U64("timestamp"), U32("count"), Str("entity")>>]

LayoutOf(of) == IF of \in DOMAIN PushedWithKind THEN PushedWithKind[of] ELSE PushedBare[of]

(* The worker reads a push for a client that speaks JSON.                  *)
Decoded ==
    [authentication |-> <<U64("timestamp"), U64("player_id"), Str("message")>>,
     chat_message |-> <<Str("sender"), Str("message"), U64("timestamp")>>,
     chunk_params |-> <<U64("timestamp"), U32("size"), F32("spacing")>>,
     get_chunk |-> <<U64("timestamp"), I32("x"), I32("z"), Sized("vertices"), Sized("indices"),
                     U32("lod")>>,
     collision |-> <<U64("timestamp"), U8("collided"), U64("collided_id"), F32("penetration"),
                     Vec("resolution")>>,
     player_state |-> <<U64("timestamp"), U64("player_id"), Vec("position"), Vec("velocity"),
                        Vec("rotation"), U8("on_ground")>>,
     player_position |-> <<U64("timestamp"), U64("player_id"), Vec("position"), Vec("velocity")>>,
     player_spawn |-> <<U64("timestamp"), U64("player_id"), Str("name"), Vec("position"),
                        F32("yaw"), F32("health"), F32("max_health")>>,
     player_despawn |-> <<U64("timestamp"), U64("player_id")>>,
     combat |-> <<U64("timestamp"), U64("player_id"), U64("npc_id"), F32("damage"), F32("health"),
                  U8("is_dead")>>,
     npc_interaction |-> <<U64("npc_id"), Str("quests"), U64("timestamp")>>,
     familiar |-> <<U64("timestamp"), U64("familiar_id"), U64("target_id"), Str("command")>>,
     entity_spawn |-> <<U64("timestamp"), U64("entity_id"), I32("type"), Vec("position")>>,
     loot_pickup |-> <<U64("timestamp"), U64("loot_id"), U16("quantity")>>,
     inventory |-> <<U64("timestamp"), U64("loot_id"), U64("target_id"), U8("move_type"),
                     I32("inv_slot_id"), I32("use_slot_id"), U16("quantity")>>]

-----------------------------------------------------------------------------
(* A request.                                                              *)

LayoutsInit ==
    /\ backwards \in BOOLEAN
    /\ mode = "Json"
    /\ asked = Nothing /\ forwarded = Nothing /\ handled = Nothing
    /\ reply = Nothing /\ shown = Nothing
    /\ failed = Nobody

Waiting == asked = Nothing /\ (reply # Nothing => shown # Nothing) /\ failed = Nobody

(* A client that has negotiated the binary protocol gets binary pushes;    *)
(* what it sends as JSON is still served, and what it sends as binary      *)
(* messages is dropped, since the worker sets no handler for them.         *)
Negotiate ==
    /\ Waiting
    /\ mode' = "Binary"
    /\ UNCHANGED <<backwards, asked, forwarded, handled, reply, shown, failed>>

(* Where a field has a value of another type msg.value throws; OnMessage   *)
(* catches that and drops the message.                                     *)
Ask(msg, data, mistyped) ==
    /\ Waiting
    /\ asked' = [msg |-> msg, data |-> data, mistyped |-> mistyped]
    /\ reply' = Nothing /\ shown' = Nothing
    /\ UNCHANGED <<backwards, mode, forwarded, handled, failed>>

Drop == asked' = Nothing

Encode(layout, data) ==
    WriteAll(layout, [n \in NamesOf(layout) |->
        IF n \in DOMAIN data THEN data[n]
        ELSE Default(CHOOSE f \in Range(layout) : f.name = n)])

onClientMessage(body) ==
    forwarded' = [kind |-> jsonMsgType(asked.msg), body |-> body]

OnMessage ==
    /\ asked # Nothing /\ forwarded = Nothing /\ handled = Nothing /\ failed = Nobody
    /\ \/ /\ asked.msg \in DOMAIN Encoded /\ asked.mistyped
          /\ Drop /\ UNCHANGED forwarded
       \/ /\ asked.msg \in DOMAIN Encoded /\ ~asked.mistyped
          /\ onClientMessage(Encode(Encoded[asked.msg], asked.data)) /\ UNCHANGED asked
       \/ /\ asked.msg \notin DOMAIN Encoded
          /\ \E text \in Texts : onClientMessage(text)
          /\ UNCHANGED asked
    /\ UNCHANGED <<backwards, mode, handled, reply, shown, failed>>

(* A body that ends before its last field throws, and nothing between here *)
(* and io_context::run catches it.                                         *)
RouteToGameLogic ==
    /\ forwarded # Nothing
    /\ forwarded' = Nothing
    /\ IF forwarded.kind = UnknownKind
       THEN Drop /\ UNCHANGED <<handled, failed>>
       ELSE LET request == CHOOSE m \in DOMAIN Routed : Kind[m] = forwarded.kind
                r == ReadAll(Routed[request], forwarded.body)
            IN /\ IF r.past THEN failed' = "master" /\ UNCHANGED handled
                  ELSE handled' = [request |-> request, data |-> r.data] /\ UNCHANGED failed
               /\ UNCHANGED asked
    /\ UNCHANGED <<backwards, mode, reply, shown>>

-----------------------------------------------------------------------------
(* The handlers, as far as their answers go, and the pushes.               *)

(* Ids and timestamps of the server stay below 2^48.                      *)
Counted(id) == id[1] = 0 /\ id[2] = 0

(* What a handler may answer, and the fields of the request it repeats.    *)
Answer(of, same) == {[of |-> of, same |-> same]}

OnChunkParams == Answer("chunk_params", {})
OnChunkData == Answer("get_chunk", {"x", "z", "lod"})
OnCollisionCheck == Answer("collision", {})
OnEntitySpawnRequest(d) == Answer("entity_spawn", DOMAIN d)

(* An NPC that is not there, or too far away, answers with a failure.      *)
OnNPCInteraction(d) ==
    Answer("npc_failed", {})
    \cup {a \in Answer("combat", {"npc_id"}) : Counted(d.npc_id) /\ d.npc_type = Attack}
    \cup {a \in Answer("npc_interaction", {"npc_id"}) : Counted(d.npc_id) /\ d.npc_type = Talk}

OnFamiliarCommand(d) ==
    Answer("familiar_refused", {})
    \cup {a \in Answer("familiar", DOMAIN d) : d.command \in Commands}

(* The news of a player's state or position goes to the clients near by.   *)
Answers(r, d) ==
    CASE r = "chunk_params" -> OnChunkParams
      [] r = "get_chunk" -> OnChunkData
      [] r = "collision" -> OnCollisionCheck
      [] r = "entity_spawn" -> OnEntitySpawnRequest(d)
      [] r = "npc_interaction" -> OnNPCInteraction(d)
      [] r = "familiar" -> OnFamiliarCommand(d)
      [] r = "player_position" -> Answer(r, {"timestamp", "player_id", "velocity"})
      [] r \in {"chat_message", "loot_pickup", "inventory"} -> Answer(r, DOMAIN d)
      [] r \in {"authentication", "player_state"} -> Answer(r, {})

(* Nothing is sent where the chunk or the player is not found.             *)
MayBeSilent == {"get_chunk", "player_state", "player_position"}

Push(of, data) ==
    LET layout == LayoutOf(of)
        body == WriteAll(layout, data)
    IN reply' = [of |-> of, data |-> data,
                 bytes |-> IF of \in DOMAIN PushedWithKind
                           THEN Number(Kind[of], 2) \o body ELSE body]

(* A refused familiar command answers with numbers that were never set.    *)
ValuesOf(n) ==
    CASE n \in {"unset1", "unset2", "unset3"} -> Leftovers
      [] n = "zero" -> {Zeros(8)}
      [] n = "empty" -> {<<>>}
      [] OTHER -> Values[n]
Filled(names) ==
    FoldSet(LAMBDA n, some : {d @@ (n :> v) : d \in some, v \in ValuesOf(n)}, {<<>>}, names)

Handle ==
    /\ handled # Nothing
    /\ handled' = Nothing /\ Drop
    /\ \/ \E a \in Answers(handled.request, handled.data) :
             \E d \in Filled(NamesOf(LayoutOf(a.of))) :
                Push(a.of, [n \in DOMAIN d |-> IF n \in a.same THEN handled.data[n] ELSE d[n]])
       \/ handled.request \in MayBeSilent /\ UNCHANGED reply
    /\ UNCHANGED <<backwards, mode, forwarded, shown, failed>>

Tell(of) ==
    /\ Waiting /\ shown' = Nothing
    /\ \E d \in Filled(NamesOf(LayoutOf(of))) : Push(of, d)
    /\ UNCHANGED <<backwards, mode, asked, forwarded, handled, failed>>

(* What the server sends of its own accord.                                *)
BroadcastPlayerSpawn == Tell("player_spawn")
BroadcastPlayerDespawn == Tell("player_despawn")
GameLoop == Tell("player_update") \/ Tell("players_update")
SyncNearbyEntitiesToPlayer == Tell("nearby")

(* The first two bytes are taken for the kind.                             *)
OnMasterPush ==
    /\ reply # Nothing /\ shown = Nothing /\ failed = Nobody
    /\ LET kind == 256 * reply.bytes[1] + reply.bytes[2]
           body == SubSeq(reply.bytes, 3, Len(reply.bytes))
           known == {m \in DOMAIN Decoded : Kind[m] = kind}
       IN IF mode = "Binary"
          THEN shown' = [kind |-> kind, body |-> body] /\ UNCHANGED failed
          ELSE IF known = {}
          THEN shown' = [msg |-> "error", kind |-> kind] /\ UNCHANGED failed
          ELSE LET msg == CHOOSE m \in known : TRUE
                   r == ReadAll(Decoded[msg], body)
               IN IF r.past THEN failed' = "worker" /\ UNCHANGED shown
                  ELSE shown' = [msg |-> msg, data |-> r.data] /\ UNCHANGED failed
    /\ UNCHANGED <<backwards, mode, asked, forwarded, handled, reply>>

(* The fields of a message, or all but one of them.                        *)
JsonDocuments(msg) ==
    LET names == IF msg \in DOMAIN Encoded THEN NamesOf(Encoded[msg]) ELSE {}
    IN Filled(names) \cup UNION {Filled(names \ {n}) : n \in names}

LayoutsNext ==
    \/ Negotiate
    \/ \E msg \in JsonMessages \cup {"other"} : \E data \in JsonDocuments(msg), mistyped \in BOOLEAN :
          Ask(msg, data, mistyped)
    \/ OnMessage
    \/ RouteToGameLogic
    \/ Handle
    \/ BroadcastPlayerSpawn \/ BroadcastPlayerDespawn \/ GameLoop \/ SyncNearbyEntitiesToPlayer
    \/ OnMasterPush

-----------------------------------------------------------------------------
(* Properties.                                                             *)

(* What a reader makes of v: a text, or a number in as many bytes as it    *)
(* has for it; the floats of a vector come in the other order where the    *)
(* compiler reads them so.                                                 *)
ReadAs(v, f, got) == got = (IF f.type \in Plain THEN Taken(f, Fit(v, Width[f.type])) ELSE v)

(* The handler of a request gets the fields the client gave, and the       *)
(* defaults for the others: ConnectionManager and MasterRouter agree on    *)
(* every message that has an encoding.                                     *)
RequestRead ==
    handled # Nothing /\ asked.msg \in DOMAIN Encoded =>
        /\ handled.request = asked.msg
        /\ \A f \in Range(Routed[asked.msg]) :
              ReadAs(IF f.name \in DOMAIN asked.data THEN asked.data[f.name] ELSE Default(f), f,
                     handled.data[f.name])

(* A client that speaks JSON is shown every push that carries its kind as  *)
(* it was written, but for the updates, which have no decoding, and chunk  *)
(* data, whose sizes are written twice and read once.                      *)
PushShown ==
    shown # Nothing /\ "data" \in DOMAIN shown
            /\ reply.of \in DOMAIN PushedWithKind \ {"get_chunk"} =>
        /\ shown.msg = reply.of
        /\ \A f \in Range(Decoded[reply.of]) : ReadAs(reply.data[f.name], f, shown.data[f.name])

(* A push without its kind is taken for a message of kind 0, never for     *)
(* another message, but for a refused familiar command, whose first bytes  *)
(* were never set.                                                         *)
PushUnknown ==
    shown # Nothing /\ reply.of \in DOMAIN PushedBare \ {"familiar_refused"} =>
        "kind" \in DOMAIN shown /\ shown.kind = 0

(* The others are known, or are updates.                                   *)
PushKnown ==
    shown # Nothing /\ reply.of \in DOMAIN PushedWithKind /\ "kind" \in DOMAIN shown =>
        /\ shown.kind = Kind[reply.of]
        /\ "msg" \in DOMAIN shown => reply.of \in {"player_update", "players_update"}

(* A body is found too short only where it is not what its reader expects: *)
(* the text of a player_state, chunk data, and a refused familiar command. *)
ShortBodies ==
    /\ failed = "master" => asked.msg = "player_state"
    /\ failed = "worker" => reply.of \in {"get_chunk", "familiar_refused"}

(* The fields of a message are read by the list they were written by, in   *)
(* whichever process; where the two lists differ, which is where the       *)
(* comments above say, the outcome is the one said there.                  *)
LayoutsInv == RequestRead /\ PushShown /\ PushUnknown /\ PushKnown /\ ShortBodies
=============================================================================
