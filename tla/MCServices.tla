------------------------------ MODULE MCServices ------------------------------
(***************************************************************************)
(* WireFormats, MessageLayouts, ChunkStore, SqlClients and Configuration   *)
(* for TLC, side by side.  They share no state, so a behaviour runs one    *)
(* part, the focus, and leaves the others as they start.                   *)
(***************************************************************************)
EXTENDS WireFormats, ChunkStore, TLC

CONSTANTS
    Threads, Links, Owners, MaxStatements, Texts, Fillings,
    Documents, Paths, Leaves, MaxSettings,
    FieldValues, JsonTexts, Leftovers, Attack, Talk, Commands

VARIABLES
    focus,
    dialect, rows, links, marks, prepared, jobs, claims, count, text,
    document, configPath_, configFile, untouched, written, settings,
    backwards, mode, asked, forwarded, handled, reply, shown, failed

Sql == INSTANCE SqlClients
Cfg == INSTANCE Configuration
Lay == INSTANCE MessageLayouts WITH Values <- FieldValues, Texts <- JsonTexts

rowVars == <<dialect, rows, links, marks, prepared, jobs, claims, count, text>>
configurationVars == <<document, configPath_, configFile, untouched, written, settings>>

layoutVars == <<backwards, mode, asked, forwarded, handled, reply, shown, failed>>

storageVars == <<storeVars, rowVars>>
vars == <<focus, wireVars, storageVars, configurationVars, layoutVars>>

(* Payloads about the frame size of 65 and the length forms of radix 8.    *)
Ramp(n) == [i \in 1..n |-> (3 * i) % 8]
ThePayloads == {Ramp(n) : n \in {0, 1, 2, 63, 64, 130}}
TheKeys == {<<1, 2, 3, 4>>}
Field(kind, value) == [kind |-> kind, value |-> value]
TheFields ==
    {Field("uint8", 7), Field("uint16", 9), Field("uint32", 4000), Field("uint64", 8^7 + 5),
     Field("int32", -3), Field("string", Ramp(0)), Field("string", Ramp(9)),
     Field("string", Ramp(65)), Field("bytes", Ramp(3)), Field("vector", Ramp(12))}
TheAccepts == [k1 |-> "a1", k2 |-> "a2"]
TheUrls == [protocol : {NoPart, "ws", "wss", "http"}, host : {"h"}, port : {0, 80, 65, 443},
            path : {NoPart, "/a"}, query : {NoPart}]
TheCapabilities ==
    {[version |-> 1, compression |-> 1, encryption |-> 0, max_message_size |-> 4000,
      types |-> <<5, 60>>]}

TheCoordinates == {-1, 0, 10}

(* Statements with one to three placeholders, and parameters of up to      *)
(* three characters, an apostrophe and a question mark among them.         *)
Words == UNION {[1..n -> {"a", "'", "?"}] : n \in 0..3}
TheTexts == {<<"?">>, <<"?", "?">>, <<"a", "?", "a", "?", "?">>}
TheFillings == {<<x>> : x \in Words} \cup {<<x, y>> : x \in Words, y \in {<<"a">>, <<"?", "'">>}}

(* A valid configuration of a binary and a WebSocket group, the port of    *)
(* one being a multiple of 2^16, and what may be wrong with it, once in a  *)
(* field that is not validated.                                            *)
Json(kind, n, t) == [kind |-> kind, text |-> t, n |-> n, fraction |-> FALSE]
Object == Json("object", 0, "")
Whole(n) == Json("int", n, "")
Word(t) == Json("text", 0, t)
Group(i, field) == <<"workers", "clients", i>> \o field
TheConfiguration ==
    <<>> :> Object @@ <<"workers">> :> Object @@ <<"workers", "clients">> :> Json("array", 0, "")
      @@ Group("0", <<>>) :> Object
      @@ Group("0", <<"port">>) :> Whole(9999) @@ Group("0", <<"count">>) :> Whole(2)
      @@ Group("1", <<>>) :> Object @@ Group("1", <<"protocol">>) :> Word("websocket")
      @@ Group("1", <<"port">>) :> Whole(65536)
      @@ <<"database">> :> Object @@ <<"database", "name">> :> Word("game")
      @@ <<"game">> :> Object @@ <<"game", "max_players_per_session">> :> Whole(100)
      @@ <<"logging">> :> Object @@ <<"logging", "level">> :> Word("info")
Lacking(p) ==
    [q \in {r \in DOMAIN TheConfiguration : ~IsPrefix(p, r)} |-> TheConfiguration[q]]
TheDocuments ==
    {TheConfiguration, Lacking(Group("1", <<>>)), Lacking(Group("0", <<"port">>)),
     Lacking(<<"database", "name">>), Group("0", <<"count">>) :> Whole(0) @@ TheConfiguration,
     Group("1", <<"ssl">>) :> Object @@ TheConfiguration,
     <<"logging", "level">> :> Word("INFO") @@ Group("0", <<"reuse">>) :> Whole(1)
         @@ TheConfiguration,
     <<"logging", "level">> :> Word("loud") @@ TheConfiguration}
ThePaths ==
    {<<"world">>, <<"world", "seed">>, <<"database">>, <<"database", "name">>, <<"npcs", "1">>,
     Group("1", <<"port">>), <<"workers", "clients", "port">>}
TheLeaves ==
    {Whole(3), Word("word"), Json("bool", 1, ""), [Json("real", 2, "") EXCEPT !.fraction = TRUE]}

(* Fields of one size have different values; the server's numbers are      *)
(* below 2^48, a client's need not be.                                     *)
Run(n, k) == [i \in 1..n |-> (7 * i + k) % 256]
Low(n, k) == <<0, 0>> \o Run(n - 2, k)
TheFieldValues ==
    [username |-> {<<97>>}, password |-> {<<>>, <<98, 99>>}, sender |-> {<<97>>},
     message |-> {<<98, 99>>, <<>>}, timestamp |-> {Low(8, 1)}, x |-> {Run(4, 2)},
     z |-> {Run(4, 3)}, lod |-> {<<0, 0, 1, 2>>}, player_x |-> {Run(4, 4)},
     player_y |-> {Run(4, 5)}, player_z |-> {Run(4, 6)}, position |-> {Run(12, 7)},
     velocity |-> {Run(12, 8)}, rotation |-> {Run(12, 9)}, radius |-> {Run(4, 10)},
     player_id |-> {Low(8, 11)}, npc_id |-> {Low(8, 12), <<1, 47>> \o Run(6, 12)},
     npc_type |-> {<<97>>, <<116>>, <<>>},
     familiar_id |-> {Low(8, 13), <<3, 132>> \o Run(6, 13)},
     target_id |-> {Low(8, 14)}, command |-> {<<102>>, <<103>>},
     entity_id |-> {Low(8, 15)}, type |-> {Run(4, 16)}, loot_id |-> {Low(8, 17)},
     quantity |-> {<<0, 1, 0, 2>>}, move_type |-> {<<0, 0, 0, 3>>},
     inv_slot_id |-> {Run(4, 18)}, use_slot_id |-> {Run(4, 19)}, size |-> {Run(4, 20)},
     spacing |-> {Run(4, 21)},
     vertices |-> {Run(24, 22), Run(20, 22) \o <<0, 0, 0, 0>>},
     indices |-> {<<0, 0, 0, 4, 0, 0, 0, 5>>}, collided |-> {<<1>>},
     collided_id |-> {Low(8, 23)}, penetration |-> {Run(4, 24)},
     resolution |-> {Run(12, 25)}, on_ground |-> {<<0>>, <<1>>}, name |-> {<<97, 98>>},
     yaw |-> {Run(4, 26)}, health |-> {Run(4, 27)}, max_health |-> {Run(4, 28)},
     damage |-> {Run(4, 29)}, is_dead |-> {<<1>>}, quests |-> {<<91, 93>>},
     count |-> {<<0, 0, 0, 1>>}, entity |-> {<<123, 125>>}]
TheJsonTexts == {Run(22, 40), Run(60, 41)}
TheLeftovers ==
    {Run(8, 1), <<0, 103>> \o Run(6, 250), <<1, 48, 0, 1, 0, 1, 0, 1>>, <<0, 0, 0, 0, 0, 0, 0, 0>>}
TheAttack == <<97>>
TheTalk == <<116>>
TheCommands == {<<102>>}

(* Where a part is not the focus it starts in one state.                   *)
Init ==
    /\ focus \in {"wire", "chunks", "rows", "text", "configuration", "layouts"}
    /\ WireInit /\ StoreInit
    /\ focus # "chunks" => config = [limit |-> 1, policy |-> "LRU"]
    /\ Sql!SqlInit
    /\ focus # "rows" => dialect = "sqlite"
    /\ Cfg!ConfigurationInit
    /\ focus # "configuration" => configFile = Cfg!Unreadable
    /\ Lay!LayoutsInit
    /\ focus # "layouts" => ~backwards

WireStep == WireNext /\ UNCHANGED storageVars
ChunkStep ==
    StoreNext /\ UNCHANGED <<wireVars, rowVars>>
SqlStep ==
    /\ \/ focus = "rows" /\ Sql!SqlNext
       \/ focus = "text" /\ Sql!TextNext
    /\ UNCHANGED <<wireVars, storeVars>>
PartStep ==
    \/ focus = "wire" /\ WireStep
    \/ focus = "chunks" /\ ChunkStep
    \/ focus \in {"rows", "text"} /\ SqlStep

Next ==
    /\ UNCHANGED focus
    /\ \/ PartStep /\ UNCHANGED <<configurationVars, layoutVars>>
       \/ /\ focus = "configuration" /\ Cfg!ConfigurationNext
          /\ UNCHANGED <<wireVars, storageVars, layoutVars>>
       \/ /\ focus = "layouts" /\ Lay!LayoutsNext
          /\ UNCHANGED <<wireVars, storageVars, configurationVars>>

Spec == Init /\ [][Next]_vars

(* The callers of the database clients are alike, and those of the cache.  *)
Alike == Permutations(Threads) \cup Permutations(Clients)

(* The invariants of the parts, each stated in its module and evaluated    *)
(* where its variables change.                                             *)
WireInv == FrameInv /\ (focus = "layouts" => Lay!LayoutsInv)
SqlInv == focus \in {"rows", "text"} => Sql!SqlInv
ConfigInv == focus = "configuration" => Cfg!ConfigInv
=============================================================================
