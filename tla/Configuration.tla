---------------------------- MODULE Configuration ----------------------------
(***************************************************************************)
(* ConfigManager: the configuration as one JSON document, loaded from a    *)
(* file after it was validated, changed by the setters, and read by key;   *)
(* with GetConfig and SetConfig, through which scripts reach it.           *)
(*                                                                         *)
(* A document is a function from paths (sequences of tokens) to nodes.  A  *)
(* number has an integer part n and perhaps a fraction; of a text a name   *)
(* is kept, "number" being what std::to_string makes of one.  Arrays have  *)
(* up to two elements.  Keys are given as their path, without the escapes  *)
(* of dots.  All methods but two lock configMutex_ for their whole work,   *)
(* and those two are called with the lock held or not at all.              *)
(***************************************************************************)
EXTENDS Integers, FiniteSets, SequencesExt, TLC

CONSTANTS
    Documents,   \* what the file may hold, if it can be parsed
    Paths,       \* paths that setters and getters are given
    Leaves,      \* the scalar nodes they are given
    MaxSettings  \* bound on the operations

VARIABLES
    document,     \* config_
    configPath_,  \* TRUE once a load succeeded
    configFile,   \* what the file holds
    untouched,    \* no setter since the last load
    written,      \* what the setters wrote since, and was not overwritten
    settings      \* operations so far

configurationVars == <<document, configPath_, configFile, untouched, written, settings>>

Unreadable == (<<>> :> [kind |-> "unreadable"])

Node(kind, text, n, fraction) == [kind |-> kind, text |-> text, n |-> n, fraction |-> fraction]
Null == Node("null", "", 0, FALSE)
Object == Node("object", "", 0, FALSE)
Array == Node("array", "", 0, FALSE)
Word(text) == Node("text", text, 0, FALSE)
Whole(n) == Node("int", "", n, FALSE)
Real(n) == Node("real", "", n, FALSE)
Flag(n) == Node("bool", "", n, FALSE)

Digits == {"0", "1"}
Levels == {"trace", "debug", "info", "warn", "error", "critical", "off"}
Lower(text) == IF text = "INFO" THEN "info" ELSE text
Place(token) == IF token = "0" THEN 0 ELSE 1
Kind(doc, p) == doc[p].kind
Above(p) == {SubSeq(p, 1, i) : i \in 0 .. Len(p) - 1}
Below(doc, p) == {q \in DOMAIN doc : IsPrefix(p, q)}
Elements(doc, p) == {t \in Digits : Append(p, t) \in DOMAIN doc}

(* HasKey, and the subtree at a path.                                      *)
HasKey(doc, p) == p \in DOMAIN doc
Subtree(doc, p) ==
    [q \in {SubSeq(r, Len(p) + 1, Len(r)) : r \in Below(doc, p)} |-> doc[p \o q]]

-----------------------------------------------------------------------------
(* Reading                                                                 *)

Numbers == {"bool", "int", "real"}

(* The typed getters: with a node missing or of another type the default.  *)
GetInt(doc, p, default) ==
    IF HasKey(doc, p) /\ Kind(doc, p) \in Numbers THEN doc[p].n ELSE default
GetFloat(doc, p, default) ==
    IF HasKey(doc, p) /\ Kind(doc, p) \in Numbers THEN <<doc[p].n, doc[p].fraction>> ELSE default
GetBool(doc, p, default) ==
    IF HasKey(doc, p) /\ Kind(doc, p) = "bool" THEN doc[p].n = 1 ELSE default
GetString(doc, p, default) ==
    IF HasKey(doc, p) /\ Kind(doc, p) = "text" THEN doc[p].text ELSE default

(* The getters with a name of their own (GetDatabaseHost to                *)
(* GetConsoleOutput): the path of each and its default.                    *)
DatabaseDefaults ==
    LET Path(f) == <<"database", f>> IN
    Path("host") :> Word("127.0.0.1") @@ Path("name") :> Word("game_db")
      @@ Path("user") :> Word("game_user") @@ Path("password") :> Word("")
      @@ Path("backend") :> Word("postgresql") @@ Path("port") :> Whole(5432)
      @@ <<"database", "pool", "size">> :> Whole(10)

GameDefaults ==
    LET Path(f) == <<"game", f>> IN
    Path("max_players_per_session") :> Whole(100)
      @@ Path("heartbeat_interval_seconds") :> Whole(30)
      @@ Path("session_timeout_seconds") :> Whole(300)

WorldDefaults ==
    LET Path(f) == <<"world", f>> IN
    Path("seed") :> Whole(12345) @@ Path("view_distance") :> Whole(1000)
      @@ Path("chunk_size") :> Whole(32) @@ Path("max_active_chunks") :> Whole(1000)
      @@ Path("preload_radius") :> Whole(500)
      @@ Path("terrain_scale") :> Real(1) @@ Path("max_terrain_height") :> Real(100)
      @@ Path("water_level") :> Real(10) @@ Path("preload_world") :> Flag(0)

LoggingDefaults ==
    LET Path(f) == <<"logging", f>> IN
    Path("level") :> Word("info") @@ Path("file") :> Word("gameserver.log")
      @@ Path("max_file_size") :> Whole(1048576) @@ Path("max_files") :> Whole(10)
      @@ Path("console") :> Flag(1)

Defaults == DatabaseDefaults @@ GameDefaults @@ WorldDefaults @@ LoggingDefaults

(* A value of another type counts as missing, a whole number loses its     *)
(* fraction, the database's port is cut to 16 bits, and the level of the   *)
(* log is put into small letters.                                          *)
Named(doc, p) ==
    LET default == Defaults[p]
        kinds == IF default.kind \in {"int", "real"} THEN Numbers ELSE {default.kind}
    IN  CASE ~HasKey(doc, p) \/ Kind(doc, p) \notin kinds -> default
          [] p = <<"database", "port">> /\ Kind(doc, p) \in kinds -> Whole(doc[p].n % 65536)
          [] p = <<"logging", "level">> /\ Kind(doc, p) \in kinds -> Word(Lower(doc[p].text))
          [] OTHER -> IF default.kind = "int" THEN Whole(doc[p].n) ELSE doc[p]

(* SplitPath and ParseSegment: in a key for GetJson an element of an array *)
(* is a segment of its own, a number in brackets after an empty field.     *)
Segments(p) ==
    [i \in DOMAIN p |-> IF p[i] \in Digits THEN [field |-> "", index |-> p[i]]
                       ELSE [field |-> p[i], index |-> ""]]

(* A step of GetJson: an object takes the field of a segment and drops its *)
(* index, an array takes the index and drops the field.                    *)
Walk(doc, at, segment) ==
    CASE at = <<"missing">> -> at
      [] at # <<"missing">> /\ Kind(doc, at) = "object" ->
            IF HasKey(doc, Append(at, segment.field)) THEN Append(at, segment.field)
            ELSE <<"missing">>
      [] at # <<"missing">> /\ Kind(doc, at) = "array" ->
            IF segment.index \in Elements(doc, at) THEN Append(at, segment.index)
            ELSE <<"missing">>
      [] OTHER -> <<"missing">>

GetJson(doc, segments, default) ==
    LET at == FoldLeft(LAMBDA q, s : Walk(doc, q, s), <<>>, segments)
    IN  IF at = <<"missing">> THEN default ELSE Subtree(doc, at)

(* GetConfig: a text is parsed; of anything else GetInt makes a number, so *)
(* a word, an array and an object come back as 0 and a boolean as 0 or 1.  *)
GetConfig(doc, p) ==
    IF ~HasKey(doc, p) THEN Null
    ELSE IF GetString(doc, p, "") = "number" THEN Node("real", "", doc[p].n, doc[p].fraction)
    ELSE Node("int", "", GetInt(doc, p, 0), FALSE)

-----------------------------------------------------------------------------
(* Validation                                                              *)

GroupList == <<"workers", "clients">>
Groups(doc) ==
    IF HasKey(doc, GroupList) /\ Kind(doc, GroupList) = "array"
    THEN {Append(GroupList, t) : t \in Elements(doc, GroupList)} ELSE {}
Text(doc, p) == HasKey(doc, p) /\ Kind(doc, p) = "text"

(* A value that may be missing: with another type value() throws.          *)
Positive(doc, p) == HasKey(doc, p) => Kind(doc, p) \in Numbers /\ doc[p].n > 0

ValidGroup(doc, w) ==
    LET field(f) == Append(w, f)
        protocol == IF HasKey(doc, field("protocol")) THEN doc[field("protocol")].text ELSE "binary"
    IN  /\ Kind(doc, w) = "object"
        /\ protocol \in {"binary", "websocket"}
        /\ HasKey(doc, field("port")) /\ Kind(doc, field("port")) \in Numbers
        /\ doc[field("port")].n # 0
        /\ Positive(doc, field("count")) /\ Positive(doc, field("threads"))
        /\ protocol = "websocket" /\ HasKey(doc, field("ssl")) =>
               \A f \in {"certificate", "private_key"} : Text(doc, field("ssl") \o <<f>>)

ValidateConfig(doc) ==
    /\ doc # Unreadable
    /\ Groups(doc) # {} /\ \A w \in Groups(doc) : ValidGroup(doc, w)
    /\ Text(doc, <<"database", "name">>)
    /\ LET players == <<"game", "max_players_per_session">>
       IN  HasKey(doc, players) /\ Kind(doc, players) = "int" /\ doc[players].n >= 0
    /\ Text(doc, <<"logging", "level">>)
    /\ Lower(doc[<<"logging", "level">>].text) \in Levels

-----------------------------------------------------------------------------
(* The groups of workers                                                   *)

(* What GetWorkerGroups reads of a group, and of its ssl object: the kinds *)
(* that value() takes; with another kind it throws.                        *)
GroupKinds ==
    [f \in {"protocol", "host", "path"} |-> {"text"}]
      @@ [f \in {"port", "max_connections", "threads", "count", "send_buffer_size",
                 "receive_buffer_size", "max_frame_size"} |-> Numbers]
      @@ [f \in {"reuse", "tcp_nodelay"} |-> {"bool"}]
      @@ [f \in {"cpu_affinity", "subprotocols"} |-> {"array"}]
      @@ [f \in {"ssl"} |-> {"object"}]
SslKinds ==
    [f \in {"certificate", "private_key", "dh_params", "ca_cert"} |-> {"text"}]
      @@ [f \in {"verify_peer"} |-> {"bool"}] @@ [f \in {"ciphers"} |-> {"array"}]

Readable(doc, q, kinds) ==
    \A f \in DOMAIN kinds : HasKey(doc, Append(q, f)) => Kind(doc, Append(q, f)) \in kinds[f]

Throws(doc) ==
    \E w \in Groups(doc) :
        \/ Kind(doc, w) # "object" \/ ~Readable(doc, w, GroupKinds)
        \/ ~Readable(doc, Append(w, "ssl"), SslKinds)

(* A group as it is read, of the rest only what starts processes.  The     *)
(* port is cut to 16 bits only here.                                       *)
WorkerGroup(doc, w) ==
    LET field(f, default) == GetInt(doc, Append(w, f), default) IN
    [port |-> field("port", 8080) % 65536,
     threads |-> field("threads", 1), count |-> field("count", 1)]

GetWorkerGroups(doc) ==
    IF Throws(doc) THEN "exception" ELSE [w \in Groups(doc) |-> WorkerGroup(doc, w)]

GetTotalWorkerCount(doc) ==
    MapThenSumSet(LAMBDA w : GetWorkerGroups(doc)[w].count, Groups(doc))
GetTotalThreadCount(doc) ==
    MapThenSumSet(LAMBDA w : GetWorkerGroups(doc)[w].threads * GetWorkerGroups(doc)[w].count,
                  Groups(doc))

-----------------------------------------------------------------------------
(* Writing                                                                 *)

(* config_[pointer] throws at a scalar on the way, and at a name where an  *)
(* array wants an index.                                                   *)
Unresolved(doc, p) ==
    \E i \in 0 .. Len(p) - 1 :
        LET q == SubSeq(p, 1, i) IN
        /\ HasKey(doc, q)
        /\ \/ Kind(doc, q) \notin {"object", "array", "null"}
           \/ Kind(doc, q) = "array" /\ p[i + 1] \notin Digits

(* Otherwise it makes what is missing: arrays where the next token is a    *)
(* number, filled with nulls up to it, objects elsewhere.                  *)
Made(doc, q, next) ==
    IF HasKey(doc, q) /\ Kind(doc, q) # "null" THEN doc[q]
    ELSE IF next \in Digits THEN Array ELSE Object

Fillers(doc, p) ==
    {Append(SubSeq(p, 1, i), t) : i \in {j \in 0 .. Len(p) - 1 :
            Made(doc, SubSeq(p, 1, j), p[j + 1]).kind = "array"}, t \in Digits}

(* A variant that leaves what was below the node that is replaced.         *)
PutOver(doc, p, sub) ==
    LET put == {p \o s : s \in DOMAIN sub}
        gaps == {q \in Fillers(doc, p) :
                    Place(Last(q)) < Place(p[Len(q)]) /\ ~HasKey(doc, q)}
    IN  [q \in (DOMAIN doc) \cup Above(p) \cup put \cup gaps |->
            IF q \in put THEN sub[SubSeq(q, Len(p) + 1, Len(q))]
            ELSE IF q \in Above(p) THEN Made(doc, q, p[Len(q) + 1])
            ELSE IF HasKey(doc, q) THEN doc[q] ELSE Null]

Put(doc, p, sub) ==
    LET put == {p \o s : s \in DOMAIN sub}
        gaps == {q \in Fillers(doc, p) :
                    Place(Last(q)) < Place(p[Len(q)]) /\ ~HasKey(doc, q)}
    IN  [q \in (DOMAIN doc \ Below(doc, p)) \cup Above(p) \cup put \cup gaps |->
            IF q \in put THEN sub[SubSeq(q, Len(p) + 1, Len(q))]
            ELSE IF q \in Above(p) THEN Made(doc, q, p[Len(q) + 1])
            ELSE IF HasKey(doc, q) THEN doc[q] ELSE Null]

(* What is known to be at a path once a setter wrote there.                *)
Remember(p, sub, script) ==
    {w \in written : ~IsPrefix(w.path, p) /\ ~IsPrefix(p, w.path)}
        \cup {[path |-> p, sub |-> sub, script |-> script]}

Write(p, sub, script) ==
    /\ settings < MaxSettings
    /\ settings' = settings + 1
    /\ IF Unresolved(document, p)
       THEN UNCHANGED <<document, written, untouched>>
       ELSE /\ document' = Put(document, p, sub)
            /\ written' = Remember(p, sub, script)
            /\ untouched' = FALSE
    /\ UNCHANGED <<configPath_, configFile>>

(* SetBool, SetInt, SetFloat and SetString write a scalar.                 *)
SetScalar(p, leaf) == Write(p, <<>> :> leaf, Null)

(* SetJson writes any value, an object here.                               *)
SetJson(p, field, leaf) == Write(p, <<>> :> Object @@ <<field>> :> leaf, Null)

(* SetConfig: a number with a fraction is stored as its text.              *)
SetConfig(p, leaf) ==
    Write(p, <<>> :> (IF leaf.kind = "real"
                             THEN Node("text", "number", leaf.n, leaf.fraction) ELSE leaf), leaf)

(* A variant that installs the document before it is validated.            *)
LoadUnchecked ==
    /\ configFile # Unreadable
    /\ document' = configFile
    /\ configPath_' = TRUE /\ untouched' = TRUE /\ written' = {}
    /\ UNCHANGED <<configFile, settings>>

(* LoadConfig, and ReloadConfig once there is a path: a file that cannot   *)
(* be read, parsed or validated changes nothing.                           *)
LoadConfig ==
    /\ ValidateConfig(configFile)
    /\ document' = configFile
    /\ configPath_' = TRUE /\ untouched' = TRUE /\ written' = {}
    /\ UNCHANGED <<configFile, settings>>

(* Somebody edits the file.                                                *)
EditFile(doc) ==
    /\ settings < MaxSettings
    /\ settings' = settings + 1
    /\ configFile' = doc
    /\ UNCHANGED <<document, configPath_, untouched, written>>

ConfigurationInit ==
    /\ document = (<<>> :> Null)
    /\ configPath_ = FALSE
    /\ configFile \in Documents \cup {Unreadable}
    /\ untouched = TRUE /\ written = {}
    /\ settings = 0

ConfigurationNext ==
    \/ LoadConfig
    \/ \E doc \in Documents \cup {Unreadable} : EditFile(doc)
    \/ \E p \in Paths, leaf \in Leaves : SetScalar(p, leaf) \/ SetConfig(p, leaf)
    \/ \E p \in Paths, leaf \in Leaves : SetJson(p, "port", leaf)

-----------------------------------------------------------------------------
(* The document stays a tree: only objects and arrays have anything below  *)
(* them, and the elements of an array are numbered without a gap.          *)
IsTree ==
    \A q \in DOMAIN document : q # <<>> =>
        LET above == Front(q) IN
        /\ above \in DOMAIN document
        /\ Kind(document, above) \in {"object", "array"}
        /\ Kind(document, above) = "array" =>
               /\ Last(q) \in Digits
               /\ \A t \in Digits : Place(t) < Place(Last(q)) => HasKey(document, Append(above, t))

(* Until somebody sets a value the server runs on a valid configuration,   *)
(* whatever became of the file and of loads that failed: unless a field    *)
(* that ValidateConfig does not look at makes GetWorkerGroups throw, there *)
(* is a worker to start and each has a thread; the level of the log is one *)
(* the logger knows; and what has to be there is never replaced by the     *)
(* default of its getter.                                                  *)
LoadedIsValid ==
    configPath_ /\ untouched =>
        /\ ValidateConfig(document)
        /\ ~Throws(document) =>
               GetTotalThreadCount(document) >= GetTotalWorkerCount(document)
               /\ GetTotalWorkerCount(document) > 0
        /\ Named(document, <<"logging", "level">>).text \in Levels
        /\ \A p \in {<<"database", "name">>, <<"game", "max_players_per_session">>} :
               Named(document, p) = document[p]

(* What was set is what is read, by each getter that knows its type, and a *)
(* number set by a script is the number a script reads.                    *)
SetIsRead ==
    \A w \in written :
        /\ Subtree(document, w.path) = w.sub
        /\ w.sub[<<>>].kind = "int" => GetInt(document, w.path, -1) = w.sub[<<>>].n
        /\ w.sub[<<>>].kind = "real" =>
               GetFloat(document, w.path, Null) = <<w.sub[<<>>].n, w.sub[<<>>].fraction>>
        /\ w.sub[<<>>].kind = "bool" =>
               \A d \in BOOLEAN : GetBool(document, w.path, d) = (w.sub[<<>>].n = 1)
        /\ w.script.kind \in {"int", "real"} =>
               LET r == GetConfig(document, w.path)
               IN  r.n = w.script.n /\ r.fraction = w.script.fraction

(* The two ways to read agree, where no field is named by a number:        *)
(* GetJson finds what HasKey finds, and a default only where it does not.  *)
ReadersAgree ==
    \A p \in Paths :
        LET found == GetJson(document, Segments(p), Unreadable)
        IN  (\A q \in Above(p) : HasKey(document, q) /\ Kind(document, q) = "object"
                                => p[Len(q) + 1] \notin Digits) =>
                /\ HasKey(document, p) <=> found # Unreadable
                /\ HasKey(document, p) => found = Subtree(document, p)

ConfigInv == IsTree /\ LoadedIsValid /\ SetIsRead /\ ReadersAgree
=============================================================================
