------------------------------ MODULE WireFormats ------------------------------
(***************************************************************************)
(* What goes over the network: WebSocket frames and messages cut into      *)
(* frames, the fields of the binary protocol, and the handshake of         *)
(* WebSocketClient.                                                        *)
(*                                                                         *)
(* A byte has Radix values, 256 in the program; every number below is that *)
(* of the code for Radix = 256.  A buffer is a sequence of bytes; the      *)
(* first byte of a frame, and the header of a binary message, which is     *)
(* copied as it lies in memory, stay records.  Headers are looked up by    *)
(* name whatever the case.  The hash of a key is another value.            *)
(***************************************************************************)
EXTENDS Integers, SequencesExt, FiniteSetsExt, Bitwise

CONSTANTS
    Radix,
    Payloads,       \* messages, sequences of bytes
    MaskingKeys,    \* four bytes each
    max_frame_size,
    Fields,         \* what a writer is given: [kind, value]
    Announced,      \* ProtocolCapabilities
    MaxFields,      \* bound on the fields written
    Keys, Accept,   \* values of Sec-WebSocket-Key, and their hashes
    Urls            \* [protocol, host, port, path, query], NoPart where left out

ASSUME WireAssumption ==
    /\ Radix \in Nat /\ Radix >= 8 /\ max_frame_size \in Nat \ {0}
    /\ \A k, l \in Keys : Accept[k] = Accept[l] => k = l

VARIABLES
    message, frames, \* what is sent, and the frames left of it
    packet,          \* the frame on its way
    arrived,         \* the frames that were read
    buffer,          \* of the BinaryWriter
    wrote, fetched,  \* the fields written and read
    peer             \* the WebSocketClient

wireVars == <<message, frames, packet, arrived, buffer, wrote, fetched, peer>>

frameVars == <<message, frames, packet, arrived>>
fieldVars == <<buffer, wrote, fetched>>

(* The last n digits of v, the highest first.                              *)
Digits(v, n) == [i \in 1..n |-> (v \div Radix ^ (n - i)) % Radix]
Number(s) == FoldLeft(LAMBDA v, d : v * Radix + d, 0, s)

-----------------------------------------------------------------------------
(* Frames.                                                                 *)

Half == Radix \div 2              \* the bit that says a frame is masked
Small == Half - 3                 \* 125
NoMask == <<>>

ApplyMask(data, key) ==
    IF key = NoMask THEN data
    ELSE [i \in DOMAIN data |-> data[i] ^^ key[1 + ((i - 1) % 4)]]

ExtendedLength(n) ==
    CASE n <= Small -> <<n>>
      [] n > Small /\ n < Radix ^ 2 -> <<Half - 2>> \o Digits(n, 2)
      [] OTHER -> <<Half - 1>> \o Digits(n, 8)

Serialize(f) ==
    LET length == ExtendedLength(Len(f.data))
        second == (IF f.key = NoMask THEN 0 ELSE Half) + Head(length)
    IN [first |-> [fin |-> f.fin, opcode |-> f.opcode],
        rest |-> <<second>> \o Tail(length) \o f.key \o ApplyMask(f.data, f.key)]

GetFrameHeaderSize(f) ==
    2 + (CASE Len(f.data) <= Small -> 0
           [] Len(f.data) > Small /\ Len(f.data) < Radix ^ 2 -> 2
           [] OTHER -> 8)
      + (IF f.key = NoMask THEN 0 ELSE 4)

TooShort == [fin |-> FALSE, opcode |-> "none", key |-> NoMask, data |-> <<>>]

(* The length of b is one less than that of the buffer.                    *)
Deserialize(first, b) ==
    LET masked == b[1] >= Half
        code == b[1] % Half
        extra == CASE code = Half - 2 -> 2 [] code = Half - 1 -> 8 [] OTHER -> 0
        size == IF extra = 0 THEN code ELSE Number(SubSeq(b, 2, 1 + extra))
        body == 1 + extra + (IF masked THEN 4 ELSE 0)
        key == IF masked THEN SubSeq(b, 2 + extra, body) ELSE NoMask
    IN IF Len(b) < 1 \/ Len(b) < 1 + extra \/ Len(b) < body \/ Len(b) < body + size THEN TooShort
       ELSE [fin |-> first.fin, opcode |-> first.opcode, key |-> key,
             data |-> ApplyMask(SubSeq(b, body + 1, body + size), key)]

CreateFrame(opcode, data) == [fin |-> TRUE, opcode |-> opcode, key |-> NoMask, data |-> data]
CreateCloseFrame(code, reason) ==
    CreateFrame("close", IF code = 0 THEN <<>> ELSE Digits(code, 2) \o reason)

(* A variant that ends a message one frame early.                          *)
FragmentMessageEarly(m) ==
    LET n == (Len(m.data) + max_frame_size - 1) \div max_frame_size
    IN [i \in 1..n |->
          [fin |-> i >= n - 1, opcode |-> IF i = 1 THEN m.opcode ELSE "continuation", key |-> NoMask,
           data |-> SubSeq(m.data, (i - 1) * max_frame_size + 1,
                           Min({i * max_frame_size, Len(m.data)}))]]
FragmentMessage(m) ==
    LET n == (Len(m.data) + max_frame_size - 1) \div max_frame_size
    IN IF n <= 1 THEN <<CreateFrame(m.opcode, m.data)>>
       ELSE [i \in 1..n |->
               [fin |-> i = n, opcode |-> IF i = 1 THEN m.opcode ELSE "continuation", key |-> NoMask,
                data |-> SubSeq(m.data, (i - 1) * max_frame_size + 1,
                                Min({i * max_frame_size, Len(m.data)}))]]

NoPacket == [first |-> [fin |-> FALSE, opcode |-> "none"], rest |-> <<>>]
NoMessage == [opcode |-> "none", data |-> <<>>]

Give(m) ==
    /\ message = NoMessage
    /\ message' = m
    /\ frames' = (IF m.opcode = "close" THEN <<CreateCloseFrame(Number(m.data), <<>>)>>
                  ELSE IF m.opcode \in {"ping", "pong"} THEN <<CreateFrame(m.opcode, m.data)>>
                  ELSE FragmentMessage(m))
    /\ UNCHANGED <<packet, arrived, fieldVars, peer>>

SendNext(key) ==
    /\ frames # <<>> /\ packet = NoPacket
    /\ frames' = <<[Head(frames) EXCEPT !.key = key]>> \o Tail(frames)
    /\ packet' = Serialize([Head(frames) EXCEPT !.key = key])
    /\ UNCHANGED <<message, arrived, fieldVars, peer>>

Arrive ==
    /\ packet # NoPacket
    /\ arrived' = Append(arrived, Deserialize(packet.first, packet.rest))
    /\ frames' = Tail(frames) /\ packet' = NoPacket
    /\ UNCHANGED <<message, fieldVars, peer>>

-----------------------------------------------------------------------------
(* Fields.                                                                 *)

Width == [uint8 |-> 1, uint16 |-> 2, uint32 |-> 4, uint64 |-> 8, int32 |-> 4]
Widths == DOMAIN Width

WriteField(f) ==
    CASE f.kind \in Widths -> Digits(f.value, Width[f.kind])
      [] f.kind = "string" -> Digits(Len(f.value), 2) \o f.value
      [] f.kind = "bytes" -> Digits(Len(f.value), 4) \o f.value
      [] OTHER -> f.value      \* a vector: the bytes of its floats

(* What is read and what is left; nothing when that is beyond the bounds.  *)
ReadBytes(b, n) ==
    IF n > Len(b) THEN {}
    ELSE {[rest |-> SubSeq(b, n + 1, Len(b)), value |-> SubSeq(b, 1, n)]}
Signed(v, n) == IF v >= Half * Radix ^ (n - 1) THEN v - Radix ^ n ELSE v
ReadSized(b, n) == UNION {ReadBytes(r.rest, Number(r.value)) : r \in ReadBytes(b, n)}

(* The length WriteBytes puts in front is left to the caller to read.  The *)
(* floats of a vector are read as the arguments of one call, in either     *)
(* order.                                                                  *)
ReadField(kind, b) ==
    CASE kind \in Widths ->
           {[r EXCEPT !.value = IF kind = "int32" THEN Signed(Number(@), 4) ELSE Number(@)] :
              r \in ReadBytes(b, Width[kind])}
      [] kind = "string" -> ReadSized(b, 2)
      [] kind = "bytes" -> ReadSized(b, 4)
      [] OTHER ->
           UNION {{r, [r EXCEPT !.value = SubSeq(@, 9, 12) \o SubSeq(@, 5, 8) \o SubSeq(@, 1, 4)]} :
                    r \in ReadBytes(b, 12)}

(* ProtocolCapabilities are written and read as fields.                    *)
Capabilities(c) ==
    <<[kind |-> "uint8", value |-> c.version], [kind |-> "uint8", value |-> c.compression],
      [kind |-> "uint8", value |-> c.encryption], [kind |-> "uint32", value |-> c.max_message_size],
      [kind |-> "uint16", value |-> Len(c.types)]>>
    \o [i \in DOMAIN c.types |-> [kind |-> "uint16", value |-> c.types[i]]]

WriteNext(fields) ==
    /\ fetched = <<>> /\ Len(wrote) < MaxFields
    /\ buffer' = buffer \o FlattenSeq([i \in DOMAIN fields |-> WriteField(fields[i])])
    /\ wrote' = wrote \o fields
    /\ UNCHANGED <<frameVars, fetched, peer>>

(* The exception of a reader that reads too far ends the reading.          *)
ReadNext ==
    LET kind == wrote[Len(fetched) + 1].kind
    IN /\ Len(fetched) < Len(wrote)
       /\ \E r \in ReadField(kind, buffer) :
            /\ buffer' = r.rest
            /\ fetched' = Append(fetched, [kind |-> kind, value |-> r.value])
       /\ UNCHANGED <<frameVars, wrote, peer>>

-----------------------------------------------------------------------------
(* The client.                                                             *)

NoPart == "none"

ParseUrl(u) ==
    LET protocol == IF u.protocol = NoPart THEN "ws" ELSE u.protocol
    IN [protocol |-> protocol, host |-> u.host,
        port |-> IF u.port # 0 THEN u.port % Radix ^ 2 ELSE IF protocol = "wss" THEN 443 ELSE 80,
        path |-> IF u.path = NoPart THEN "/" ELSE u.path,
        query |-> u.query]
(* A port of another protocol is not written.                              *)
UrlToString(u) ==
    [u EXCEPT !.port = IF \/ u.protocol = "ws" /\ u.port # 80
                          \/ u.protocol = "wss" /\ u.port # 443 THEN u.port ELSE 0]

NoKey == "no key"
NotConnected == [stage |-> "HANDSHAKE", pc |-> "idle", key |-> NoKey, url |-> NoPart, answered |-> NoKey]
Fails(pc) == peer' = [peer EXCEPT !.stage = pc, !.pc = "done"]

Connect(u) ==
    /\ peer.pc = "idle"
    /\ peer' = [peer EXCEPT !.pc = "resolve", !.url = ParseUrl(u)]
    /\ UNCHANGED <<frameVars, fieldVars>>

Secure == peer.url.protocol = "wss"

(* The name is resolved, the connection made, and with wss also TLS set up.*)
Progress ==
    /\ \/ peer.pc = "resolve" /\ peer' = [peer EXCEPT !.pc = "connect"]
       \/ /\ peer.pc = "connect" /\ Secure
          /\ peer' = [peer EXCEPT !.pc = "tls"]
       \/ /\ peer.pc = "tls" \/ (peer.pc = "connect" /\ ~Secure)
          /\ \E k \in Keys : peer' = [peer EXCEPT !.pc = "request", !.key = k]
       \/ peer.pc = "request" /\ peer' = [peer EXCEPT !.pc = "response"]
    /\ UNCHANGED <<frameVars, fieldVars>>

HandleError ==
    /\ peer.pc \notin {"idle", "done"} /\ Fails("CLOSED")
    /\ UNCHANGED <<frameVars, fieldVars>>

(* A response answers the key of some request, or none.                    *)
GenerateResponse(key) ==
    [status |-> 101, upgrade |-> TRUE, connection |-> TRUE,
     accept |-> IF key = NoKey THEN "" ELSE Accept[key]]
Responses ==
    {GenerateResponse(k) : k \in Keys \cup {NoKey}}
    \cup {[GenerateResponse(k) EXCEPT !.status = 403] : k \in Keys}
    \cup {[GenerateResponse(k) EXCEPT !.upgrade = FALSE] : k \in Keys}

Validate(r, key) == r.status = 101 /\ r.upgrade /\ r.connection /\ r.accept = Accept[key]

(* The response is read from socket_, which a client with wss has not      *)
(* connected.                                                              *)
Answered ==
    /\ peer.pc = "response" /\ ~Secure
    /\ \E r \in Responses :
         peer' = [peer EXCEPT !.stage = IF Validate(r, peer.key) THEN "OPEN" ELSE "CLOSED",
                              !.pc = "done", !.answered = r.accept]
    /\ UNCHANGED <<frameVars, fieldVars>>

-----------------------------------------------------------------------------
WireInit ==
    /\ message = NoMessage /\ frames = <<>> /\ packet = NoPacket /\ arrived = <<>>
    /\ buffer = <<>> /\ wrote = <<>> /\ fetched = <<>>
    /\ peer = NotConnected

Messages ==
    [opcode : {"text", "binary"}, data : Payloads]
    \cup [opcode : {"ping", "pong"}, data : {d \in Payloads : Len(d) <= Small}]
    \cup [opcode : {"close"}, data : {d \in Payloads : Len(d) = 2}]

(* One of the three at a time.                                             *)
WireNext ==
    \/ /\ wrote = <<>> /\ peer = NotConnected
       /\ (\E m \in Messages : Give(m)) \/ (\E k \in MaskingKeys \cup {NoMask} : SendNext(k)) \/ Arrive
    \/ /\ message = NoMessage /\ peer = NotConnected
       /\ \/ \E f \in Fields : WriteNext(<<f>>)
          \/ \E c \in Announced : WriteNext(Capabilities(c))
          \/ ReadNext
    \/ /\ message = NoMessage /\ wrote = <<>>
       /\ (\E u \in Urls : Connect(u)) \/ Progress \/ HandleError \/ Answered

-----------------------------------------------------------------------------
(* A message arrives as it was, in frames of which the last alone says so; *)
(* a frame of which a part is missing is not taken for a whole one.        *)
FramesAgree ==
    LET data == FlattenSeq([i \in DOMAIN arrived |-> arrived[i].data])
    IN /\ packet # NoPacket =>
            /\ Deserialize(packet.first, packet.rest) = Head(frames)
            /\ Len(packet.rest) + 1 = GetFrameHeaderSize(Head(frames)) + Len(Head(frames).data)
            /\ \A n \in 1..(Len(packet.rest) - 1) :
                 Deserialize(packet.first, SubSeq(packet.rest, 1, n)) = TooShort
       /\ IsPrefix(data, message.data)
       /\ \A i \in DOMAIN arrived :
            /\ arrived[i].fin <=> (frames = <<>> /\ i = Len(arrived))
            /\ arrived[i].opcode = IF i = 1 THEN message.opcode ELSE "continuation"
       /\ arrived # <<>> /\ frames = <<>> => data = message.data

(* A reader gets the fields that were written, but for vectors, and up to  *)
(* a string whose length does not fit in two bytes.                        *)
FieldsAgree ==
    \A i \in DOMAIN fetched :
        (\A j \in 1..i : wrote[j].kind = "string" => Len(wrote[j].value) < Radix ^ 2)
        => wrote[i].kind = "vector" \/ fetched[i] = wrote[i]

(* A client is open only towards a server that answered its own key.       *)
PeerAnswered ==
    /\ peer.stage = "OPEN" => peer.answered = Accept[peer.key] /\ ~Secure
    /\ peer.pc # "idle" /\ peer.url.protocol \in {"ws", "wss"} => ParseUrl(UrlToString(peer.url)) = peer.url

FrameInv == FramesAgree /\ FieldsAgree /\ PeerAnswered
=============================================================================
