------------------------------- MODULE Packet -------------------------------
(***************************************************************************)
(* Packet: a message in a buffer that grows, with a head of 14 bytes.      *)
(*                                                                         *)
(* A byte is a triple: <<field, value, k>> is the k-th byte of a field of  *)
(* the head, <<"body", n, 0>> the n-th byte that was put in the packet,    *)
(* and Stale what `new char[]` leaves.  Positions count from 0.            *)
(***************************************************************************)
EXTENDS Integers

CONSTANTS
    MinSize,        \* PACKET_MIN_SIZE (256)
    Opcodes,
    Errcodes,
    FrameLens,      \* lengths of the frames handed to NewPacketFromBytes()
    BodyLens,       \* lengths of the data handed to Append()
    MaxContent      \* bound: bytes put in one packet

PACKET_HEAD_LEN == 14
OFFSET_MESSLEN == 0
OFFSET_VERSION == 4
OFFSET_OPERCODE == 6
OFFSET_ERRCODE == 10
PACKET_VERSION == 1

ASSUME MinSizeAssumption == MinSize \in Nat /\ MinSize >= PACKET_HEAD_LEN
ASSUME InputAssumption ==
    /\ Opcodes \subseteq Nat /\ Errcodes \subseteq Nat
    /\ MaxContent \in Nat
    /\ FrameLens \subseteq 0 .. MaxContent /\ BodyLens \subseteq Nat \ {0}

VARIABLES
    packet,     \* the packet, or NoPacket
    content,    \* history: how many bytes were received and appended
    received    \* history: it was made of the bytes of a frame

packetVars == <<packet, content, received>>

NoPacket == [data |-> "NULL"]
Exists == packet # NoPacket

Stale == <<"stale", 0, 0>>
BodyByte(n) == <<"body", n, 0>>
Field(name, value) == [k \in 0 .. 3 |-> <<name, value, k>>]
Body(n, len) == [k \in 0 .. len - 1 |-> BodyByte(n + k)]

-----------------------------------------------------------------------------
(* The size to which CheckLen() brings a buffer of `max` bytes. *)
Capacity(max, len) ==
    LET grow[m \in Nat] ==
            IF m >= len THEN m
            ELSE grow[IF m < MinSize THEN MinSize ELSE 2 * m]
    IN  grow[max]

Larger(a, b) == IF a >= b THEN a ELSE b

(* Mutated form: the old buffer is not copied. *)
CheckLen_NoCopy(p, len) ==
    LET size == Capacity(p.dataMaxLen, Larger(len, PACKET_HEAD_LEN))
    IN  IF size = p.dataMaxLen THEN p
        ELSE [p EXCEPT !.dataMaxLen = size,
                       !.data = [i \in 0 .. size - 1 |-> Stale]]

(* CheckLen(): when the buffer is too small, a larger one is allocated and *)
(* the first dataNowLen bytes are copied to it.                            *)
CheckLen(p, len) ==
    LET size == Capacity(p.dataMaxLen, Larger(len, PACKET_HEAD_LEN))
    IN  IF size = p.dataMaxLen THEN p
        ELSE [p EXCEPT !.dataMaxLen = size,
                       !.data = [i \in 0 .. size - 1 |->
                           IF i < p.dataNowLen THEN p.data[i] ELSE Stale]]

WriteData(p, bytes, len, pos) ==
    LET q == CheckLen(p, len + pos)
    IN  [q EXCEPT !.data = [i \in 0 .. q.dataMaxLen - 1 |->
            IF i \in pos .. pos + len - 1 THEN bytes[i - pos] ELSE q.data[i]]]

Write(p, name, value, pos) == WriteData(p, Field(name, value), 4, pos)

(* Mutated form: room is made for the fields alone, not for the message. *)
WriteHead_NoCheck(p) ==
    LET p1 == Write(p, "len", p.message_len, OFFSET_MESSLEN)
        p2 == Write(p1, "version", p.version, OFFSET_VERSION)
        p3 == Write(p2, "opcode", p.operatecode, OFFSET_OPERCODE)
    IN  Write(p3, "errcode", p.errorcode, OFFSET_ERRCODE)

(* Every field is written as four bytes, so that the opcode covers the end *)
(* of the version.                                                         *)
WriteHead(p) ==
    LET p0 == CheckLen(p, p.message_len)
        p1 == Write(p0, "len", p.message_len, OFFSET_MESSLEN)
        p2 == Write(p1, "version", p.version, OFFSET_VERSION)
        p3 == Write(p2, "opcode", p.operatecode, OFFSET_OPERCODE)
    IN  Write(p3, "errcode", p.errorcode, OFFSET_ERRCODE)

(* Read(): the number in four bytes.  Where they are not the bytes of one  *)
(* field in order, it is put together from parts of several: Mixed.        *)
Mixed == -1

Read(data, name, pos) ==
    LET v == data[pos][2]
    IN  IF \A k \in 0 .. 3 : data[pos + k] = <<name, v, k>> THEN v ELSE Mixed

InitPacket ==
    WriteHead([message_len |-> PACKET_HEAD_LEN, version |-> PACKET_VERSION,
               operatecode |-> 0, errorcode |-> 0, data |-> <<>>,
               dataMaxLen |-> 0, dataNowLen |-> 0])

(* The two constructors. *)
OfCodes(op, err) ==
    WriteHead([InitPacket EXCEPT !.operatecode = op, !.errorcode = err])

OfBytes(frame, len) ==
    LET p == CheckLen(InitPacket, len)
    IN  [p EXCEPT
            !.data = [i \in 0 .. p.dataMaxLen - 1 |->
                        IF i < len THEN frame[i] ELSE p.data[i]],
            !.dataNowLen = len,
            !.message_len = Read(frame, "len", OFFSET_MESSLEN),
            !.version = Read(frame, "version", OFFSET_VERSION),
            !.operatecode = Read(frame, "opcode", OFFSET_OPERCODE),
            !.errorcode = Read(frame, "errcode", OFFSET_ERRCODE)]

(* The bytes of a frame from a client, with the head WriteHead() writes;   *)
(* doRead() cut it by the length in the head.                              *)
FrameOf(op, err, len) ==
    LET head == WriteHead([OfCodes(op, err) EXCEPT !.message_len = len])
    IN  [i \in 0 .. len - 1 |->
            IF i < PACKET_HEAD_LEN THEN head.data[i] ELSE BodyByte(i)]

PacketInit == packet = NoPacket /\ content = 0 /\ received = FALSE

-----------------------------------------------------------------------------
NewPacket(op, err) ==
    /\ ~ Exists
    /\ packet' = OfCodes(op, err)
    /\ content' = 0
    /\ received' = FALSE

(* NULL is returned for less than a head. *)
NewPacketFromBytes(op, err, len) ==
    /\ ~ Exists
    /\ len >= PACKET_HEAD_LEN
    /\ packet' = OfBytes(FrameOf(op, err, len), len)
    /\ content' = len
    /\ received' = TRUE

(* Mutated form: the head is left as it was. *)
AppendData_StaleHead(len) ==
    /\ Exists
    /\ content + len <= MaxContent
    /\ LET p == WriteData(packet, Body(content, len), len, packet.dataNowLen)
       IN  packet' = [p EXCEPT !.dataNowLen = @ + len, !.message_len = @ + len]
    /\ content' = content + len
    /\ UNCHANGED received

AppendData(len) ==
    /\ Exists
    /\ content + len <= MaxContent
    /\ LET p == WriteData(packet, Body(content, len), len, packet.dataNowLen)
       IN  packet' = WriteHead([p EXCEPT !.dataNowLen = @ + len,
                                         !.message_len = @ + len])
    /\ content' = content + len
    /\ UNCHANGED received

Pack ==
    /\ Exists
    /\ packet' = WriteHead(packet)
    /\ UNCHANGED <<content, received>>

Delete ==
    /\ Exists
    /\ packet' = NoPacket
    /\ content' = 0
    /\ received' = FALSE

PacketNext ==
    \/ \E op \in Opcodes, err \in Errcodes :
          \/ NewPacket(op, err)
          \/ \E len \in FrameLens : NewPacketFromBytes(op, err, len)
    \/ \E len \in BodyLens : AppendData(len)
    \/ Pack
    \/ Delete

PacketSpec == PacketInit /\ [][PacketNext]_packetVars

-----------------------------------------------------------------------------
(* Type correctness; the used part of the buffer lies in the buffer, and   *)
(* so do the `message_len` bytes that the callers send from `data`         *)
(* (PlayerManager.cpp:122), however the buffer grew.                       *)
PacketTypeOK ==
    /\ content \in 0 .. MaxContent
    /\ received \in BOOLEAN
    /\ Exists =>
          /\ packet.dataMaxLen \in Nat /\ packet.dataMaxLen >= MinSize
          /\ DOMAIN packet.data = 0 .. packet.dataMaxLen - 1
          /\ packet.dataNowLen \in 0 .. packet.dataMaxLen
          /\ packet.message_len \in 0 .. packet.dataMaxLen
          /\ packet.operatecode \in Nat /\ packet.errorcode \in Nat
          /\ packet.version \in {PACKET_VERSION, Mixed}

(* The receiver of those bytes finds their number, the opcode and the      *)
(* error code in the head, although version and opcode share two bytes and *)
(* Append() writes the body of a new packet over the head first.           *)
HeadReadsBack ==
    Exists =>
        /\ Read(packet.data, "len", OFFSET_MESSLEN) = packet.message_len
        /\ Read(packet.data, "opcode", OFFSET_OPERCODE) = packet.operatecode
        /\ Read(packet.data, "errcode", OFFSET_ERRCODE) = packet.errorcode

(* What the receiver of the message_len bytes gets behind the head.  A     *)
(* packet made of a frame keeps every byte that was received and appended. *)
(* One made by NewPacket() has dataNowLen 0 with the head in place, so the *)
(* first Append() goes to the head's place: exactly its first 14 bytes are *)
(* lost, every later byte stays where it was put, and the message ends in  *)
(* 14 bytes that were never written (packet.cpp:155-165, 236).  So it is   *)
(* through any number of moves to a larger buffer.                         *)
MessageContents ==
    Exists =>
        /\ packet.message_len =
              IF received THEN content ELSE content + PACKET_HEAD_LEN
        /\ packet.dataNowLen = content
        /\ \A i \in PACKET_HEAD_LEN .. packet.message_len - 1 :
              packet.data[i] = IF i < content THEN BodyByte(i) ELSE Stale

(* dataNowLen is, in the words of packet.h:63, the size of the buffer in   *)
(* use: no byte beyond it has been written.                                *)
UsedIsCounted ==
    Exists =>
        \A i \in 0 .. packet.dataMaxLen - 1 :
            packet.data[i] # Stale => i < packet.dataNowLen

=============================================================================
