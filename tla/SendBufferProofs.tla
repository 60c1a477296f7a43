-------------------------- MODULE SendBufferProofs --------------------------
(***************************************************************************)
(* Proofs about a message on its way to the client: the Packet it is made  *)
(* in, and the send buffer.                                                *)
(*                                                                         *)
(* For every way to use a packet (module Packet): the message lies in its  *)
(* buffer, its head reads back, and what was put in is kept.               *)
(*                                                                         *)
(* For every buffer size, head length and size of the kernel's buffer: the *)
(* marks of send_buffer stay inside it, what the client gets is the stream *)
(* of framed messages, and no byte waits for an event that will not come.  *)
(***************************************************************************)
EXTENDS SendBuffer, Packet, SequenceTheorems, WellFoundedInduction, TLAPS

-----------------------------------------------------------------------------
(* Packets. *)

(* Every set of numbers has a least one.                                   *)
LEMMA Least ==
    ASSUME NEW T \in SUBSET Nat, T # {}
    PROVE  \E x \in T : \A y \in T : x <= y
<1> DEFINE R == {ss \in Nat \X Nat : ss[1] < ss[2]}
<1>1. IsWellFoundedOn(R, Nat)
  BY NatLessThanWellFounded DEF OpToRel
<1>2. PICK x \in T : \A y \in T : ~ (<<y, x>> \in R)
  <2> HIDE DEF R
  <2> QED
    BY <1>1, WFMin
<1>3. \A y \in T : <<y, x>> \in Nat \X Nat
  OBVIOUS
<1>4. \A y \in T : ~ (y < x)
  BY <1>2, <1>3
<1> QED
  BY <1>4

LEMMA ConstantsTyped ==
    /\ MinSize \in Nat /\ MinSize >= 14
    /\ Opcodes \subseteq Nat /\ Errcodes \subseteq Nat
    /\ MaxContent \in Nat
    /\ FrameLens \subseteq 0 .. MaxContent /\ BodyLens \subseteq Nat \ {0}
BY MinSizeAssumption, InputAssumption DEF PACKET_HEAD_LEN

(* CheckLen() doubles a size until it is large enough (packet.cpp).        *)
Grown(g, m, len) ==
    IF m >= len THEN m ELSE g[IF m < MinSize THEN MinSize ELSE 2 * m]

GrownFrom(n, len) ==
    \E g \in [{m \in Nat : m >= n} -> Nat] :
        \A m \in Nat : m >= n => g[m] = Grown(g, m, len)

LEMMA NextSize ==
    ASSUME NEW m \in Nat
    PROVE  LET k == IF m < MinSize THEN MinSize ELSE 2 * m
           IN  k \in Nat /\ k > m /\ k >= MinSize
BY ConstantsTyped

LEMMA GrownExists ==
    ASSUME NEW len \in Nat
    PROVE  GrownFrom(0, len)
<1> DEFINE T == {k \in 0 .. len : ~ GrownFrom(len - k, len)}
<1>1. ASSUME T # {} PROVE FALSE
  <2>1. PICK k \in T : \A j \in T : k <= j
    <3>1. T \in SUBSET Nat
      OBVIOUS
    <3> HIDE DEF T
    <3> QED
      BY <1>1, <3>1, Least
  <2>2. k \in 0 .. len /\ ~ GrownFrom(len - k, len)
    BY <2>1
  <2>3. CASE k = 0
    <3> DEFINE g == [m \in {m \in Nat : m >= len} |-> m]
    <3>1. g \in [{m \in Nat : m >= len} -> Nat]
      OBVIOUS
    <3>2. \A m \in Nat : m >= len => g[m] = Grown(g, m, len)
      BY DEF Grown
    <3>3. len - k = len
      BY <2>3
    <3>4. GrownFrom(len, len)
      <4> HIDE DEF g
      <4> QED
        BY <3>1, <3>2 DEF GrownFrom
    <3> QED
      BY <2>2, <3>3, <3>4
  <2>4. CASE k # 0
    <3>1. PICK n \in Nat : n = len - k /\ n < len
      BY <2>2, <2>4
    <3>2. GrownFrom(n + 1, len)
      <4>1. k - 1 \in 0 .. len /\ k - 1 \notin T /\ len - (k - 1) = n + 1
        BY <2>1, <2>2, <2>4, <3>1
      <4> QED
        BY <4>1
    <3>3. PICK g \in [{m \in Nat : m >= n + 1} -> Nat] :
              \A m \in Nat : m >= n + 1 => g[m] = Grown(g, m, len)
      BY <3>2 DEF GrownFrom
    <3>4. PICK k1 \in Nat : k1 = (IF n < MinSize THEN MinSize ELSE 2 * n) /\ k1 >= n + 1
      BY NextSize
    <3> DEFINE h == [m \in {m \in Nat : m >= n} |-> IF m = n THEN g[k1] ELSE g[m]]
    <3>5. h \in [{m \in Nat : m >= n} -> Nat]
      BY <3>3, <3>4
    <3>6. ASSUME NEW m \in Nat, m >= n PROVE h[m] = Grown(h, m, len)
      <4>1. CASE m = n
        <5>1. h[m] = g[k1] /\ h[k1] = g[k1]
          BY <3>4, <4>1
        <5>2. Grown(h, m, len) = h[k1]
          BY <3>1, <3>4, <4>1 DEF Grown
        <5> QED
          BY <5>1, <5>2
      <4>2. CASE m # n
        <5>1. m >= n + 1 /\ h[m] = g[m]
          BY <3>6, <4>2
        <5>2. g[m] = Grown(g, m, len)
          BY <3>3, <5>1
        <5>3. PICK k2 \in Nat : k2 = (IF m < MinSize THEN MinSize ELSE 2 * m) /\ k2 > m
          BY NextSize
        <5>4. h[k2] = g[k2]
          BY <3>6, <5>1, <5>3
        <5> HIDE DEF h
        <5> QED
          BY <5>1, <5>2, <5>3, <5>4 DEF Grown
      <4> QED
        BY <4>1, <4>2
    <3>7. GrownFrom(n, len)
      <4> HIDE DEF h
      <4> QED
        BY <3>5, <3>6 DEF GrownFrom
    <3> QED
      BY <2>2, <3>1, <3>7
  <2> QED
    BY <2>3, <2>4
<1>2. len \in 0 .. len /\ len - len = 0
  OBVIOUS
<1> QED
  BY <1>1, <1>2

LEMMA GrownLarge ==
    ASSUME NEW len \in Nat, NEW g,
           g = [m \in Nat |-> Grown(g, m, len)], NEW max \in Nat
    PROVE  /\ g[max] \in Nat /\ g[max] >= len /\ g[max] >= max
           /\ max >= MinSize \/ max < len => g[max] >= MinSize
           /\ max >= len => g[max] = max
<1> DEFINE Fine(m) ==
      /\ g[m] \in Nat /\ g[m] >= len /\ g[m] >= m
      /\ m >= MinSize \/ m < len => g[m] >= MinSize
      /\ m >= len => g[m] = m
<1> DEFINE T == {k \in 0 .. len : ~ Fine(len - k)}
<1>0. \A m \in Nat : g[m] = Grown(g, m, len)
  OBVIOUS
<1>1. \A m \in Nat : m >= len => Fine(m)
  BY <1>0 DEF Grown
<1>2. ASSUME T # {} PROVE FALSE
  <2>1. PICK k \in T : \A j \in T : k <= j
    <3>1. T \in SUBSET Nat
      OBVIOUS
    <3> HIDE DEF T
    <3> QED
      BY <1>2, <3>1, Least
  <2> HIDE DEF Fine
  <2>2. k \in 0 .. len /\ ~ Fine(len - k)
    BY <2>1
  <2>3. PICK n \in Nat : n = len - k /\ n < len
    BY <1>1, <2>2
  <2>4. PICK k1 \in Nat :
            k1 = (IF n < MinSize THEN MinSize ELSE 2 * n) /\ k1 > n /\ k1 >= MinSize
    BY NextSize
  <2>5. g[n] = g[k1]
    BY <1>0, <2>3, <2>4 DEF Grown
  <2>6. Fine(k1)
    <3>1. CASE k1 >= len
      BY <1>1, <3>1
    <3>2. CASE k1 < len
      <4>1. PICK j \in 0 .. len : j = len - k1 /\ j < k
        BY <2>2, <2>3, <2>4, <3>2
      <4>2. j \notin T /\ len - j = k1
        BY <2>1, <2>2, <4>1
      <4> QED
        BY <4>1, <4>2
    <3> QED
      BY <3>1, <3>2
  <2>7. Fine(n)
    BY <2>3, <2>4, <2>5, <2>6, <1>0, ConstantsTyped DEF Fine
  <2> QED
    BY <2>2, <2>3, <2>7
<1>3. CASE max >= len
  BY <1>1, <1>3
<1>4. CASE max < len
  <2> HIDE DEF Fine
  <2>1. len - max \in 0 .. len /\ len - (len - max) = max
    BY <1>4
  <2>2. Fine(max)
    BY <1>2, <2>1
  <2> QED
    BY <2>2 DEF Fine
<1> QED
  BY <1>3, <1>4

(* The size CheckLen() asks for is never too small, and no size shrinks.   *)
LEMMA CapacityLarge ==
    ASSUME NEW len \in Nat, NEW max \in Nat
    PROVE  LET size == Capacity(max, len)
           IN  /\ size \in Nat /\ size >= len /\ size >= max
               /\ max >= MinSize \/ max < len => size >= MinSize
               /\ max >= len => size = max
<1> DEFINE grow == CHOOSE g : g = [m \in Nat |-> Grown(g, m, len)]
<1>1. Capacity(max, len) = grow[max]
  BY DEF Capacity, Grown
<1>2. \E g : g = [m \in Nat |-> Grown(g, m, len)]
  <2>1. PICK g \in [{m \in Nat : m >= 0} -> Nat] :
            \A m \in Nat : m >= 0 => g[m] = Grown(g, m, len)
    BY GrownExists DEF GrownFrom
  <2>2. {m \in Nat : m >= 0} = Nat
    OBVIOUS
  <2>3. g = [m \in Nat |-> Grown(g, m, len)]
    BY <2>1, <2>2
  <2> QED
    BY <2>3
<1>3. grow = [m \in Nat |-> Grown(grow, m, len)]
  BY <1>2
<1> HIDE DEF grow
<1> QED
  BY <1>1, <1>3, GrownLarge
-----------------------------------------------------------------------------
(* A packet whose marks agree with its buffer. *)
Bytes == {"stale", "body", "len", "version", "opcode", "errcode"} \X Int \X Int
Buffers == UNION {[0 .. n - 1 -> Bytes] : n \in Nat}
PacketShape ==
    [message_len: Nat, version: {PACKET_VERSION, Mixed}, operatecode: Nat,
     errorcode: Nat, data: Buffers, dataMaxLen: Nat, dataNowLen: Nat]
WellFormed(p) ==
    /\ p \in PacketShape
    /\ p.data \in [0 .. p.dataMaxLen - 1 -> Bytes]
    /\ p.dataNowLen <= p.dataMaxLen

(* Behind the head, nothing was written beyond the used part of the buffer. *)
Fresh(p) ==
    \A i \in 14 .. p.dataMaxLen - 1 : i >= p.dataNowLen => p.data[i] = Stale

(* q is p but for the buffer, whose size does not shrink. *)
SameFields(p, q) ==
    /\ q.message_len = p.message_len /\ q.version = p.version
    /\ q.operatecode = p.operatecode /\ q.errorcode = p.errorcode
    /\ q.dataNowLen = p.dataNowLen
    /\ q.dataMaxLen >= p.dataMaxLen

(* p with another buffer. *)
Rebuffer(p, n, d) == [p EXCEPT !.dataMaxLen = n, !.data = d]

LEMMA Rebuffered ==
    ASSUME NEW p, WellFormed(p), NEW n \in Nat, NEW d \in [0 .. n - 1 -> Bytes],
           n >= p.dataMaxLen
    PROVE  LET q == Rebuffer(p, n, d)
           IN  /\ WellFormed(q) /\ SameFields(p, q)
               /\ q.data = d /\ q.dataMaxLen = n
<1>1. d \in Buffers
  BY DEF Buffers
<1>2. p \in PacketShape
  BY DEF WellFormed
<1> DEFINE q == Rebuffer(p, n, d)
<1>3. q \in PacketShape /\ q.data = d /\ q.dataMaxLen = n /\ q.dataNowLen = p.dataNowLen
  BY <1>1, <1>2 DEF PacketShape, Rebuffer
<1>4. /\ q.message_len = p.message_len /\ q.version = p.version
      /\ q.operatecode = p.operatecode /\ q.errorcode = p.errorcode
  BY <1>2 DEF PacketShape, Rebuffer
<1>5. p.dataMaxLen \in Nat /\ p.dataNowLen \in Nat /\ p.dataNowLen <= p.dataMaxLen
  BY DEF WellFormed, PacketShape
<1> HIDE DEF q
<1>6. WellFormed(q)
  BY <1>3, <1>5 DEF WellFormed
<1>7. SameFields(p, q)
  BY <1>3, <1>4, <1>5 DEF SameFields
<1> QED
  BY <1>3, <1>6, <1>7 DEF q

(* q is p with room for len bytes, and for a head. *)
Enlarged(p, q, len) ==
    /\ WellFormed(q) /\ SameFields(p, q)
    /\ q.dataMaxLen >= len /\ q.dataMaxLen >= 14
    /\ p.dataMaxLen >= MinSize \/ p.dataMaxLen < 14 => q.dataMaxLen >= MinSize
    /\ \A i \in 0 .. p.dataNowLen - 1 : q.data[i] = p.data[i]
    /\ p.dataMaxLen >= len /\ p.dataMaxLen >= 14 => q = p
    /\ Fresh(p) => Fresh(q)

(* q is p with a field written at pos. *)
Written(p, q, name, value, pos) ==
    /\ WellFormed(q) /\ SameFields(p, q)
    /\ q.dataMaxLen = p.dataMaxLen
    /\ \A k \in 0 .. 3 : q.data[pos + k] = <<name, value, k>>
    /\ \A i \in 0 .. p.dataMaxLen - 1 :
          i < pos \/ i > pos + 3 => q.data[i] = p.data[i]

(* CheckLen() makes room and keeps the used bytes. *)
LEMMA CheckLenKeeps ==
    ASSUME NEW p, WellFormed(p), NEW len \in Nat
    PROVE  Enlarged(p, CheckLen(p, len), len)
<1> PICK need \in Nat : need = Larger(len, PACKET_HEAD_LEN)
  BY DEF Larger, PACKET_HEAD_LEN
<1>1. need >= len /\ need >= 14 /\ (need = len \/ need = 14)
  BY DEF Larger, PACKET_HEAD_LEN
<1>2. p.dataMaxLen \in Nat /\ p.dataNowLen \in Nat /\ p.dataNowLen <= p.dataMaxLen
  BY DEF WellFormed, PacketShape
<1> PICK size : size = Capacity(p.dataMaxLen, need)
  OBVIOUS
<1>3. /\ size \in Nat /\ size >= need /\ size >= p.dataMaxLen
      /\ p.dataMaxLen >= MinSize \/ p.dataMaxLen < need => size >= MinSize
      /\ p.dataMaxLen >= need => size = p.dataMaxLen
  BY <1>2, CapacityLarge
<1> DEFINE d == [i \in 0 .. size - 1 |-> IF i < p.dataNowLen THEN p.data[i] ELSE Stale]
<1>4. CASE size = p.dataMaxLen
  <2>1. CheckLen(p, len) = p
    BY <1>3, <1>4 DEF CheckLen
  <2>2. SameFields(p, p)
    BY <1>2 DEF SameFields
  <2> QED
    BY <1>1, <1>2, <1>3, <1>4, <2>1, <2>2 DEF Enlarged
<1>5. CASE size # p.dataMaxLen
  <2>1. CheckLen(p, len) = Rebuffer(p, size, d)
    BY <1>3, <1>5 DEF CheckLen, Rebuffer
  <2>2. d \in [0 .. size - 1 -> Bytes]
    <3>1. Stale \in Bytes
      BY DEF Stale, Bytes
    <3>2. \A i \in 0 .. size - 1 : i < p.dataNowLen => p.data[i] \in Bytes
      BY <1>2 DEF WellFormed
    <3> QED
      BY <3>1, <3>2
  <2>3. \A i \in 0 .. p.dataNowLen - 1 : d[i] = p.data[i]
    BY <1>2, <1>3
  <2>a. \A i \in 14 .. size - 1 : i >= p.dataNowLen => d[i] = Stale
    BY <1>2, <1>3
  <2> HIDE DEF d
  <2>4. PICK q : q = CheckLen(p, len)
    OBVIOUS
  <2>5. /\ WellFormed(q) /\ SameFields(p, q)
        /\ q.data = d /\ q.dataMaxLen = size
    BY <1>3, <2>1, <2>2, <2>4, Rebuffered
  <2>6. ~ (p.dataMaxLen >= len /\ p.dataMaxLen >= 14)
    BY <1>1, <1>2, <1>3, <1>5
  <2>7. p.dataMaxLen >= MinSize \/ p.dataMaxLen < 14 => size >= MinSize
    BY <1>1, <1>2, <1>3, ConstantsTyped
  <2>8. size >= len /\ size >= 14
    BY <1>1, <1>3
  <2>9. Fresh(q)
    BY <2>a, <2>5 DEF Fresh, SameFields
  <2> QED
    BY <1>2, <2>3, <2>4, <2>5, <2>6, <2>7, <2>8, <2>9 DEF Enlarged
<1> QED
  BY <1>4, <1>5

(* A write where there is room changes the bytes written. *)
LEMMA WriteHere ==
    ASSUME NEW p, WellFormed(p), p.dataMaxLen >= 14,
           NEW name \in {"len", "version", "opcode", "errcode"}, NEW value \in Int, NEW pos \in 0 .. 10
    PROVE  Written(p, Write(p, name, value, pos), name, value, pos)
<1>1. p.dataMaxLen \in Nat /\ p.data \in [0 .. p.dataMaxLen - 1 -> Bytes]
  BY DEF WellFormed, PacketShape
<1>2. CheckLen(p, 4 + pos) = p
  <2>1. 4 + pos \in Nat /\ p.dataMaxLen >= 4 + pos
    BY <1>1
  <2> QED
    BY <2>1, CheckLenKeeps DEF Enlarged
<1> DEFINE d == [i \in 0 .. p.dataMaxLen - 1 |->
                    IF i \in pos .. pos + 4 - 1 THEN Field(name, value)[i - pos]
                    ELSE p.data[i]]
<1>3. Write(p, name, value, pos) = [p EXCEPT !.data = d]
  BY <1>2 DEF Write, WriteData
<1>4. \A k \in 0 .. 3 : Field(name, value)[k] = <<name, value, k>>
  BY DEF Field
<1>5. d \in [0 .. p.dataMaxLen - 1 -> Bytes]
  <2>1. \A k \in 0 .. 3 : <<name, value, k>> \in Bytes
    BY DEF Bytes
  <2>2. ASSUME NEW i \in 0 .. p.dataMaxLen - 1 PROVE d[i] \in Bytes
    <3>1. CASE i \in pos .. pos + 3
      <4>1. i - pos \in 0 .. 3
        BY <3>1
      <4> QED
        BY <1>4, <2>1, <3>1, <4>1
    <3>2. CASE i \notin pos .. pos + 3
      BY <1>1, <3>2
    <3> QED
      BY <3>1, <3>2
  <2> QED
    BY <2>2
<1>6. /\ \A k \in 0 .. 3 : d[pos + k] = <<name, value, k>>
      /\ \A i \in 0 .. p.dataMaxLen - 1 : i < pos \/ i > pos + 3 => d[i] = p.data[i]
  <2>1. ASSUME NEW k \in 0 .. 3 PROVE d[pos + k] = <<name, value, k>>
    <3>1. PICK i \in 0 .. p.dataMaxLen - 1 :
              i = pos + k /\ i - pos = k /\ i \in pos .. pos + 4 - 1
      BY <1>1
    <3>2. d[i] = Field(name, value)[i - pos]
      BY <3>1
    <3> QED
      BY <1>4, <3>1, <3>2
  <2>2. ASSUME NEW i \in 0 .. p.dataMaxLen - 1, i < pos \/ i > pos + 3
        PROVE  d[i] = p.data[i]
    BY <2>2
  <2> QED
    BY <2>1, <2>2
<1> HIDE DEF d
<1>7. [p EXCEPT !.data = d] = Rebuffer(p, p.dataMaxLen, d)
  BY DEF WellFormed, PacketShape, Rebuffer
<1>8. PICK q : q = Write(p, name, value, pos)
  OBVIOUS
<1>9. WellFormed(q) /\ SameFields(p, q) /\ q.data = d /\ q.dataMaxLen = p.dataMaxLen
  BY <1>1, <1>3, <1>5, <1>7, <1>8, Rebuffered
<1> QED
  BY <1>6, <1>8, <1>9 DEF Written

(* What the receiver of the bytes finds in their head. *)
HasHead(p) ==
    \A k \in 0 .. 3 : /\ p.data[k]      = <<"len", p.message_len, k>>
                      /\ p.data[6 + k]  = <<"opcode", p.operatecode, k>>
                      /\ p.data[10 + k] = <<"errcode", p.errorcode, k>>

(* q is p with room for the message and the head written. *)
Headed(p, q) ==
    /\ WellFormed(q) /\ SameFields(p, q)
    /\ HasHead(q) /\ q.data[4] = <<"version", p.version, 0>>
    /\ q.dataMaxLen >= p.message_len
    /\ p.dataMaxLen >= MinSize \/ p.dataMaxLen < 14 => q.dataMaxLen >= MinSize
    /\ \A i \in 14 .. p.dataNowLen - 1 : q.data[i] = p.data[i]
    /\ Fresh(p) => Fresh(q)

(* WriteHead() makes room for the message and writes the head in front of  *)
(* what the packet holds.                                                  *)
LEMMA HeadWritten ==
    ASSUME NEW p, WellFormed(p)
    PROVE  Headed(p, WriteHead(p))
<1>1. /\ p.message_len \in Nat /\ p.version \in Int
      /\ p.operatecode \in Nat /\ p.errorcode \in Nat
      /\ p.dataNowLen \in Nat /\ p.dataMaxLen \in Nat
  BY DEF WellFormed, PacketShape, PACKET_VERSION, Mixed
<1>a. PICK p0 : p0 = CheckLen(p, p.message_len)
  OBVIOUS
<1>b. PICK p1 : p1 = Write(p0, "len", p.message_len, OFFSET_MESSLEN)
  OBVIOUS
<1>c. PICK p2 : p2 = Write(p1, "version", p.version, OFFSET_VERSION)
  OBVIOUS
<1>d. PICK p3 : p3 = Write(p2, "opcode", p.operatecode, OFFSET_OPERCODE)
  OBVIOUS
<1>e. PICK q : q = Write(p3, "errcode", p.errorcode, OFFSET_ERRCODE)
  OBVIOUS
<1>2. WriteHead(p) = q
  BY <1>a, <1>b, <1>c, <1>d, <1>e DEF WriteHead
<1>3. Enlarged(p, p0, p.message_len)
  BY <1>1, <1>a, CheckLenKeeps
<1>m. PICK max : max = p0.dataMaxLen
  OBVIOUS
<1>4. max \in Nat /\ max >= 14 /\ p.dataNowLen <= max
  BY <1>3, <1>m DEF WellFormed, PacketShape, SameFields, Enlarged
<1>5. Written(p0, p1, "len", p.message_len, 0) /\ p1.dataMaxLen = max
  <2>1. WellFormed(p0) /\ p0.dataMaxLen >= 14 /\ p.message_len \in Int
    BY <1>1, <1>3 DEF Enlarged
  <2>2. Written(p0, p1, "len", p.message_len, 0)
    <3>1. 0 \in 0 .. 10
      OBVIOUS
    <3> QED
      BY <1>b, <2>1, <3>1, WriteHere DEF OFFSET_MESSLEN
  <2> QED
    BY <1>m, <2>2 DEF Written
<1>6. Written(p1, p2, "version", p.version, 4) /\ p2.dataMaxLen = max
  <2>1. WellFormed(p1) /\ p1.dataMaxLen >= 14
    BY <1>4, <1>5 DEF Written
  <2>2. Written(p1, p2, "version", p.version, 4)
    <3>1. 4 \in 0 .. 10
      OBVIOUS
    <3> QED
      BY <1>1, <1>c, <2>1, <3>1, WriteHere DEF OFFSET_VERSION
  <2> QED
    BY <1>5, <2>2 DEF Written
<1>7. Written(p2, p3, "opcode", p.operatecode, 6) /\ p3.dataMaxLen = max
  <2>1. WellFormed(p2) /\ p2.dataMaxLen >= 14 /\ p.operatecode \in Int
    BY <1>1, <1>4, <1>6 DEF Written
  <2>2. Written(p2, p3, "opcode", p.operatecode, 6)
    <3>1. 6 \in 0 .. 10
      OBVIOUS
    <3> QED
      BY <1>d, <2>1, <3>1, WriteHere DEF OFFSET_OPERCODE
  <2> QED
    BY <1>6, <2>2 DEF Written
<1>8. Written(p3, q, "errcode", p.errorcode, 10) /\ q.dataMaxLen = max
  <2>1. WellFormed(p3) /\ p3.dataMaxLen >= 14 /\ p.errorcode \in Int
    BY <1>1, <1>4, <1>7 DEF Written
  <2>2. Written(p3, q, "errcode", p.errorcode, 10)
    <3>1. 10 \in 0 .. 10
      OBVIOUS
    <3> QED
      BY <1>e, <2>1, <3>1, WriteHere DEF OFFSET_ERRCODE
  <2> QED
    BY <1>7, <2>2 DEF Written
<1>9. /\ q.message_len = p.message_len /\ q.version = p.version
      /\ q.operatecode = p.operatecode /\ q.errorcode = p.errorcode
      /\ SameFields(p, q)
  <2>1. SameFields(p, p1)
    BY <1>3, <1>4, <1>5, <1>m DEF SameFields, Written, Enlarged
  <2>2. SameFields(p, p2)
    BY <1>4, <1>5, <1>6, <2>1 DEF SameFields, Written, Enlarged
  <2>3. SameFields(p, p3)
    BY <1>4, <1>6, <1>7, <2>2 DEF SameFields, Written, Enlarged
  <2>4. SameFields(p, q)
    BY <1>4, <1>7, <1>8, <2>3 DEF SameFields, Written, Enlarged
  <2> QED
    BY <2>4 DEF SameFields
<1>10. HasHead(q) /\ q.data[4] = <<"version", p.version, 0>>
  <2>1. ASSUME NEW k \in 0 .. 3 PROVE q.data[k] = <<"len", p.message_len, k>>
    <3>1. k \in 0 .. max - 1 /\ k < 4
      BY <1>4
    <3>2. q.data[k] = p1.data[k]
      BY <1>4, <1>6, <1>7, <1>8, <3>1 DEF Written
    <3> QED
      BY <1>4, <1>5, <3>2 DEF Written
  <2>2. ASSUME NEW k \in 0 .. 3 PROVE q.data[6 + k] = <<"opcode", p.operatecode, k>>
    <3>1. 6 + k \in 0 .. max - 1 /\ 6 + k < 10
      BY <1>4
    <3> QED
      BY <1>4, <1>7, <1>8, <3>1 DEF Written
  <2>3. q.data[4] = <<"version", p.version, 0>>
    <3>1. 4 \in 0 .. max - 1 /\ 4 < 6
      BY <1>4
    <3>2. q.data[4] = p2.data[4]
      BY <1>4, <1>7, <1>8, <3>1 DEF Written
    <3>3. p2.data[4 + 0] = <<"version", p.version, 0>>
      BY <1>6 DEF Written
    <3> QED
      BY <3>2, <3>3
  <2> QED
    BY <1>8, <1>9, <2>1, <2>2, <2>3 DEF HasHead, Written
<1>11. ASSUME NEW i \in 14 .. p.dataNowLen - 1 PROVE q.data[i] = p.data[i]
  <2>1. /\ i \in 0 .. max - 1 /\ i \in 0 .. p.dataNowLen - 1
        /\ i > 13
    BY <1>1, <1>4
  <2> QED
    BY <1>3, <1>4, <1>5, <1>6, <1>7, <1>8, <1>m, <2>1 DEF Written, Enlarged
<1>12. ASSUME Fresh(p) PROVE Fresh(q)
  <2>1. Fresh(p0) /\ p0.dataNowLen = q.dataNowLen
    BY <1>3, <1>9, <1>12 DEF Enlarged, SameFields
  <2>2. ASSUME NEW i \in 14 .. max - 1 PROVE q.data[i] = p0.data[i]
    <3>1. i \in 0 .. max - 1 /\ i > 13
      OBVIOUS
    <3> QED
      BY <1>4, <1>5, <1>6, <1>7, <1>8, <1>m, <3>1 DEF Written
  <2> QED
    BY <1>8, <1>m, <2>1, <2>2 DEF Fresh
<1> QED
  BY <1>2, <1>3, <1>8, <1>9, <1>10, <1>11, <1>12, <1>m DEF Headed, Enlarged, Written

(* The two constructors. *)
LEMMA InitPacketFine ==
    LET q == InitPacket
    IN  /\ WellFormed(q) /\ HasHead(q)
        /\ q.dataMaxLen >= MinSize /\ q.dataNowLen = 0
        /\ q.version = PACKET_VERSION /\ q.message_len = 14
        /\ Fresh(q)
<1> DEFINE p == [message_len |-> PACKET_HEAD_LEN, version |-> PACKET_VERSION,
                 operatecode |-> 0, errorcode |-> 0, data |-> <<>>,
                 dataMaxLen |-> 0, dataNowLen |-> 0]
<1>1. <<>> \in [0 .. 0 - 1 -> Bytes]
  OBVIOUS
<1>2. <<>> \in Buffers
  BY <1>1 DEF Buffers
<1>3. WellFormed(p)
  BY <1>1, <1>2 DEF WellFormed, PacketShape, PACKET_HEAD_LEN
<1>4. /\ p.dataMaxLen = 0 /\ p.dataNowLen = 0 /\ p.message_len = 14
      /\ p.version = PACKET_VERSION
  BY DEF PACKET_HEAD_LEN
<1>5. InitPacket = WriteHead(p)
  BY DEF InitPacket
<1> HIDE DEF p
<1>6. Fresh(p)
  BY <1>4 DEF Fresh
<1> QED
  BY <1>3, <1>4, <1>5, <1>6, HeadWritten DEF SameFields, Headed

LEMMA OfCodesFine ==
    ASSUME NEW op \in Nat, NEW err \in Nat
    PROVE  LET q == OfCodes(op, err)
           IN  /\ WellFormed(q) /\ HasHead(q)
               /\ q.dataMaxLen >= MinSize /\ q.dataMaxLen >= q.message_len
               /\ q.dataNowLen = 0 /\ q.message_len = 14 /\ Fresh(q)
               /\ q.version = PACKET_VERSION
<1> PICK i : i = InitPacket
  OBVIOUS
<1>1. /\ WellFormed(i) /\ i.dataMaxLen >= MinSize /\ i.dataNowLen = 0
      /\ i.version = PACKET_VERSION /\ i.message_len = 14 /\ Fresh(i)
  BY InitPacketFine
<1> PICK p : p = [i EXCEPT !.operatecode = op, !.errorcode = err]
  OBVIOUS
<1>2. i \in PacketShape
  BY <1>1 DEF WellFormed
<1>3. p \in PacketShape
  BY <1>2 DEF PacketShape
<1>4. /\ p.message_len = i.message_len /\ p.version = i.version
      /\ p.data = i.data /\ p.dataMaxLen = i.dataMaxLen /\ p.dataNowLen = i.dataNowLen
  BY <1>2 DEF PacketShape
<1>5. WellFormed(p)
  BY <1>1, <1>3, <1>4 DEF WellFormed
<1> PICK q : q = WriteHead(p)
  OBVIOUS
<1>6. OfCodes(op, err) = q
  BY DEF OfCodes
<1>7. Headed(p, q)
  BY <1>5, HeadWritten
<1>8. Fresh(p)
  BY <1>1, <1>4 DEF Fresh
<1> QED
  BY <1>1, <1>4, <1>6, <1>7, <1>8 DEF SameFields, Headed

(* f is the bytes of a frame of len bytes. *)
FrameHead(f, len) ==
    \E o, e \in Nat : \A k \in 0 .. 3 :
        /\ f[k] = <<"len", len, k>>
        /\ f[6 + k] = <<"opcode", o, k>>
        /\ f[10 + k] = <<"errcode", e, k>>

FrameBytes(f, len) ==
    /\ f \in [0 .. len - 1 -> Bytes]
    /\ FrameHead(f, len)
    /\ f[4] = <<"version", PACKET_VERSION, 0>>
    /\ \A i \in 14 .. len - 1 : f[i] = BodyByte(i)

(* A packet of n bytes received or appended; r: it was made of a frame. *)
PacketFine(p, n, r) ==
    /\ WellFormed(p) /\ HasHead(p) /\ Fresh(p)
    /\ p.message_len = IF r THEN n ELSE n + 14
    /\ p.dataMaxLen >= MinSize /\ p.dataMaxLen >= p.message_len
    /\ p.dataNowLen = n
    /\ \A i \in 14 .. n - 1 : p.data[i] = BodyByte(i)

LEMMA FrameOfIsFrame ==
    ASSUME NEW op \in Nat, NEW err \in Nat, NEW len \in Nat, len >= 14
    PROVE  FrameBytes(FrameOf(op, err, len), len)
<1>a. PICK c : c = OfCodes(op, err)
  OBVIOUS
<1>b. PICK p : p = [c EXCEPT !.message_len = len]
  OBVIOUS
<1>c. PICK h : h = WriteHead(p)
  OBVIOUS
<1>1. WellFormed(c) /\ c.version = PACKET_VERSION
  BY <1>a, OfCodesFine
<1>2. /\ p \in PacketShape /\ p.message_len = len /\ p.version = PACKET_VERSION
      /\ p.data = c.data /\ p.dataMaxLen = c.dataMaxLen /\ p.dataNowLen = c.dataNowLen
  BY <1>1, <1>b DEF WellFormed, PacketShape
<1>3. WellFormed(p)
  BY <1>1, <1>2 DEF WellFormed
<1>4. Headed(p, h)
  BY <1>3, <1>c, HeadWritten
<1>5. PICK o \in Nat, e \in Nat : o = h.operatecode /\ e = h.errorcode
  BY <1>4 DEF Headed, WellFormed, PacketShape
<1>6. /\ \A k \in 0 .. 3 : /\ h.data[k] = <<"len", len, k>>
                           /\ h.data[6 + k] = <<"opcode", o, k>>
                           /\ h.data[10 + k] = <<"errcode", e, k>>
      /\ h.data[4] = <<"version", PACKET_VERSION, 0>>
  BY <1>2, <1>4, <1>5 DEF Headed, HasHead, SameFields
<1>7. \A i \in 0 .. 13 : h.data[i] \in Bytes
  <2>1. h.dataMaxLen \in Nat /\ h.dataMaxLen >= 14 /\ h.data \in [0 .. h.dataMaxLen - 1 -> Bytes]
    BY <1>2, <1>4 DEF Headed, WellFormed, PacketShape
  <2> QED
    BY <2>1
<1> DEFINE f == [i \in 0 .. len - 1 |-> IF i < 14 THEN h.data[i] ELSE BodyByte(i)]
<1>8. FrameOf(op, err, len) = f
  BY <1>a, <1>b, <1>c DEF FrameOf, PACKET_HEAD_LEN
<1>9. f \in [0 .. len - 1 -> Bytes]
  <2>1. \A i \in 0 .. len - 1 : BodyByte(i) \in Bytes
    BY DEF BodyByte, Bytes
  <2> QED
    BY <1>7, <2>1
<1>10. \A i \in 0 .. 13 : f[i] = h.data[i]
  OBVIOUS
<1>11. \A i \in 14 .. len - 1 : f[i] = BodyByte(i)
  OBVIOUS
<1> HIDE DEF f
<1>12. \A k \in 0 .. 3 : /\ f[k] = <<"len", len, k>>
                         /\ f[6 + k] = <<"opcode", o, k>>
                         /\ f[10 + k] = <<"errcode", e, k>>
  <2>1. ASSUME NEW k \in 0 .. 3
        PROVE  f[k] = h.data[k] /\ f[6 + k] = h.data[6 + k] /\ f[10 + k] = h.data[10 + k]
    <3>1. k \in 0 .. 13 /\ 6 + k \in 0 .. 13 /\ 10 + k \in 0 .. 13
      OBVIOUS
    <3> QED
      BY <1>10, <3>1
  <2> QED
    BY <1>6, <2>1
<1>13. f[4] = <<"version", PACKET_VERSION, 0>>
  BY <1>6, <1>10
<1>14. FrameHead(f, len)
  BY <1>12 DEF FrameHead
<1> QED
  BY <1>8, <1>9, <1>11, <1>13, <1>14 DEF FrameBytes

(* Read() gives the value of a field whose four bytes are there. *)
FieldAt(f, name, value, pos) == \A k \in 0 .. 3 : f[pos + k] = <<name, value, k>>

LEMMA ReadField ==
    ASSUME NEW f, NEW name, NEW value, NEW pos \in 0 .. 10, FieldAt(f, name, value, pos)
    PROVE  Read(f, name, pos) = value
<1>1. f[pos][2] = value
  <2>1. f[pos + 0] = <<name, value, 0>> /\ pos + 0 = pos
    BY DEF FieldAt
  <2>2. f[pos] = <<name, value, 0>>
    BY <2>1
  <2> QED
    BY <2>2
<1> QED
  BY <1>1 DEF Read, FieldAt

LEMMA OfBytesFine ==
    ASSUME NEW len \in Nat, len >= 14, NEW f, FrameBytes(f, len)
    PROVE  PacketFine(OfBytes(f, len), len, TRUE)
<1>a. PICK i0 : i0 = InitPacket
  OBVIOUS
<1>b. PICK p : p = CheckLen(i0, len)
  OBVIOUS
<1>1. WellFormed(i0) /\ i0.dataMaxLen >= MinSize /\ Fresh(i0) /\ i0.dataNowLen = 0
  BY <1>a, InitPacketFine
<1>2. Enlarged(i0, p, len)
  BY <1>1, <1>b, CheckLenKeeps
<1>3. /\ p \in PacketShape /\ p.dataMaxLen \in Nat /\ p.dataMaxLen >= len
      /\ p.dataMaxLen >= MinSize /\ p.data \in [0 .. p.dataMaxLen - 1 -> Bytes]
  BY <1>1, <1>2 DEF Enlarged, WellFormed, PacketShape
<1> DEFINE d == [i \in 0 .. p.dataMaxLen - 1 |-> IF i < len THEN f[i] ELSE p.data[i]]
<1>4. d \in [0 .. p.dataMaxLen - 1 -> Bytes]
  <2>1. \A i \in 0 .. len - 1 : f[i] \in Bytes
    BY DEF FrameBytes
  <2>2. ASSUME NEW i \in 0 .. p.dataMaxLen - 1 PROVE d[i] \in Bytes
    <3>1. CASE i < len
      BY <2>1, <3>1
    <3>2. CASE ~ (i < len)
      BY <1>3, <3>2
    <3> QED
      BY <3>1, <3>2
  <2> QED
    BY <2>2
<1>5. \A i \in 0 .. len - 1 : d[i] = f[i]
  BY <1>3
<1>17. \A i \in 14 .. p.dataMaxLen - 1 : i >= len => d[i] = Stale
  <2>1. Fresh(p) /\ p.dataNowLen = 0
    BY <1>1, <1>2 DEF Enlarged, SameFields
  <2>2. \A i \in 14 .. p.dataMaxLen - 1 : p.data[i] = Stale
    BY <2>1 DEF Fresh
  <2> QED
    BY <2>2
<1>6. PICK o \in Nat, e \in Nat : \A k \in 0 .. 3 :
          /\ f[k] = <<"len", len, k>>
          /\ f[6 + k] = <<"opcode", o, k>>
          /\ f[10 + k] = <<"errcode", e, k>>
  BY DEF FrameBytes, FrameHead
<1>7. Read(f, "len", OFFSET_MESSLEN) = len
  <2>1. FieldAt(f, "len", len, 0)
    BY <1>6 DEF FieldAt
  <2> QED
    BY <2>1, ReadField DEF OFFSET_MESSLEN
<1>8. Read(f, "opcode", OFFSET_OPERCODE) = o
  <2>1. FieldAt(f, "opcode", o, 6)
    BY <1>6 DEF FieldAt
  <2> QED
    BY <2>1, ReadField DEF OFFSET_OPERCODE
<1>9. Read(f, "errcode", OFFSET_ERRCODE) = e
  <2>1. FieldAt(f, "errcode", e, 10)
    BY <1>6 DEF FieldAt
  <2> QED
    BY <2>1, ReadField DEF OFFSET_ERRCODE
<1>10. PICK v \in {PACKET_VERSION, Mixed} : v = Read(f, "version", OFFSET_VERSION)
  <2>1. f[4][2] = PACKET_VERSION
    BY DEF FrameBytes
  <2> QED
    BY <2>1 DEF Read, OFFSET_VERSION
<1>c. PICK r : r = OfBytes(f, len)
  OBVIOUS
<1> HIDE DEF d
<1>11. r = [p EXCEPT !.data = d, !.dataNowLen = len, !.message_len = len,
                     !.version = v, !.operatecode = o, !.errorcode = e]
  BY <1>a, <1>b, <1>c, <1>7, <1>8, <1>9, <1>10 DEF OfBytes, d
<1>12. d \in Buffers
  BY <1>3, <1>4 DEF Buffers
<1>13. /\ r \in PacketShape
       /\ r.data = d /\ r.dataNowLen = len /\ r.message_len = len
       /\ r.operatecode = o /\ r.errorcode = e /\ r.dataMaxLen = p.dataMaxLen
  BY <1>3, <1>11, <1>12 DEF PacketShape
<1>14. WellFormed(r)
  BY <1>3, <1>4, <1>13 DEF WellFormed
<1>15. HasHead(r)
  <2>1. ASSUME NEW k \in 0 .. 3
        PROVE  d[k] = f[k] /\ d[6 + k] = f[6 + k] /\ d[10 + k] = f[10 + k]
    <3>1. k \in 0 .. len - 1 /\ 6 + k \in 0 .. len - 1 /\ 10 + k \in 0 .. len - 1
      OBVIOUS
    <3> QED
      BY <1>5, <3>1
  <2> QED
    BY <1>6, <1>13, <2>1 DEF HasHead
<1>16. \A i \in 14 .. len - 1 : d[i] = BodyByte(i)
  BY <1>5 DEF FrameBytes
<1>18. Fresh(r)
  BY <1>13, <1>17 DEF Fresh
<1> QED
  BY <1>3, <1>13, <1>14, <1>15, <1>16, <1>18, <1>c DEF PacketFine

(* A new packet of codes; the head is written, nothing is counted as used. *)
LEMMA NewFine ==
    ASSUME NEW op \in Nat, NEW err \in Nat
    PROVE  PacketFine(OfCodes(op, err), 0, FALSE)
BY OfCodesFine DEF PacketFine

LEMMA PackFine ==
    ASSUME NEW n \in Nat, NEW r \in BOOLEAN, NEW p, PacketFine(p, n, r)
    PROVE  PacketFine(WriteHead(p), n, r)
<1>a. PICK q : q = WriteHead(p)
  OBVIOUS
<1>1. Headed(p, q)
  BY <1>a, HeadWritten DEF PacketFine
<1>2. /\ p.dataNowLen = n /\ \A i \in 14 .. n - 1 : p.data[i] = BodyByte(i)
      /\ Fresh(p)
  BY DEF PacketFine
<1>3. \A i \in 14 .. n - 1 : q.data[i] = BodyByte(i)
  BY <1>1, <1>2 DEF Headed
<1> QED
  BY <1>1, <1>2, <1>3, <1>a DEF PacketFine, Headed, SameFields

(* Append() puts bytes behind the others and writes the head anew.         *)
LEMMA AppendFine ==
    ASSUME NEW n \in Nat, NEW len \in Nat \ {0}, NEW r \in BOOLEAN,
           NEW p, PacketFine(p, n, r),
           NEW w, w = WriteData(p, Body(n, len), len, p.dataNowLen),
           NEW q, q = WriteHead([w EXCEPT !.dataNowLen = @ + len, !.message_len = @ + len])
    PROVE  PacketFine(q, n + len, r)
<1>1. WellFormed(p) /\ p.dataNowLen = n /\ p.dataMaxLen >= MinSize /\ Fresh(p)
  BY DEF PacketFine
<1>a. PICK c : c = CheckLen(p, len + n)
  OBVIOUS
<1>2. Enlarged(p, c, len + n)
  BY <1>1, <1>a, CheckLenKeeps
<1>3. /\ c \in PacketShape /\ c.data \in [0 .. c.dataMaxLen - 1 -> Bytes]
      /\ c.dataMaxLen \in Nat /\ c.dataMaxLen >= len + n /\ c.dataMaxLen >= MinSize
      /\ c.dataNowLen = n /\ c.message_len \in Nat /\ c.message_len = p.message_len
  BY <1>1, <1>2 DEF Enlarged, WellFormed, PacketShape, SameFields
<1> DEFINE d == [i \in 0 .. c.dataMaxLen - 1 |->
                    IF i \in n .. n + len - 1 THEN Body(n, len)[i - n] ELSE c.data[i]]
<1>4. w = [c EXCEPT !.data = d]
  BY <1>1, <1>a DEF WriteData
<1>5. \A i \in 0 .. n - 1 : d[i] = c.data[i]
  BY <1>3
<1>6. \A i \in n .. n + len - 1 : d[i] = BodyByte(i)
  <2>1. ASSUME NEW i \in n .. n + len - 1 PROVE d[i] = BodyByte(i)
    <3>1. i \in 0 .. c.dataMaxLen - 1 /\ i - n \in 0 .. len - 1 /\ n + (i - n) = i
      BY <1>3
    <3>2. d[i] = Body(n, len)[i - n]
      BY <3>1
    <3>3. Body(n, len)[i - n] = BodyByte(n + (i - n))
      BY <3>1 DEF Body
    <3> QED
      BY <3>1, <3>2, <3>3
  <2> QED
    BY <2>1
<1>7. d \in [0 .. c.dataMaxLen - 1 -> Bytes]
  <2>1. ASSUME NEW i \in 0 .. c.dataMaxLen - 1 PROVE d[i] \in Bytes
    <3>1. CASE i \in n .. n + len - 1
      <4>1. BodyByte(i) \in Bytes
        BY DEF BodyByte, Bytes
      <4> QED
        BY <1>6, <3>1, <4>1
    <3>2. CASE i \notin n .. n + len - 1
      BY <1>3, <3>2
    <3> QED
      BY <3>1, <3>2
  <2> QED
    BY <2>1
<1>15. \A i \in 14 .. c.dataMaxLen - 1 : i >= n + len => d[i] = Stale
  <2>1. Fresh(c)
    BY <1>1, <1>2 DEF Enlarged
  <2>2. ASSUME NEW i \in 14 .. c.dataMaxLen - 1, i >= n + len PROVE d[i] = Stale
    <3>1. i \in 0 .. c.dataMaxLen - 1 /\ i \notin n .. n + len - 1 /\ i >= n
      BY <1>3, <2>2
    <3>2. c.data[i] = Stale
      BY <1>3, <2>1, <3>1 DEF Fresh
    <3> QED
      BY <3>1, <3>2
  <2> QED
    BY <2>2
<1> HIDE DEF d
<1>8. d \in Buffers
  BY <1>3, <1>7 DEF Buffers
<1>b. PICK x : x = [w EXCEPT !.dataNowLen = @ + len, !.message_len = @ + len]
  OBVIOUS
<1>9. /\ w \in PacketShape /\ w.data = d /\ w.dataMaxLen = c.dataMaxLen
      /\ w.dataNowLen = n /\ w.message_len = c.message_len
  BY <1>3, <1>4, <1>8 DEF PacketShape
<1>10. /\ x \in PacketShape /\ x.data = d /\ x.dataMaxLen = c.dataMaxLen
       /\ x.dataNowLen = n + len /\ x.message_len = c.message_len + len
  <2>1. PICK a \in Nat, b \in Nat : a = n + len /\ b = c.message_len + len
    BY <1>3
  <2>2. x = [w EXCEPT !.dataNowLen = a, !.message_len = b]
    BY <1>9, <1>b, <2>1
  <2>3. /\ x \in PacketShape /\ x.data = w.data /\ x.dataMaxLen = w.dataMaxLen
        /\ x.dataNowLen = a /\ x.message_len = b
    BY <1>9, <2>2 DEF PacketShape
  <2> QED
    BY <1>9, <2>1, <2>3
<1>11. WellFormed(x)
  BY <1>3, <1>7, <1>10 DEF WellFormed
<1>12. Headed(x, q)
  BY <1>11, <1>b, HeadWritten
<1>13. \A i \in 14 .. n + len - 1 : d[i] = BodyByte(i)
  <2>1. ASSUME NEW i \in 14 .. n - 1 PROVE d[i] = BodyByte(i)
    <3>1. i \in 0 .. n - 1 /\ i \in 0 .. p.dataNowLen - 1
      BY <1>1
    <3>2. c.data[i] = p.data[i]
      BY <1>2, <3>1 DEF Enlarged
    <3>3. p.data[i] = BodyByte(i)
      BY DEF PacketFine
    <3> QED
      BY <1>5, <3>1, <3>2, <3>3
  <2> QED
    BY <1>6, <2>1
<1>14. \A i \in 14 .. n + len - 1 : q.data[i] = BodyByte(i)
  BY <1>10, <1>12, <1>13 DEF Headed
<1>16. Fresh(x)
  BY <1>10, <1>15 DEF Fresh
<1>17. x.message_len = IF r THEN n + len ELSE n + len + 14
  <2>1. c.message_len = IF r THEN n ELSE n + 14
    BY <1>3 DEF PacketFine
  <2> QED
    BY <1>3, <1>10, <2>1
<1> QED
  BY <1>3, <1>10, <1>12, <1>14, <1>16, <1>17 DEF PacketFine, Headed, SameFields

-----------------------------------------------------------------------------
(* The invariants of packets.  They hold together: that a larger buffer    *)
(* gets the used bytes is not enough for the head, which lies behind them  *)
(* in a new packet; it is written anew whenever the buffer has grown.      *)
PacketInv ==
    /\ content \in 0 .. MaxContent /\ received \in BOOLEAN
    /\ Exists => PacketFine(packet, content, received)

LEMMA PacketInductive == PacketSpec => []PacketInv
<1>1. ASSUME PacketInit PROVE PacketInv
  <2>1. content \in 0 .. MaxContent
    BY <1>1, ConstantsTyped DEF PacketInit
  <2>2. received \in BOOLEAN /\ ~ Exists
    BY <1>1 DEF PacketInit, Exists
  <2> QED
    BY <2>1, <2>2, Zenon DEF PacketInv
<1>2. ASSUME PacketInv, [PacketNext]_packetVars PROVE PacketInv'
  <2>1. ASSUME NEW op \in Opcodes, NEW err \in Errcodes, NewPacket(op, err)
        PROVE  PacketInv'
    <3>1. op \in Nat /\ err \in Nat
      BY ConstantsTyped
    <3>2. content' = 0 /\ received' = FALSE /\ packet' = OfCodes(op, err)
      BY <2>1 DEF NewPacket
    <3>3. PacketFine(packet', content', received') /\ received' \in BOOLEAN
      BY <3>1, <3>2, NewFine
    <3>4. content' \in 0 .. MaxContent
      BY <3>2, ConstantsTyped
    <3> QED
      BY <3>3, <3>4, Zenon DEF PacketInv
  <2>2. ASSUME NEW op \in Opcodes, NEW err \in Errcodes, NEW len \in FrameLens,
               NewPacketFromBytes(op, err, len)
        PROVE  PacketInv'
    <3>1. op \in Nat /\ err \in Nat /\ len \in 0 .. MaxContent /\ len >= 14
      BY <2>2, ConstantsTyped DEF NewPacketFromBytes, PACKET_HEAD_LEN
    <3>2. FrameBytes(FrameOf(op, err, len), len)
      BY <3>1, FrameOfIsFrame
    <3>3. PacketFine(OfBytes(FrameOf(op, err, len), len), len, TRUE)
      <4>1. len \in Nat /\ len >= 14
        BY <3>1, ConstantsTyped
      <4> QED
        BY <3>2, <4>1, OfBytesFine, Zenon
    <3>4. /\ content' = len /\ received' = TRUE
          /\ packet' = OfBytes(FrameOf(op, err, len), len)
      BY <2>2 DEF NewPacketFromBytes
    <3>5. PacketFine(packet', content', received') /\ received' \in BOOLEAN
      BY <3>3, <3>4, Zenon
    <3>6. content' \in 0 .. MaxContent
      BY <3>1, <3>4
    <3> QED
      BY <3>5, <3>6, Zenon DEF PacketInv
  <2>3. ASSUME NEW len \in BodyLens, AppendData(len) PROVE PacketInv'
    <3>1. /\ len \in Nat \ {0} /\ content \in Nat /\ received \in BOOLEAN
          /\ PacketFine(packet, content, received)
      BY <1>2, <2>3, ConstantsTyped DEF PacketInv, AppendData
    <3>2. PICK w : w = WriteData(packet, Body(content, len), len, packet.dataNowLen)
      OBVIOUS
    <3>3. packet' = WriteHead([w EXCEPT !.dataNowLen = @ + len, !.message_len = @ + len])
      BY <2>3, <3>2 DEF AppendData
    <3>4. content' = content + len /\ content + len <= MaxContent /\ received' = received
      BY <2>3 DEF AppendData
    <3>5. PacketFine(packet', content', received')
      BY <3>1, <3>2, <3>3, <3>4, AppendFine
    <3> QED
      BY <3>1, <3>4, <3>5, ConstantsTyped DEF PacketInv
  <2>4. CASE Pack
    <3>1. /\ PacketFine(packet, content, received) /\ content \in Nat
          /\ received \in BOOLEAN /\ content' = content /\ received' = received
      BY <1>2, <2>4, ConstantsTyped DEF PacketInv, Pack
    <3>2. PacketFine(packet', content', received')
      BY <2>4, <3>1, PackFine DEF Pack
    <3> QED
      BY <1>2, <3>1, <3>2 DEF PacketInv
  <2>5. CASE Delete
    <3>1. content' \in 0 .. MaxContent
      BY <2>5, ConstantsTyped DEF Delete
    <3>2. received' \in BOOLEAN /\ ~ Exists'
      BY <2>5 DEF Delete, Exists
    <3> QED
      BY <3>1, <3>2, Zenon DEF PacketInv
  <2>6. CASE UNCHANGED packetVars
    BY <1>2, <2>6, Zenon DEF packetVars, PacketInv, Exists
  <2> QED
    BY <1>2, <2>1, <2>2, <2>3, <2>4, <2>5, <2>6 DEF PacketNext
<1> QED
  BY <1>1, <1>2, PTL DEF PacketSpec

(* Whatever is received, appended and packed, the message lies in the      *)
(* buffer (packet.cpp:95-140): the callers send message_len bytes of it.   *)
THEOREM PacketTypeCorrect == PacketSpec => []PacketTypeOK
<1>1. PacketInv => PacketTypeOK
  BY ConstantsTyped DEF PacketInv, PacketFine, WellFormed, PacketShape, PacketTypeOK
<1> QED
  BY <1>1, PacketInductive, PTL

(* The receiver reads the length, the opcode and the error code of the     *)
(* packet in the head, however the buffer grew.                            *)
THEOREM HeadCorrect == PacketSpec => []HeadReadsBack
<1>1. ASSUME PacketInv PROVE HeadReadsBack
  <2>1. ASSUME Exists
        PROVE  /\ Read(packet.data, "len", OFFSET_MESSLEN) = packet.message_len
               /\ Read(packet.data, "opcode", OFFSET_OPERCODE) = packet.operatecode
               /\ Read(packet.data, "errcode", OFFSET_ERRCODE) = packet.errorcode
    <3>0. HasHead(packet)
      BY <1>1, <2>1 DEF PacketInv, PacketFine
    <3>1. Read(packet.data, "len", OFFSET_MESSLEN) = packet.message_len
      <4>1. FieldAt(packet.data, "len", packet.message_len, 0)
        BY <3>0 DEF HasHead, FieldAt
      <4> QED
        BY <4>1, ReadField DEF OFFSET_MESSLEN
    <3>2. Read(packet.data, "opcode", OFFSET_OPERCODE) = packet.operatecode
      <4>1. FieldAt(packet.data, "opcode", packet.operatecode, 6)
        BY <3>0 DEF HasHead, FieldAt
      <4> QED
        BY <4>1, ReadField DEF OFFSET_OPERCODE
    <3>3. Read(packet.data, "errcode", OFFSET_ERRCODE) = packet.errorcode
      <4>1. FieldAt(packet.data, "errcode", packet.errorcode, 10)
        BY <3>0 DEF HasHead, FieldAt
      <4> QED
        BY <4>1, ReadField DEF OFFSET_ERRCODE
    <3> QED
      BY <3>1, <3>2, <3>3
  <2> QED
    BY <2>1 DEF HeadReadsBack
<1> QED
  BY <1>1, PacketInductive, PTL

(* What a message holds behind its head, for every sequence of receptions, *)
(* appends and packings: a packet made of a frame keeps all its bytes, and *)
(* a new one loses exactly the 14 bytes that the head is written over and  *)
(* ends in 14 that nobody wrote.                                           *)
THEOREM ContentCorrect == PacketSpec => []MessageContents
<1>1. ASSUME PacketInv PROVE MessageContents
  <2>1. ASSUME Exists
        PROVE  /\ packet.message_len =
                     IF received THEN content ELSE content + PACKET_HEAD_LEN
               /\ packet.dataNowLen = content
               /\ \A i \in PACKET_HEAD_LEN .. packet.message_len - 1 :
                     packet.data[i] = IF i < content THEN BodyByte(i) ELSE Stale
    <3>1. /\ packet.message_len = IF received THEN content ELSE content + 14
          /\ packet.dataNowLen = content
          /\ packet.dataMaxLen >= packet.message_len
          /\ content \in Nat /\ packet.message_len \in Nat /\ packet.dataMaxLen \in Nat
          /\ Fresh(packet)
          /\ \A i \in 14 .. content - 1 : packet.data[i] = BodyByte(i)
      BY <1>1, <2>1, ConstantsTyped DEF PacketInv, PacketFine, WellFormed, PacketShape
    <3>2. ASSUME NEW i \in 14 .. packet.message_len - 1
          PROVE  packet.data[i] = IF i < content THEN BodyByte(i) ELSE Stale
      <4>1. CASE i < content
        BY <3>1, <4>1
      <4>2. CASE ~ (i < content)
        <5>1. i \in 14 .. packet.dataMaxLen - 1 /\ i >= packet.dataNowLen
          BY <3>1, <4>2
        <5> QED
          BY <3>1, <4>2, <5>1 DEF Fresh
      <4> QED
        BY <4>1, <4>2
    <3> QED
      BY <3>1, <3>2 DEF PACKET_HEAD_LEN
  <2> QED
    BY <2>1 DEF MessageContents
<1> QED
  BY <1>1, PacketInductive, PTL

-----------------------------------------------------------------------------
(* The send buffer. *)
USE SizeAssumption, BoundAssumption

(* What clear_Send_buff() leaves is a buffer, the bytes held in front.     *)
LEMMA MovedTyped ==
    ASSUME TypeOK
    PROVE  /\ Held \in 0 .. MaxBuf
           /\ Moved \in [1 .. MaxBuf -> Nat]
           /\ \A i \in 1 .. Held : Moved[i] = send_buffer[send_begin + i]
<1>1. Held \in 0 .. MaxBuf /\ send_begin + Held <= MaxBuf
  BY DEF TypeOK, Held
<1>2. \A i \in 1 .. Held : i \in 1 .. MaxBuf /\ i <= Held /\ send_begin + i \in 1 .. MaxBuf
  BY <1>1 DEF TypeOK
<1> QED
  BY <1>1, <1>2 DEF TypeOK, Moved

(* The bytes passed to the kernel by one send().                           *)
LEMMA SentTyped ==
    ASSUME TypeOK, NEW n \in 1 .. Held, out' = out \o [i \in 1 .. n |-> Moved[i]]
    PROVE  /\ out' \in Seq(Nat)
           /\ Len(out') = Len(out) + n
           /\ \A i \in 1 .. Len(out) : out'[i] = out[i]
           /\ \A i \in 1 .. n : out'[Len(out) + i] = Moved[i]
<1> DEFINE s == [i \in 1 .. n |-> Moved[i]]
<1>1. n \in Nat /\ \A i \in 1 .. n : i \in 1 .. MaxBuf
  BY MovedTyped
<1>2. s \in [1 .. n -> Nat]
  BY <1>1, MovedTyped
<1>3. s \in Seq(Nat) /\ Len(s) = n
  BY <1>1, <1>2
<1>4. out \in Seq(Nat) /\ out' = out \o s /\ Len(out) \in Nat
  BY LenProperties DEF TypeOK
<1> HIDE DEF s
<1>5. /\ out \o s \in Seq(Nat)
      /\ Len(out \o s) = Len(out) + Len(s)
      /\ \A i \in 1 .. Len(out) + Len(s) :
            (out \o s)[i] = IF i <= Len(out) THEN out[i] ELSE s[i - Len(out)]
  BY <1>3, <1>4, ConcatProperties
<1>6. \A i \in 1 .. n : s[i] = Moved[i]
  BY DEF s
<1> QED
  BY <1>1, <1>3, <1>4, <1>5, <1>6

(* Every step keeps the types and the marks in the buffer. *)
LEMMA TypeOKStep ==
    ASSUME TypeOK, [Next]_vars
    PROVE  TypeOK'
<1> USE DEF TypeOK, bufferVars
<1>0. Held \in 0 .. MaxBuf /\ Len(out) \in Nat
  BY LenProperties DEF Held
<1>1. ASSUME NEW size \in Message, WriteAccepted(size) PROVE TypeOK'
  <2>1. send_buffer' \in [1 .. MaxBuf -> Nat]
    <3>1. send_buffer' = [i \in 1 .. MaxBuf |->
              IF i > Held /\ i <= Held + HeadLen + size
              THEN framed + (i - Held) ELSE Moved[i]]
      BY <1>1 DEF WriteAccepted
    <3>2. \A i \in 1 .. MaxBuf : i > Held => framed + (i - Held) \in Nat
      BY <1>0
    <3> QED
      BY <3>1, <3>2, MovedTyped
  <2> QED
    BY <1>0, <1>1, <2>1 DEF WriteAccepted, RoomFor, Message
<1>2. ASSUME NEW size \in Message, WriteRefused(size) PROVE TypeOK'
  BY <1>2 DEF WriteRefused, RemoveDevice
<1>3. CASE WriteEvent
  BY <1>3 DEF WriteEvent
<1>4. CASE ReadEvent
  BY <1>4 DEF ReadEvent
<1>5. CASE SendTakes
  <2>1. PICK n \in 1 .. Held :
          /\ out' = out \o [i \in 1 .. n |-> Moved[i]]
          /\ send_buffer' = Moved /\ send_begin' = n /\ send_end' = Held
    BY <1>5 DEF SendTakes
  <2> QED
    BY <1>0, <1>5, <2>1, SentTyped, MovedTyped DEF SendTakes
<1>6. CASE SendDone
  BY <1>0, <1>6, MovedTyped DEF SendDone, ClearSendBuff
<1>7. CASE SendAgain
  BY <1>0, <1>7, MovedTyped DEF SendAgain, ClearSendBuff
<1>8. CASE SendFails
  BY <1>8 DEF SendFails, RemoveDevice
<1>9. ASSUME NEW n \in 1 .. Len(out), ClientRead(n) PROVE TypeOK'
  <2>1. read' \in Nat /\ read' <= Len(out)
    BY <1>0, <1>9 DEF ClientRead
  <2>2. edge' \in BOOLEAN /\ noSpace' \in BOOLEAN
    BY <1>9 DEF ClientRead
  <2> QED
    BY <1>9, <2>1, <2>2 DEF ClientRead
<1>10. CASE ClientReset
  BY <1>10 DEF ClientReset
<1>11. CASE UNCHANGED vars
  BY <1>11 DEF vars
<1> HIDE DEF TypeOK, bufferVars
<1>12. CASE Request
  BY <1>1, <1>2, <1>12 DEF Request
<1>13. CASE DoWrite
  BY <1>3, <1>5, <1>6, <1>7, <1>8, <1>13 DEF DoWrite
<1>14. CASE ClientReads
  BY <1>9, <1>14 DEF ClientReads
<1> QED
  BY <1>4, <1>10, <1>11, <1>12, <1>13, <1>14 DEF Next

(* The initial state is typed. *)
LEMMA TypeOKInit == Init => TypeOK
<1> SUFFICES ASSUME Init PROVE TypeOK
  OBVIOUS
<1>1. out \in Seq(Nat) /\ Len(out) = 0
  BY EmptySeq DEF Init
<1>2. send_buffer \in [1 .. MaxBuf -> Nat]
  BY DEF Init
<1>3. /\ send_begin = 0 /\ send_end = 0 /\ framed = 0 /\ read = 0
      /\ reset = FALSE /\ noSpace = FALSE /\ edge = TRUE /\ open = TRUE
      /\ pc = "loop"
  BY DEF Init
<1>4. /\ send_begin \in 0 .. MaxBuf /\ send_end \in 0 .. MaxBuf
      /\ send_begin <= send_end /\ framed \in Nat /\ read \in Nat
      /\ read <= Len(out)
  BY <1>1, <1>3
<1>5. /\ reset \in BOOLEAN /\ noSpace \in BOOLEAN /\ edge \in BOOLEAN
      /\ open \in BOOLEAN /\ pc \in {"loop", "write"}
  BY <1>3
<1> QED
  BY <1>1, <1>2, <1>4, <1>5 DEF TypeOK

(* Type correctness: send_begin <= send_end, both inside the buffer.       *)
THEOREM TypeCorrect == Spec => []TypeOK
<1>1. TypeOK /\ [Next]_vars => TypeOK'
  BY TypeOKStep
<1> QED
  BY <1>1, TypeOKInit, PTL DEF Spec

-----------------------------------------------------------------------------
(* Putting a message behind the bytes held keeps the stream.               *)
LEMMA WriteKeepsStream ==
    ASSUME TypeOK, OutIsStream, NEW size \in Message, WriteAccepted(size)
    PROVE  OutIsStream'
<1>1. /\ framed' = framed + HeadLen + size /\ out' = out
      /\ send_buffer' = [i \in 1 .. MaxBuf |->
              IF i > Held /\ i <= Held + HeadLen + size
              THEN framed + (i - Held) ELSE Moved[i]]
      /\ send_begin' = 0 /\ send_end' = Held + HeadLen + size
      /\ Held + HeadLen + size <= MaxBuf
  BY MovedTyped DEF WriteAccepted, RoomFor, Message
<1>2. Held \in Nat /\ Len(out) \in Nat /\ framed \in Nat /\ size \in Nat
  BY MovedTyped, LenProperties DEF TypeOK, Message
<1>3. Held' = Held + HeadLen + size
  BY <1>1, <1>2 DEF Held
<1>4. Len(out) + Held = framed
  BY DEF OutIsStream
<1>5. ASSUME NEW i \in 1 .. Held + HeadLen + size
      PROVE  send_buffer'[i] = Len(out) + i
  <2>1. i \in 1 .. MaxBuf
    BY <1>1, <1>2
  <2>2. CASE i > Held
    <3>1. i <= Held + HeadLen + size
      BY <1>2
    <3>2. send_buffer'[i] = framed + (i - Held)
      BY <1>1, <2>1, <2>2, <3>1
    <3> QED
      BY <1>2, <1>4, <3>2
  <2>3. CASE i \in 1 .. Held
    <3>1. ~ (i > Held)
      BY <1>2, <2>3
    <3>2. send_buffer'[i] = Moved[i]
      BY <1>1, <2>1, <3>1
    <3> QED
      BY <2>3, <3>2, MovedTyped DEF OutIsStream
  <2> QED
    BY <1>2, <2>2, <2>3
<1>6. \A i \in 1 .. Held' : send_buffer'[send_begin' + i] = Len(out') + i
  <2> SUFFICES ASSUME NEW i \in 1 .. Held'
               PROVE  send_buffer'[send_begin' + i] = Len(out') + i
    OBVIOUS
  <2>1. i \in 1 .. Held + HeadLen + size
    BY <1>3
  <2>2. send_begin' + i = i /\ out' = out
    BY <1>1, <1>2, <2>1
  <2> QED
    BY <1>5, <2>1, <2>2
<1>7. Len(out') + Held' = framed'
  BY <1>1, <1>2, <1>3, <1>4
<1>8. \A i \in 1 .. Len(out') : out'[i] = i
  BY <1>1 DEF OutIsStream
<1> QED
  BY <1>6, <1>7, <1>8 DEF OutIsStream

(* Passing bytes to the kernel keeps the stream.                           *)
LEMMA SendKeepsStream ==
    ASSUME TypeOK, OutIsStream, SendTakes
    PROVE  OutIsStream'
<1>1. PICK n \in 1 .. Held :
        /\ out' = out \o [i \in 1 .. n |-> Moved[i]]
        /\ send_buffer' = Moved /\ send_begin' = n /\ send_end' = Held
  BY DEF SendTakes
<1>2. framed' = framed
  BY DEF SendTakes
<1>3. Held \in Nat /\ Len(out) \in Nat /\ framed \in Nat /\ n \in Nat
  BY MovedTyped, LenProperties DEF TypeOK
<1>4. Len(out) + Held = framed
  BY DEF OutIsStream
<1>5. \A i \in 1 .. Held : Moved[i] = Len(out) + i
  BY MovedTyped DEF OutIsStream
<1>6. /\ Len(out') = Len(out) + n
      /\ \A i \in 1 .. Len(out) : out'[i] = out[i]
      /\ \A i \in 1 .. n : out'[Len(out) + i] = Moved[i]
  BY <1>1, SentTyped
<1>7. Held' = Held - n
  BY <1>1 DEF Held
<1>8. ASSUME NEW i \in 1 .. Len(out) + n PROVE out'[i] = i
  <2>1. CASE i \in 1 .. Len(out)
    BY <1>6, <2>1 DEF OutIsStream
  <2>2. CASE i > Len(out)
    <3>1. i - Len(out) \in 1 .. n /\ i - Len(out) \in 1 .. Held
          /\ Len(out) + (i - Len(out)) = i
      BY <1>1, <1>3, <2>2
    <3> QED
      BY <1>5, <1>6, <3>1
  <2> QED
    BY <1>3, <2>1, <2>2
<1>9. ASSUME NEW i \in 1 .. Held - n
      PROVE  send_buffer'[send_begin' + i] = Len(out') + i
  <2>1. n + i \in 1 .. Held
    BY <1>1, <1>3
  <2> QED
    BY <1>1, <1>3, <1>5, <1>6, <2>1
<1>10. Len(out') + Held' = framed'
  BY <1>2, <1>3, <1>4, <1>6, <1>7
<1> QED
  BY <1>6, <1>7, <1>8, <1>9, <1>10 DEF OutIsStream

(* Moving the bytes held to the front keeps the stream.                    *)
LEMMA ClearKeepsStream ==
    ASSUME TypeOK, OutIsStream, ClearSendBuff, UNCHANGED <<framed, out>>
    PROVE  OutIsStream'
<1>1. Held' = Held /\ send_begin' = 0 /\ send_buffer' = Moved /\ Held \in Nat
  BY MovedTyped DEF ClearSendBuff, Held
<1>2. \A i \in 1 .. Held : Moved[0 + i] = Len(out) + i
  BY <1>1, MovedTyped DEF OutIsStream
<1> QED
  BY <1>1, <1>2 DEF OutIsStream

(* Whatever the client reads and however little the kernel takes at a      *)
(* time, the bytes sent are the framed messages, in order and complete.    *)
THEOREM StreamInOrder == Spec => []OutIsStream
<1>1. Init => OutIsStream
  BY DEF Init, OutIsStream, Held
<1>2. ASSUME TypeOK, OutIsStream, [Next]_vars PROVE OutIsStream'
  <2>1. ASSUME UNCHANGED <<framed, out, bufferVars>> PROVE OutIsStream'
    BY <1>2, <2>1 DEF OutIsStream, Held, bufferVars
  <2>2. CASE Request
    BY <1>2, <2>1, <2>2, WriteKeepsStream
       DEF Request, WriteRefused, RemoveDevice
  <2>3. CASE SendTakes
    BY <1>2, <2>3, SendKeepsStream
  <2>4. CASE SendDone \/ SendAgain
    BY <1>2, <2>4, ClearKeepsStream DEF SendDone, SendAgain
  <2>5. CASE WriteEvent \/ ReadEvent \/ SendFails \/ ClientReset \/ ClientReads
    BY <2>1, <2>5 DEF WriteEvent, ReadEvent, SendFails, RemoveDevice,
                      ClientReset, ClientReads, ClientRead
  <2>6. CASE UNCHANGED vars
    BY <2>1, <2>6 DEF vars
  <2> QED
    BY <1>2, <2>2, <2>3, <2>4, <2>5, <2>6 DEF Next, DoWrite
<1> QED
  BY <1>1, <1>2, TypeCorrect, PTL DEF Spec

(* Bytes wait outside doWrite() only while an EPOLLOUT is or will be due.  *)
THEOREM NoByteStranded == Spec => []NothingStranded
<1>1. Init => NothingStranded
  BY DEF Init, NothingStranded
<1>2. ASSUME TypeOK, NothingStranded, [Next]_vars PROVE NothingStranded'
  <2> USE DEF NothingStranded, Held, KernelRoom, bufferVars
  <2>0. Len(out) \in Nat /\ open \in BOOLEAN /\ noSpace \in BOOLEAN /\ edge \in BOOLEAN
        /\ send_begin \in Nat /\ send_end \in Nat
    BY <1>2, LenProperties DEF TypeOK
  <2>1. CASE Request
    BY <2>1 DEF Request, WriteAccepted, WriteRefused, RemoveDevice
  <2>2. CASE SendTakes
    BY <2>2 DEF SendTakes
  <2>3. CASE SendDone
    BY <2>0, <2>3 DEF SendDone, ClearSendBuff
  <2>4. CASE SendAgain
    BY <2>4 DEF SendAgain, ClearSendBuff
  <2>5. CASE WriteEvent \/ ReadEvent
    BY <2>5 DEF WriteEvent, ReadEvent
  <2>6. CASE SendFails
    BY <2>6 DEF SendFails, RemoveDevice
  <2>7. CASE ClientReset
    BY <1>2, <2>7 DEF ClientReset
  <2>8. ASSUME NEW n \in 1 .. Len(out), ClientRead(n) PROVE NothingStranded'
    BY <1>2, <2>0, <2>8 DEF ClientRead
  <2>9. CASE UNCHANGED vars
    BY <1>2, <2>9 DEF vars
  <2> HIDE DEF NothingStranded
  <2>10. CASE ClientReads
    BY <2>8, <2>10 DEF ClientReads
  <2> QED
    BY <1>2, <2>1, <2>2, <2>3, <2>4, <2>5, <2>6, <2>7, <2>9, <2>10
       DEF Next, DoWrite
<1> QED
  BY <1>1, <1>2, TypeCorrect, PTL DEF Spec

=============================================================================
