-------------------------- MODULE RecvBufferProofs --------------------------
(***************************************************************************)
(* For every buffer size, head length and set of lengths clients write:    *)
(* the marks of the buffer stay inside it and recv() always has room,      *)
(* whatever memcpy() does; and, when an overlapping memcpy() acts as       *)
(* memmove(), doRead() hands over the frames of the client whole, in order *)
(* and once each, and leaves no byte waiting for an event.                 *)
(***************************************************************************)
EXTENDS RecvBuffer, SequenceTheorems, TLAPS

USE SizeAssumption, OverlapAssumption, FramesAssumption

(* What clear_Recv_buff() may leave is a buffer. *)
LEMMA ClearedTyped ==
    ASSUME TypeOK
    PROVE  \A cleared \in ClearedBuffers : cleared \in [1 .. MaxBuf -> Int]
<1> USE DEF TypeOK, Held, Unknown
<1>1. Held \in 0 .. MaxBuf /\ recv_begin + Held <= MaxBuf
  OBVIOUS
<1>2. Moved \in [1 .. MaxBuf -> Int]
  BY <1>1 DEF Moved
<1>3. Garbled \in [1 .. MaxBuf -> Int]
  BY <1>1 DEF Garbled
<1> QED
  BY <1>2, <1>3 DEF ClearedBuffers

(* The frames written are frames. *)
LEMMA FramesTyped ==
    ASSUME TypeOK
    PROVE  /\ Len(written) \in Nat /\ DOMAIN written = 1 .. Len(written)
           /\ \A n \in 1 .. Len(written) :
                 /\ written[n] \in FrameRecord
                 /\ written[n].start \in Nat
                 /\ written[n].len \in Int
                 /\ written[n].size \in Nat
<1>1. \A n \in 1 .. Len(written) : written[n] \in FrameRecord
  BY ElementOfSeq DEF TypeOK
<1> QED
  BY <1>1, LenProperties DEF TypeOK, FrameRecord

(* The stream has a length. *)
LEMMA StreamLenTyped ==
    ASSUME TypeOK
    PROVE  StreamLen \in Nat
<1>1. CASE written = <<>>
  BY <1>1 DEF StreamLen
<1>2. CASE written # <<>>
  <2>1. Len(written) \in 1 .. Len(written)
    BY <1>2, EmptySeq, LenProperties DEF TypeOK
  <2> QED
    BY <1>2, <2>1, FramesTyped DEF StreamLen
<1> QED
  BY <1>1, <1>2

(* The stream ends where its last frame does. *)
LEMMA StreamEnd ==
    ASSUME TypeOK
    PROVE  /\ Len(written) = 0 => StreamLen = 0
           /\ Len(written) > 0 =>
                 StreamLen = written[Len(written)].start
                             + written[Len(written)].size
<1>1. (written = <<>>) <=> (Len(written) = 0)
  BY EmptySeq DEF TypeOK
<1> QED
  BY <1>1 DEF StreamLen

(* A new frame is a frame. *)
LEMMA NewFrameTyped ==
    ASSUME TypeOK, NEW len \in Lens
    PROVE  NewFrame(len) \in FrameRecord
<1>1. len \in Int /\ StreamLen \in Nat
  BY StreamLenTyped
<1> QED
  BY <1>1 DEF NewFrame, FrameRecord, LegalLen

(* The length read at recv_begin is an integer. *)
LEMMA PacketLensTyped ==
    ASSUME TypeOK
    PROVE  packetLens \subseteq Int
BY FramesTyped DEF packetLens

(* Every step keeps the types and the marks in the buffer. *)
LEMMA TypeOKStep ==
    ASSUME TypeOK, [Next]_vars
    PROVE  TypeOK'
<1> USE DEF TypeOK, clientVars, deviceVars
<1>1. ASSUME NEW len \in Lens, ClientWrite(len) PROVE TypeOK'
  BY <1>1, NewFrameTyped, AppendProperties DEF ClientWrite
<1>2. ASSUME NEW n \in 1 .. StreamLen, Arrive(n) PROVE TypeOK'
  BY <1>2, StreamLenTyped DEF Arrive
<1>3. CASE ClientClose
  BY <1>3 DEF ClientClose
<1>4. CASE ClientReset
  BY <1>4 DEF ClientReset
<1>5. CASE Poll
  BY <1>5 DEF Poll
<1>6. CASE RecvData
  <2>1. PICK n \in 1 .. Room : \E cleared \in ClearedBuffers :
          /\ recv_buffer' =
                [i \in 1 .. MaxBuf |->
                    IF i \in Held + 1 .. Held + n
                    THEN taken + (i - Held) ELSE cleared[i]]
          /\ taken' = taken + n
          /\ recv_end' = Held + n
    BY <1>6 DEF RecvData
  <2>2. Held \in 0 .. MaxBuf /\ n \in 1 .. MaxBuf - Held
    BY DEF Held, Room
  <2>3. recv_buffer' \in [1 .. MaxBuf -> Int]
    BY <2>1, <2>2, ClearedTyped
  <2> QED
    BY <1>6, <2>1, <2>2, <2>3 DEF RecvData
<1>7. CASE RecvAgain
  BY <1>7, ClearedTyped DEF RecvAgain, Held
<1>8. CASE RecvFails
  BY <1>8 DEF RecvFails, Fail
<1>9. CASE TakeFrame
  <2>1. PICK len \in packetLens :
          /\ LegalLen(len)
          /\ len <= Held
          /\ packets' = Append(packets,
                [i \in 1 .. len |-> recv_buffer[recv_begin + i]])
          /\ recv_begin' = recv_begin + len
    BY <1>9 DEF TakeFrame
  <2>2. len \in Nat /\ recv_begin + len <= recv_end
    BY <2>1, PacketLensTyped DEF LegalLen, Held
  <2>3. [i \in 1 .. len |-> recv_buffer[recv_begin + i]] \in Seq(Int)
    BY <2>2
  <2>4. packets' \in Seq(Seq(Int))
    BY <2>1, <2>3, AppendProperties
  <2> QED
    BY <1>9, <2>1, <2>2, <2>4 DEF TakeFrame
<1>10. CASE IllegalFrame
  BY <1>10 DEF IllegalFrame, Fail
<1>11. CASE FrameIncomplete
  BY <1>11 DEF FrameIncomplete
<1>12. CASE UNCHANGED vars
  BY <1>12 DEF vars
<1> HIDE DEF TypeOK, clientVars, deviceVars
<1>13. CASE Client
  BY <1>1, <1>2, <1>3, <1>4, <1>13 DEF Client
<1>14. CASE Worker
  BY <1>5, <1>6, <1>7, <1>8, <1>9, <1>10, <1>11, <1>14 DEF Worker
<1> QED
  BY <1>12, <1>13, <1>14 DEF Next

(* The initial state is typed. *)
LEMMA TypeOKInit == Init => TypeOK
<1> SUFFICES ASSUME Init PROVE TypeOK
  OBVIOUS
<1>1. written \in Seq(FrameRecord) /\ packets \in Seq(Seq(Int))
  BY EmptySeq DEF Init
<1>2. recv_buffer \in [1 .. MaxBuf -> Int]
  <2>1. recv_buffer = [i \in 1 .. MaxBuf |-> Unknown]
    BY DEF Init
  <2>2. Unknown \in Int
    BY DEF Unknown
  <2> QED
    BY <2>1, <2>2
<1>3. /\ peer = "open" /\ arrived = 0 /\ edge = FALSE /\ taken = 0
      /\ pc = "poll" /\ recv_begin = 0 /\ recv_end = 0 /\ open = TRUE
  BY DEF Init
<1>4. /\ recv_begin \in 0 .. MaxBuf /\ recv_end \in 0 .. MaxBuf
      /\ recv_begin <= recv_end /\ arrived \in Nat /\ taken \in Nat
  BY <1>3
<1>5. /\ peer \in {"open", "closed", "reset"} /\ pc \in {"poll", "recv", "frames"}
      /\ edge \in BOOLEAN /\ open \in BOOLEAN
  BY <1>3
<1> QED
  BY <1>1, <1>2, <1>4, <1>5 DEF TypeOK

(* Type correctness: recv_begin <= recv_end, both inside the buffer. *)
THEOREM TypeCorrect == Spec => []TypeOK
<1>1. TypeOK /\ [Next]_vars => TypeOK'
  BY TypeOKStep
<1> QED
  BY <1>1, TypeOKInit, PTL DEF Spec

-----------------------------------------------------------------------------
(* Outside the inner loop the buffer is never full: when the loop ends,    *)
(* what is left is no more than a head, or less than a frame that fits.    *)
NeverFull == pc # "frames" /\ open => Held < MaxBuf

(* Every step keeps the buffer from being full. *)
LEMMA NeverFullStep ==
    ASSUME TypeOK, NeverFull, [Next]_vars
    PROVE  NeverFull'
<1> USE DEF TypeOK, NeverFull, Held, clientVars, deviceVars
<1>1. CASE Client \/ UNCHANGED vars
  BY <1>1 DEF Client, ClientWrite, Arrive, ClientClose, ClientReset, vars
<1>2. CASE Poll
  BY <1>2 DEF Poll
<1>3. CASE RecvData \/ TakeFrame
  BY <1>3 DEF RecvData, TakeFrame
<1>4. CASE RecvAgain
  BY <1>4 DEF RecvAgain, Room
<1>5. CASE RecvFails \/ IllegalFrame
  BY <1>5 DEF RecvFails, IllegalFrame, Fail
<1>6. CASE FrameIncomplete
  <2>1. CASE Held > HeadLen
    <3>1. PICK len \in packetLens : LegalLen(len) /\ len > Held
      BY <1>6, <2>1 DEF FrameIncomplete
    <3> QED
      BY <1>6, <3>1, PacketLensTyped DEF FrameIncomplete, LegalLen
  <2>2. CASE ~ (Held > HeadLen)
    BY <1>6, <2>2 DEF FrameIncomplete
  <2> QED
    BY <2>1, <2>2
<1> QED
  BY <1>1, <1>2, <1>3, <1>4, <1>5, <1>6 DEF Next, Worker

(* recv() is never called without room, whatever memcpy() does with        *)
(* overlapping regions and whatever lengths the client writes.             *)
THEOREM RoomForRecv == Spec => []RecvHasRoom
<1>1. Init => NeverFull
  BY DEF Init, NeverFull, Held
<1>2. TypeOK /\ NeverFull /\ [Next]_vars => NeverFull'
  BY NeverFullStep
<1>3. NeverFull => RecvHasRoom
  BY DEF NeverFull, RecvHasRoom
<1> QED
  BY <1>1, <1>2, <1>3, TypeCorrect, PTL DEF Spec

-----------------------------------------------------------------------------
(* The frames of the stream lie one behind the other.                      *)
StreamShape ==
    /\ \A n \in 1 .. Len(written) :
          /\ written[n].size >= HeadLen
          /\ LegalLen(written[n].len) => written[n].size = written[n].len
          /\ written[n].start + written[n].size <= StreamLen
    /\ \A m, n \in 1 .. Len(written) :
          m < n => written[m].start + written[m].size <= written[n].start
    /\ \A n \in 1 .. Len(written) - 1 :
          written[n + 1].start = written[n].start + written[n].size
    /\ Len(written) > 0 => written[1].start = 0

(* Nothing is read before it arrives, nor arrives before it is written.    *)
InBounds == arrived <= StreamLen /\ taken <= arrived

(* The packets pushed are the first frames written, and all legal.         *)
PacketsMatch ==
    /\ Len(packets) <= Len(written)
    /\ \A n \in 1 .. Len(packets) :
          /\ LegalLen(written[n].len)
          /\ packets[n] = FrameBytes(written[n])

(* Outside the inner loop what is held is less than the next frame, or no  *)
(* more than its head.                                                     *)
Incomplete ==
    open /\ pc # "frames" =>
        \/ Held <= HeadLen
        \/ /\ Len(packets) < Len(written)
           /\ Held < written[Len(packets) + 1].len

(* Without an event to report, all that arrived has been read.             *)
Quiet == open /\ pc = "poll" /\ ~ edge => peer = "open" /\ taken = arrived

(* The inductive invariant of a buffer whose copies do what they should.   *)
IInv ==
    /\ TypeOK
    /\ StreamShape
    /\ InBounds
    /\ PacketsMatch
    /\ HeldIsStream
    /\ Incomplete
    /\ Quiet

(* Where the stream ends once one more frame is written. *)
LEMMA ClientWriteStream ==
    ASSUME TypeOK, StreamShape, NEW len \in Lens, ClientWrite(len)
    PROVE  /\ Len(written') = Len(written) + 1
           /\ \A n \in 1 .. Len(written) : written'[n] = written[n]
           /\ written'[Len(written) + 1] = NewFrame(len)
           /\ NewFrame(len).start = StreamLen
           /\ NewFrame(len).size \in Nat /\ NewFrame(len).size >= HeadLen
           /\ LegalLen(len) => NewFrame(len).size = len
           /\ StreamLen' = StreamLen + NewFrame(len).size
<1>1. written' = Append(written, NewFrame(len))
  BY DEF ClientWrite
<1>2. NewFrame(len) \in FrameRecord /\ len \in Int
  BY NewFrameTyped
<1>3. /\ Len(written') = Len(written) + 1
      /\ \A n \in 1 .. Len(written) : written'[n] = written[n]
      /\ written'[Len(written) + 1] = NewFrame(len)
      /\ written' # <<>>
  <2> DEFINE f == NewFrame(len)
  <2>1. written \in Seq(FrameRecord) /\ f \in FrameRecord /\ written' = Append(written, f)
    BY <1>1, <1>2 DEF TypeOK
  <2> HIDE DEF f
  <2>2. /\ Len(written') = Len(written) + 1
        /\ \A n \in 1 .. Len(written) : written'[n] = written[n]
        /\ written'[Len(written) + 1] = f
        /\ written' # <<>>
    BY ONLY <2>1, AppendProperties
  <2> QED
    BY ONLY <2>2 DEF f
<1>4. /\ NewFrame(len).start = StreamLen
      /\ NewFrame(len).size >= HeadLen
      /\ LegalLen(len) => NewFrame(len).size = len
  <2>1. NewFrame(len).start = StreamLen
    BY DEF NewFrame
  <2>2. NewFrame(len).size = IF LegalLen(len) THEN len ELSE HeadLen + 1
    BY DEF NewFrame
  <2>3. LegalLen(len) => len >= HeadLen
    BY DEF LegalLen
  <2>4. HeadLen + 1 >= HeadLen
    BY SizeAssumption
  <2> QED
    BY ONLY <2>1, <2>2, <2>3, <2>4
<1>5. NewFrame(len).size \in Nat
  BY <1>2 DEF FrameRecord
<1>6. StreamLen' = StreamLen + NewFrame(len).size
  BY <1>3, <1>4 DEF StreamLen
<1> QED
  BY <1>3, <1>4, <1>5, <1>6

(* The frames of the stream stay one behind the other. *)
LEMMA StreamShapeStep ==
    ASSUME TypeOK, StreamShape, NEW len \in Lens, ClientWrite(len)
    PROVE  StreamShape'
<1> DEFINE f == NewFrame(len)
           k == Len(written)
<1>1. /\ Len(written') = k + 1
      /\ \A n \in 1 .. k : written'[n] = written[n]
      /\ written'[k + 1] = f
      /\ f.start = StreamLen
      /\ f.size \in Nat /\ f.size >= HeadLen
      /\ LegalLen(len) => f.size = len
      /\ StreamLen' = StreamLen + f.size
  BY ClientWriteStream
<1>2. f.len = len
  BY DEF NewFrame
<1>3. k \in Nat /\ StreamLen \in Nat
  BY FramesTyped, StreamLenTyped
<1>4. \A n \in 1 .. k : written[n].start \in Nat /\ written[n].size \in Nat
  BY FramesTyped
<1> HIDE DEF f
<1>5. \A n \in 1 .. k + 1 :
         /\ written'[n].size >= HeadLen
         /\ LegalLen(written'[n].len) => written'[n].size = written'[n].len
         /\ written'[n].start + written'[n].size <= StreamLen'
  <2> TAKE n \in 1 .. k + 1
  <2>1. CASE n \in 1 .. k
    <3>1. written'[n] = written[n]
      BY <1>1, <2>1
    <3>2. /\ written[n].size >= HeadLen
          /\ LegalLen(written[n].len) => written[n].size = written[n].len
          /\ written[n].start + written[n].size <= StreamLen
      BY <2>1 DEF StreamShape
    <3>3. written[n].start + written[n].size <= StreamLen'
      BY <1>1, <1>3, <1>4, <2>1, <3>2
    <3> QED
      BY <3>1, <3>2, <3>3
  <2>2. CASE n = k + 1
    BY <1>1, <1>2, <1>3, <2>2 DEF LegalLen
  <2> QED
    BY <1>3, <2>1, <2>2
<1>6. \A m, n \in 1 .. k + 1 :
         m < n => written'[m].start + written'[m].size <= written'[n].start
  <2> TAKE m, n \in 1 .. k + 1
  <2> HAVE m < n
  <2>1. m \in 1 .. k
    BY <1>3
  <2>2. CASE n \in 1 .. k
    BY <1>1, <2>1, <2>2 DEF StreamShape
  <2>3. CASE n = k + 1
    BY <1>1, <2>1, <2>3 DEF StreamShape
  <2> QED
    BY <1>3, <2>2, <2>3
<1>7. \A n \in 1 .. k :
         written'[n + 1].start = written'[n].start + written'[n].size
  <2>1. ASSUME NEW n \in 1 .. k, n < k
        PROVE  written'[n + 1].start = written'[n].start + written'[n].size
    <3>1. n \in 1 .. k - 1 /\ n + 1 \in 1 .. k
      BY <1>3, <2>1
    <3>2. written[n + 1].start = written[n].start + written[n].size
      BY <3>1 DEF StreamShape
    <3>3. written'[n] = written[n] /\ written'[n + 1] = written[n + 1]
      BY ONLY <1>1, <2>1, <3>1
    <3> QED
      BY <3>2, <3>3
  <2>2. ASSUME k > 0
        PROVE  written'[k + 1].start = written'[k].start + written'[k].size
    BY <1>1, <1>3, <2>2, StreamEnd
  <2>3. ASSUME NEW n \in 1 .. k
        PROVE  n < k \/ (n = k /\ k > 0)
    BY <1>3
  <2> QED
    BY <2>1, <2>2, <2>3
<1>8. written'[1].start = 0
  BY <1>1, <1>3, StreamEnd DEF StreamShape
<1> QED
  BY <1>1, <1>3, <1>5, <1>6, <1>7, <1>8 DEF StreamShape

(* Reading a head gives the length of the next frame, and no other.        *)
LEMMA HeadIsNext ==
    ASSUME IInv, open, Held > HeadLen
    PROVE  /\ Len(packets) < Len(written)
           /\ NextStart = written[Len(packets) + 1].start
           /\ packetLens = {written[Len(packets) + 1].len}
<1> USE DEF IInv
<1> DEFINE k == Len(packets) + 1
<1>1. /\ Len(packets) \in Nat /\ Len(written) \in Nat /\ StreamLen \in Nat
      /\ taken \in Nat /\ arrived \in Nat /\ Held \in Nat
  BY FramesTyped, StreamLenTyped, LenProperties DEF TypeOK, Held
<1>2. NextStart + Held = taken /\ taken <= StreamLen
  BY <1>1 DEF HeldIsStream, InBounds
<1>3. Len(packets) < Len(written) /\ k \in 1 .. Len(written)
  BY <1>1, <1>2 DEF PacketsMatch, NextStart
<1>4. NextStart = written[k].start
  BY <1>3 DEF NextStart
<1>5. \A i \in 1 .. HeadLen : recv_buffer[recv_begin + i] = written[k].start + i
  <2> TAKE i \in 1 .. HeadLen
  <2>1. i \in 1 .. Held
    BY <1>1
  <2> QED
    BY <1>4, <2>1 DEF HeldIsStream
<1>6. HeadOf(written[k])
  BY <1>5 DEF HeadOf
<1>7. ASSUME NEW n \in 1 .. Len(written), HeadOf(written[n])
      PROVE  n = k
  <2>1. 1 \in 1 .. HeadLen
    OBVIOUS
  <2>2. written[n].start + 1 = written[k].start + 1
    BY <1>5, <1>7, <2>1 DEF HeadOf
  <2>3. /\ written[n].start \in Nat /\ written[k].start \in Nat
        /\ written[n].size \in Nat /\ written[k].size \in Nat
    BY <1>3, FramesTyped
  <2>4. written[n].size >= 1 /\ written[k].size >= 1
    BY <1>3, <2>3 DEF StreamShape
  <2>5. /\ n < k => written[n].start + written[n].size <= written[k].start
        /\ k < n => written[k].start + written[k].size <= written[n].start
    <3>1. n \in 1 .. Len(written) /\ k \in 1 .. Len(written)
      BY <1>3
    <3>2. \A l, m \in 1 .. Len(written) :
             l < m => written[l].start + written[l].size <= written[m].start
      BY DEF StreamShape
    <3> HIDE DEF k
    <3> QED
      BY ONLY <3>1, <3>2
  <2>6. n \in Int /\ k \in Int
    BY <1>1, <1>3
  <2>7. written[n].start = written[k].start
    BY <2>2, <2>3
  <2>8. ~ n < k /\ ~ k < n
    BY <2>3, <2>4, <2>5, <2>7
  <2> QED
    BY <2>6, <2>8
<1>8. {m \in DOMAIN written : HeadOf(written[m])} = {k}
  BY <1>3, <1>6, <1>7, FramesTyped
<1>9. packetLens = {written[n].len : n \in {k}}
  BY <1>8 DEF packetLens
<1> QED
  BY <1>3, <1>4, <1>9

(* With copies that work, clear_Recv_buff() moves the bytes held.          *)
LEMMA ClearedIsMoved ==
    ASSUME TypeOK, OverlapAsMemmove, NEW cleared \in ClearedBuffers
    PROVE  \A i \in 1 .. Held : cleared[i] = recv_buffer[recv_begin + i]
<1>1. recv_begin = 0 => cleared = recv_buffer
  BY DEF ClearedBuffers
<1>2. recv_begin # 0 => cleared = Moved
  BY DEF ClearedBuffers
<1>3. \A i \in 1 .. Held : i \in 1 .. MaxBuf /\ i <= Held
  BY DEF TypeOK, Held
<1>4. \A i \in 1 .. Held : Moved[i] = recv_buffer[recv_begin + i]
  BY <1>3 DEF Moved
<1>5. recv_begin = 0 => \A i \in 1 .. Held : recv_begin + i = i
  BY <1>3
<1> QED
  BY <1>1, <1>2, <1>4, <1>5

(* What a frame taken from the buffer is.                                  *)
LEMMA TakenFrame ==
    ASSUME IInv, TakeFrame
    PROVE  LET k == Len(packets) + 1
               f == written[k]
           IN  /\ k \in 1 .. Len(written)
               /\ LegalLen(f.len) /\ f.len <= Held /\ f.len \in Nat
               /\ f.start = NextStart /\ f.size = f.len
               /\ packets' = Append(packets, FrameBytes(f))
               /\ recv_begin' = recv_begin + f.len
<1> DEFINE k == Len(packets) + 1
           f == written[k]
<1>1. open /\ Held > HeadLen
  BY DEF TakeFrame
<1>2. PICK len \in packetLens :
          /\ LegalLen(len)
          /\ len <= Held
          /\ packets' = Append(packets,
                [i \in 1 .. len |-> recv_buffer[recv_begin + i]])
          /\ recv_begin' = recv_begin + len
  BY DEF TakeFrame
<1>3. Len(packets) < Len(written) /\ len = f.len /\ f.start = NextStart
  BY <1>1, <1>2, HeadIsNext
<1>4. Len(packets) \in Nat /\ Len(written) \in Nat
  BY LenProperties DEF IInv, TypeOK
<1>5. k \in 1 .. Len(written)
  BY <1>3, <1>4
<1>6. f.len \in Int /\ f.start \in Nat
  BY <1>5, FramesTyped DEF IInv
<1>7. f.len \in Nat
  BY <1>2, <1>3, <1>6 DEF LegalLen
<1>8. f.size = f.len
  BY <1>2, <1>3, <1>5 DEF IInv, StreamShape
<1>9. Held \in Nat
  BY DEF IInv, TypeOK, Held
<1>10. \A i \in 1 .. f.len : recv_buffer[recv_begin + i] = f.start + i
  <2> TAKE i \in 1 .. f.len
  <2>1. i \in 1 .. Held
    BY <1>2, <1>3, <1>7, <1>9
  <2> QED
    BY <1>1, <1>3, <2>1 DEF IInv, HeldIsStream
<1>11. [i \in 1 .. f.len |-> recv_buffer[recv_begin + i]] = FrameBytes(f)
  BY <1>10 DEF FrameBytes
<1> QED
  BY <1>2, <1>3, <1>5, <1>7, <1>8, <1>11

(* What a step keeps that neither writes a frame nor pushes one.           *)
LEMMA SameStream ==
    ASSUME IInv, UNCHANGED <<written, packets>>
    PROVE  /\ StreamShape' /\ PacketsMatch'
           /\ StreamLen' = StreamLen /\ NextStart' = NextStart
BY DEF IInv, StreamShape, PacketsMatch, StreamLen, NextStart

(* A client step that leaves the stream alone keeps the invariant.         *)
LEMMA ClientOtherStep ==
    ASSUME IInv, TypeOK',
           (\E n \in 1 .. StreamLen : Arrive(n)) \/ ClientClose \/ ClientReset
    PROVE  IInv'
<1>1. UNCHANGED <<written, packets, taken, pc, recv_buffer, recv_begin,
                  recv_end, open>> /\ edge' = open
  BY DEF Arrive, ClientClose, ClientReset, deviceVars
<1>2. StreamShape' /\ PacketsMatch' /\ StreamLen' = StreamLen
      /\ NextStart' = NextStart
  BY <1>1, SameStream
<1>3. InBounds'
  <2>1. CASE arrived' = arrived
    BY <1>1, <1>2, <2>1 DEF IInv, InBounds
  <2>2. ASSUME NEW n \in 1 .. StreamLen, Arrive(n) PROVE InBounds'
    BY <1>1, <1>2, <2>2, StreamLenTyped DEF IInv, InBounds, Arrive, TypeOK
  <2> QED
    BY <2>1, <2>2 DEF ClientClose, ClientReset
<1>4. HeldIsStream'
  BY <1>1, <1>2 DEF IInv, HeldIsStream, Held
<1>5. Incomplete'
  BY <1>1 DEF IInv, Incomplete, Held
<1>6. Quiet'
  BY <1>1 DEF Quiet
<1> QED
  BY <1>2, <1>3, <1>4, <1>5, <1>6 DEF IInv

(* Writing a frame keeps the invariant.                                    *)
LEMMA ClientWriteStep ==
    ASSUME IInv, TypeOK', NEW len \in Lens, ClientWrite(len)
    PROVE  IInv'
<1> DEFINE k == Len(written)
<1>1. /\ Len(written') = k + 1
      /\ \A n \in 1 .. k : written'[n] = written[n]
      /\ written'[k + 1].start = StreamLen
      /\ StreamLen <= StreamLen'
      /\ k \in Nat /\ StreamLen \in Nat /\ StreamLen' \in Nat
  BY ClientWriteStream, FramesTyped, StreamLenTyped DEF IInv
<1>2. UNCHANGED <<packets, taken, arrived, pc, recv_buffer, recv_begin,
                  recv_end, open, edge, peer>>
  BY DEF ClientWrite, deviceVars
<1>3. Len(packets) \in Nat /\ Len(packets) <= k /\ arrived \in Nat
      /\ taken \in Nat
  BY LenProperties DEF IInv, TypeOK, PacketsMatch
<1>4. StreamShape'
  BY StreamShapeStep DEF IInv
<1>5. InBounds'
  BY <1>1, <1>2, <1>3 DEF IInv, InBounds
<1>6. PacketsMatch'
  <2>1. \A n \in 1 .. Len(packets) : n \in 1 .. k
    BY <1>1, <1>3
  <2>2. \A n \in 1 .. Len(packets) : written'[n] = written[n]
    BY <1>1, <2>1
  <2> QED
    BY <1>1, <1>2, <1>3, <2>2 DEF IInv, PacketsMatch
<1>7. NextStart' = NextStart
  <2>1. CASE Len(packets) < k
    <3>1. Len(packets) + 1 \in 1 .. k
      BY <1>1, <1>3, <2>1
    <3> QED
      BY <1>1, <1>2, <1>3, <2>1, <3>1 DEF NextStart
  <2>2. CASE Len(packets) = k
    BY <1>1, <1>2, <1>3, <2>2 DEF NextStart
  <2> QED
    BY <1>1, <1>3, <2>1, <2>2
<1>8. HeldIsStream'
  BY <1>2, <1>7 DEF IInv, HeldIsStream, Held
<1>9. Incomplete'
  <2>1. Len(packets) < k => written'[Len(packets) + 1] = written[Len(packets) + 1]
    BY <1>1, <1>3
  <2> QED
    BY <1>1, <1>2, <1>3, <2>1 DEF IInv, Incomplete, Held
<1>10. Quiet'
  BY <1>2 DEF IInv, Quiet
<1> QED
  BY <1>4, <1>5, <1>6, <1>8, <1>9, <1>10 DEF IInv

(* Giving the connection up keeps the invariant.                           *)
LEMMA FailStep ==
    ASSUME IInv, TypeOK', Fail
    PROVE  IInv'
<1>1. UNCHANGED <<written, packets, arrived, taken>> /\ ~ open'
  BY DEF Fail, clientVars
<1>2. StreamShape' /\ PacketsMatch' /\ StreamLen' = StreamLen
  BY <1>1, SameStream
<1> QED
  BY <1>1, <1>2 DEF IInv, InBounds, HeldIsStream, Incomplete, Quiet

(* recv() returning bytes keeps the invariant.                             *)
LEMMA RecvDataStep ==
    ASSUME IInv, TypeOK', OverlapAsMemmove, RecvData
    PROVE  IInv'
<1>1. PICK n \in 1 .. Room :
        /\ n = arrived - taken \/ (n = Room /\ n < arrived - taken)
        /\ \E cleared \in ClearedBuffers :
              recv_buffer' =
                  [i \in 1 .. MaxBuf |->
                      IF i \in Held + 1 .. Held + n
                      THEN taken + (i - Held) ELSE cleared[i]]
        /\ taken' = taken + n
        /\ recv_end' = Held + n
  BY DEF RecvData
<1>2. PICK cleared \in ClearedBuffers :
        recv_buffer' =
            [i \in 1 .. MaxBuf |->
                IF i \in Held + 1 .. Held + n
                THEN taken + (i - Held) ELSE cleared[i]]
  BY <1>1
<1>3. UNCHANGED <<written, packets, arrived, edge, peer, open>>
      /\ open /\ pc' = "frames" /\ recv_begin' = 0
  BY DEF RecvData, clientVars
<1>4. /\ Held \in 0 .. MaxBuf /\ n \in 1 .. MaxBuf - Held
      /\ taken \in Nat /\ arrived \in Nat
  BY DEF IInv, TypeOK, Held, Room
<1>5. StreamShape' /\ PacketsMatch' /\ StreamLen' = StreamLen
      /\ NextStart' = NextStart
  BY <1>3, SameStream
<1>6. InBounds'
  BY <1>1, <1>3, <1>4, <1>5 DEF IInv, InBounds
<1>7. Held' = Held + n
  BY <1>1, <1>3, <1>4 DEF Held
<1>8. NextStart + Held = taken
  BY <1>3 DEF IInv, HeldIsStream
<1>9. NextStart \in Int
  <2>1. CASE Len(packets) < Len(written)
    <3>1. Len(packets) + 1 \in 1 .. Len(written)
      BY <2>1, LenProperties DEF IInv, TypeOK
    <3> QED
      BY <2>1, <3>1, FramesTyped DEF IInv, NextStart
  <2>2. CASE ~ (Len(packets) < Len(written))
    BY <2>2, StreamLenTyped DEF IInv, NextStart
  <2> QED
    BY <2>1, <2>2
<1>10. HeldIsStream'
  <2>1. ASSUME NEW i \in 1 .. Held + n
        PROVE  recv_buffer'[i] = NextStart + i
    <3>0. i \in 1 .. MaxBuf
      BY <1>4
    <3>1. CASE i \in 1 .. Held
      <4>1. cleared[i] = recv_buffer[recv_begin + i]
        BY <3>1, ClearedIsMoved DEF IInv
      <4>2. recv_buffer[recv_begin + i] = NextStart + i
        BY <1>3, <3>1 DEF IInv, HeldIsStream
      <4>3. ~ (i \in Held + 1 .. Held + n)
        BY <1>4, <3>1
      <4> QED
        BY <1>2, <3>0, <4>1, <4>2, <4>3
    <3>2. CASE i \in Held + 1 .. Held + n
      BY <1>2, <1>4, <1>8, <1>9, <3>0, <3>2
    <3> QED
      BY <1>4, <3>1, <3>2
  <2>2. NextStart' + Held' = taken'
    BY <1>1, <1>4, <1>5, <1>7, <1>8, <1>9
  <2>3. \A i \in 1 .. Held' : recv_buffer'[recv_begin' + i] = NextStart' + i
    BY <1>3, <1>4, <1>5, <1>7, <2>1
  <2> QED
    BY <2>2, <2>3 DEF HeldIsStream
<1> QED
  BY <1>3, <1>5, <1>6, <1>10 DEF IInv, Incomplete, Quiet

(* recv() returning EAGAIN keeps the invariant.                            *)
LEMMA RecvAgainStep ==
    ASSUME IInv, TypeOK', OverlapAsMemmove, RecvAgain
    PROVE  IInv'
<1>1. UNCHANGED <<written, packets, arrived, taken, edge, peer, open>>
      /\ open /\ peer = "open" /\ arrived = taken /\ pc = "recv"
      /\ pc' = "poll" /\ recv_begin' = 0 /\ recv_end' = Held
      /\ recv_buffer' \in ClearedBuffers
  BY DEF RecvAgain, clientVars
<1>2. Held \in 0 .. MaxBuf
  BY DEF IInv, TypeOK, Held
<1>3. Held' = Held
  BY <1>1, <1>2 DEF Held
<1>4. StreamShape' /\ PacketsMatch' /\ StreamLen' = StreamLen
      /\ NextStart' = NextStart
  BY <1>1, SameStream
<1>5. \A i \in 1 .. Held : recv_buffer'[i] = recv_buffer[recv_begin + i]
  BY <1>1, ClearedIsMoved DEF IInv
<1>6. HeldIsStream'
  BY <1>1, <1>2, <1>3, <1>4, <1>5 DEF IInv, HeldIsStream
<1>7. Incomplete'
  BY <1>1, <1>3 DEF IInv, Incomplete
<1>8. Quiet'
  BY <1>1 DEF Quiet
<1>9. InBounds'
  BY <1>1, <1>4 DEF IInv, InBounds
<1> QED
  BY <1>4, <1>6, <1>7, <1>8, <1>9 DEF IInv

(* Taking a frame keeps the invariant.                                     *)
LEMMA TakeFrameStep ==
    ASSUME IInv, TypeOK', TakeFrame
    PROVE  IInv'
<1> DEFINE k == Len(packets) + 1
           f == written[k]
<1>1. /\ k \in 1 .. Len(written)
      /\ LegalLen(f.len) /\ f.len <= Held /\ f.len \in Nat
      /\ f.start = NextStart /\ f.size = f.len
      /\ packets' = Append(packets, FrameBytes(f))
      /\ recv_begin' = recv_begin + f.len
  BY TakenFrame
<1>2. UNCHANGED <<written, arrived, taken, edge, peer, open, pc, recv_buffer,
                  recv_end>> /\ open /\ pc = "frames"
  BY DEF TakeFrame, clientVars
<1>3. /\ Len(packets) \in Nat /\ Len(written) \in Nat
      /\ taken \in Nat /\ Held \in Nat
      /\ recv_begin \in Nat /\ recv_end \in Nat
  BY LenProperties DEF IInv, TypeOK, Held
<1>4. FrameBytes(f) \in Seq(Int)
  <2>1. f.start \in Nat
    BY <1>1, FramesTyped DEF IInv
  <2> QED
    BY <1>1, <2>1 DEF FrameBytes
<1>5. /\ Len(packets') = k
      /\ \A n \in 1 .. Len(packets) : packets'[n] = packets[n]
      /\ packets'[k] = FrameBytes(f)
  BY <1>1, <1>4, AppendProperties DEF IInv, TypeOK
<1>6. StreamShape' /\ StreamLen' = StreamLen
  BY <1>2 DEF IInv, StreamShape, StreamLen
<1>7. PacketsMatch'
  <2>1. ASSUME NEW n \in 1 .. k
        PROVE  LegalLen(written[n].len) /\ packets'[n] = FrameBytes(written[n])
    <3>1. CASE n \in 1 .. Len(packets)
      BY <1>5, <3>1 DEF IInv, PacketsMatch
    <3>2. CASE n = k
      BY <1>1, <1>5, <3>2
    <3> QED
      BY <1>3, <3>1, <3>2
  <2> QED
    BY <1>1, <1>2, <1>3, <1>5, <2>1 DEF PacketsMatch, LegalLen, FrameBytes
<1>8. NextStart' = NextStart + f.len
  <2>1. CASE k < Len(written)
    <3>1. k \in 1 .. Len(written) - 1
      BY <1>1, <1>3, <2>1
    <3>2. written[k + 1].start = f.start + f.size
      BY <3>1 DEF IInv, StreamShape
    <3> QED
      BY <1>1, <1>2, <1>5, <2>1, <3>2 DEF NextStart
  <2>2. CASE k = Len(written)
    <3>1. StreamLen = f.start + f.size
      BY <1>1, <1>3, <2>2, StreamEnd DEF IInv
    <3> QED
      BY <1>1, <1>2, <1>3, <1>5, <1>6, <2>2, <3>1 DEF NextStart
  <2> QED
    BY <1>1, <1>3, <2>1, <2>2
<1>9. Held' = Held - f.len
  BY <1>1, <1>2, <1>3 DEF Held
<1>10. NextStart \in Nat /\ NextStart + Held = taken
  BY <1>1, <1>2, FramesTyped DEF IInv, HeldIsStream
<1>11. HeldIsStream'
  <2>1. ASSUME NEW i \in 1 .. Held - f.len
        PROVE  recv_buffer[recv_begin + f.len + i] = NextStart + f.len + i
    <3>1. f.len + i \in 1 .. Held
      BY <1>1, <1>3
    <3>2. recv_buffer[recv_begin + (f.len + i)] = NextStart + (f.len + i)
      BY <1>2, <3>1 DEF IInv, HeldIsStream
    <3>3. /\ recv_begin + (f.len + i) = recv_begin + f.len + i
          /\ NextStart + (f.len + i) = NextStart + f.len + i
      BY <1>1, <1>3, <1>10
    <3> QED
      BY <3>2, <3>3
  <2>2. NextStart' + Held' = taken'
    BY <1>1, <1>2, <1>3, <1>8, <1>9, <1>10
  <2> QED
    BY <1>1, <1>2, <1>8, <1>9, <2>1, <2>2 DEF HeldIsStream
<1>12. InBounds'
  BY <1>2, <1>6 DEF IInv, InBounds
<1> QED
  BY <1>2, <1>6, <1>7, <1>11, <1>12 DEF IInv, Incomplete, Quiet

(* Going back to recv() keeps the invariant.                               *)
LEMMA FrameIncompleteStep ==
    ASSUME IInv, TypeOK', FrameIncomplete
    PROVE  IInv'
<1>1. UNCHANGED <<written, packets, arrived, taken, edge, peer, open,
                  recv_buffer, recv_begin, recv_end>>
      /\ open /\ pc' = "recv"
  BY DEF FrameIncomplete, clientVars
<1>2. StreamShape' /\ PacketsMatch' /\ StreamLen' = StreamLen
      /\ NextStart' = NextStart
  BY <1>1, SameStream
<1>3. Held' = Held /\ Held \in Nat
  BY <1>1 DEF IInv, TypeOK, Held
<1>4. Incomplete'
  <2>1. CASE Held > HeadLen
    <3>1. /\ Len(packets) < Len(written)
          /\ packetLens = {written[Len(packets) + 1].len}
      BY <1>1, <2>1, HeadIsNext
    <3>2. PICK len \in packetLens : len > Held
      BY <2>1 DEF FrameIncomplete
    <3>3. len = written[Len(packets) + 1].len /\ len \in Int
      BY <3>1, <3>2, PacketLensTyped DEF IInv
    <3>4. Held < written[Len(packets) + 1].len
      BY <1>3, <3>2, <3>3
    <3> QED
      BY <1>1, <1>3, <3>1, <3>4 DEF Incomplete
  <2>2. CASE ~ (Held > HeadLen)
    BY <1>3, <2>2 DEF Incomplete
  <2> QED
    BY <2>1, <2>2
<1>5. HeldIsStream' /\ InBounds'
  BY <1>1, <1>2 DEF IInv, HeldIsStream, InBounds, Held
<1>6. Quiet'
  BY <1>1 DEF Quiet
<1> QED
  BY <1>2, <1>4, <1>5, <1>6 DEF IInv

-----------------------------------------------------------------------------
(* The initial state satisfies the invariant.                              *)
LEMMA IInvInit == Init => IInv
<1> SUFFICES ASSUME Init PROVE IInv
  OBVIOUS
<1>1. TypeOK
  BY TypeOKInit
<1>2. /\ written = <<>> /\ packets = <<>> /\ Len(written) = 0 /\ Len(packets) = 0
      /\ arrived = 0 /\ taken = 0 /\ recv_begin = 0 /\ recv_end = 0
      /\ peer = "open" /\ StreamLen = 0
  BY DEF Init, StreamLen
<1>3. StreamShape
  BY <1>2 DEF StreamShape
<1>4. PacketsMatch /\ InBounds
  BY <1>2 DEF PacketsMatch, InBounds
<1>5. NextStart = 0 /\ Held = 0
  BY <1>2 DEF NextStart, Held
<1>6. HeldIsStream /\ Incomplete /\ Quiet
  BY <1>2, <1>5 DEF HeldIsStream, Incomplete, Quiet
<1> QED
  BY <1>1, <1>3, <1>4, <1>6 DEF IInv

(* Every step keeps the invariant.                                         *)
LEMMA IInvStep ==
    ASSUME IInv, OverlapAsMemmove, [Next]_vars
    PROVE  IInv'
<1>1. TypeOK'
  BY TypeOKStep DEF IInv
<1>2. ASSUME NEW len \in Lens, ClientWrite(len) PROVE IInv'
  BY <1>1, <1>2, ClientWriteStep
<1>3. CASE (\E n \in 1 .. StreamLen : Arrive(n)) \/ ClientClose \/ ClientReset
  BY <1>1, <1>3, ClientOtherStep
<1>4. CASE Poll
  <2>1. UNCHANGED <<written, packets, arrived, taken, peer, open, recv_buffer,
                    recv_begin, recv_end>> /\ pc = "poll" /\ pc' = "recv"
    BY <1>4 DEF Poll, clientVars
  <2>2. StreamShape' /\ PacketsMatch' /\ StreamLen' = StreamLen
        /\ NextStart' = NextStart
    BY <2>1, SameStream
  <2> QED
    BY <1>1, <2>1, <2>2
       DEF IInv, InBounds, HeldIsStream, Incomplete, Quiet, Held
<1>5. CASE RecvData
  BY <1>1, <1>5, RecvDataStep
<1>6. CASE RecvAgain
  BY <1>1, <1>6, RecvAgainStep
<1>7. CASE RecvFails \/ IllegalFrame
  BY <1>1, <1>7, FailStep DEF RecvFails, IllegalFrame
<1>8. CASE TakeFrame
  BY <1>1, <1>8, TakeFrameStep
<1>9. CASE FrameIncomplete
  BY <1>1, <1>9, FrameIncompleteStep
<1>10. CASE UNCHANGED vars
  <2>1. UNCHANGED <<written, packets, arrived, taken, peer, open, recv_buffer,
                    recv_begin, recv_end, pc, edge>>
    BY <1>10 DEF vars, clientVars, deviceVars
  <2>2. StreamShape' /\ PacketsMatch' /\ StreamLen' = StreamLen
        /\ NextStart' = NextStart
    BY <2>1, SameStream
  <2> QED
    BY <1>1, <2>1, <2>2
       DEF IInv, InBounds, HeldIsStream, Incomplete, Quiet, Held
<1>11. CASE Client
  BY <1>2, <1>3, <1>11 DEF Client
<1>12. CASE Worker
  BY <1>4, <1>5, <1>6, <1>7, <1>8, <1>9, <1>12 DEF Worker
<1> QED
  BY <1>10, <1>11, <1>12 DEF Next

(* The invariant holds in every reachable state when overlapping copies    *)
(* act as memmove().                                                       *)
LEMMA Inductive ==
    ASSUME OverlapAsMemmove
    PROVE  Spec => []IInv
<1>1. IInv /\ [Next]_vars => IInv'
  BY IInvStep
<1> QED
  BY <1>1, IInvInit, PTL DEF Spec

(* The buffer holds the part of the stream that doRead() has not handed    *)
(* over, in order, and doRead() stands at the start of a frame.            *)
THEOREM StreamInOrder ==
    ASSUME OverlapAsMemmove
    PROVE  Spec => []HeldIsStream
<1>1. IInv => HeldIsStream
  BY DEF IInv
<1> QED
  BY <1>1, Inductive, PTL

(* With an edge-triggered descriptor, no byte waits for an event that will *)
(* not come.                                                               *)
THEOREM NoByteStranded ==
    ASSUME OverlapAsMemmove
    PROVE  Spec => []NothingStranded
<1>1. IInv => NothingStranded
  BY DEF IInv, Quiet, Incomplete, NothingStranded
<1> QED
  BY <1>1, Inductive, PTL

-----------------------------------------------------------------------------
(* A step that pushes no frame and writes none is a stutter of the         *)
(* channel, or cuts it.                                                    *)
LEMMA QuietStep ==
    ASSUME UNCHANGED <<written, packets>>, open \in BOOLEAN, open' \in BOOLEAN,
           open' => open
    PROVE  [Channel!Next]_(Channel!frameVars)
<1>1. [n \in 1 .. Len(written') |-> FrameBytes(written'[n])]
      = [n \in 1 .. Len(written) |-> FrameBytes(written[n])]
  BY DEF FrameBytes
<1>2. CASE open' = open
  BY <1>1, <1>2 DEF Channel!frameVars
<1>3. CASE open' # open
  <2>1. open = TRUE /\ open' = FALSE
    BY <1>3
  <2> QED
    BY <1>1, <2>1 DEF Channel!Next, Channel!Cut
<1> QED
  BY <1>2, <1>3

(* Writing a frame is a Write of the channel.                              *)
LEMMA WriteIsWrite ==
    ASSUME IInv, NEW len \in Lens, ClientWrite(len)
    PROVE  Channel!Write
<1> DEFINE k == Len(written)
           old == [n \in 1 .. k |-> FrameBytes(written[n])]
           new == [n \in 1 .. Len(written') |-> FrameBytes(written'[n])]
<1>1. /\ Len(written') = k + 1
      /\ \A n \in 1 .. k : written'[n] = written[n]
      /\ k \in Nat
  BY ClientWriteStream, FramesTyped DEF IInv
<1>2. UNCHANGED <<packets, open>>
  BY DEF ClientWrite, deviceVars
<1>3. Len(old) = k /\ Len(new) = k + 1
  BY <1>1
<1>4. \A n \in 1 .. k : new[n] = old[n]
  <2> TAKE n \in 1 .. k
  <2>1. n \in 1 .. Len(written') /\ written'[n] = written[n]
    BY <1>1
  <2>2. new[n] = FrameBytes(written'[n]) /\ old[n] = FrameBytes(written[n])
    BY <2>1
  <2> QED
    BY <2>1, <2>2
<1> DEFINE S == {new[n] : n \in 1 .. k + 1}
<1> HIDE DEF old, new
<1>a. new \in [1 .. k + 1 -> S] /\ old \in [1 .. k -> S]
  <2>1. new = [n \in 1 .. k + 1 |-> new[n]] /\ old = [n \in 1 .. k |-> old[n]]
    BY <1>1 DEF new, old
  <2>2. \A n \in 1 .. k : old[n] \in S
    BY <1>1, <1>4
  <2> QED
    BY <2>1, <2>2
<1>c. new \in Seq(S) /\ old \in Seq(S)
  <2>1. k \in Nat /\ k + 1 \in Nat
    BY <1>1
  <2> HIDE DEF S
  <2> QED
    BY <1>a, <2>1, SeqDef
<1>5. new = Append(old, new[k + 1])
  <2>1. new[k + 1] \in S
    BY <1>1
  <2>2. /\ Append(old, new[k + 1]) \in Seq(S)
        /\ Len(Append(old, new[k + 1])) = k + 1
        /\ Append(old, new[k + 1])[k + 1] = new[k + 1]
        /\ \A n \in 1 .. k : Append(old, new[k + 1])[n] = old[n]
    BY <1>3, <1>c, <2>1, AppendProperties
  <2>3. \A n \in 1 .. k + 1 : Append(old, new[k + 1])[n] = new[n]
    BY <1>1, <1>4, <2>2
  <2> QED
    BY <1>3, <1>c, <2>2, <2>3, SeqEqual
<1>6. new = Append(old, new[Len(old) + 1])
  BY <1>3, <1>5
<1> QED
  BY <1>2, <1>3, <1>6 DEF Channel!Write, old, new

(* Taking a frame is a Hand of the channel.                                *)
LEMMA TakeIsHand ==
    ASSUME IInv, TakeFrame
    PROVE  Channel!Hand
<1> DEFINE k == Len(packets) + 1
           old == [n \in 1 .. Len(written) |-> FrameBytes(written[n])]
<1>1. k \in 1 .. Len(written) /\ packets' = Append(packets, FrameBytes(written[k]))
  BY TakenFrame
<1>2. UNCHANGED <<written, open>> /\ open
  BY DEF TakeFrame, clientVars
<1>3. Len(written) \in Nat /\ Len(packets) \in Nat
  BY LenProperties DEF IInv, TypeOK
<1>4. Len(old) = Len(written) /\ old[k] = FrameBytes(written[k])
  BY <1>1, <1>3
<1>5. [n \in 1 .. Len(written') |-> FrameBytes(written'[n])] = old
  BY <1>2 DEF FrameBytes
<1> QED
  BY <1>1, <1>2, <1>3, <1>4, <1>5 DEF Channel!Hand

(* doRead() implements the channel of frames: what main is handed is what  *)
(* the client wrote, frame by frame.                                       *)
THEOREM ReadImplementsChannel ==
    ASSUME OverlapAsMemmove
    PROVE  Spec => ImplementsFrameChannel
<1>1. Init => Channel!Init
  BY DEF Init, Channel!Init
<1>2. ASSUME IInv, [Next]_vars PROVE [Channel!Next]_(Channel!frameVars)
  <2>0. open \in BOOLEAN /\ open' \in BOOLEAN
    BY <1>2, TypeOKStep DEF IInv, TypeOK
  <2>1. ASSUME NEW len \in Lens, ClientWrite(len)
        PROVE  [Channel!Next]_(Channel!frameVars)
    BY <1>2, <2>1, WriteIsWrite DEF Channel!Next
  <2>2. CASE TakeFrame
    BY <1>2, <2>2, TakeIsHand DEF Channel!Next
  <2>3. CASE RecvFails \/ IllegalFrame
    <3>1. UNCHANGED <<written, packets>> /\ (open' => open)
      BY <2>3 DEF RecvFails, IllegalFrame, Fail, clientVars
    <3> QED
      BY <2>0, <3>1, QuietStep
  <2>4. CASE Poll \/ RecvData \/ RecvAgain \/ FrameIncomplete \/ UNCHANGED vars
    <3>1. UNCHANGED <<written, packets, open>>
      BY <2>4 DEF Poll, RecvData, RecvAgain, FrameIncomplete, vars,
                  clientVars, deviceVars
    <3> QED
      BY <2>0, <3>1, QuietStep
  <2>5. CASE (\E n \in 1 .. StreamLen : Arrive(n)) \/ ClientClose \/ ClientReset
    <3>1. UNCHANGED <<written, packets, open>>
      BY <2>5 DEF Arrive, ClientClose, ClientReset, deviceVars
    <3> QED
      BY <2>0, <3>1, QuietStep
  <2>6. CASE Client
    BY <2>1, <2>5, <2>6 DEF Client
  <2>7. CASE Worker
    BY <2>2, <2>3, <2>4, <2>7 DEF Worker
  <2> QED
    BY <1>2, <2>4, <2>6, <2>7 DEF Next
<1> QED
  BY <1>1, <1>2, Inductive, PTL DEF Spec, ImplementsFrameChannel, Channel!Spec

-----------------------------------------------------------------------------
(* Why a connection is given up.  Behind the FIN nothing more comes.       *)
ClosedIsWhole == peer = "closed" => arrived = StreamLen

LEMMA ClosedIsWholeStep ==
    ASSUME ClosedIsWhole, [Next]_vars
    PROVE  ClosedIsWhole'
<1>1. CASE peer = "open"
  <2>1. CASE ClientClose
    BY <2>1 DEF ClientClose, ClosedIsWhole, StreamLen
  <2>2. CASE ~ ClientClose
    <3>1. peer' # "closed"
      BY <1>1, <2>2
         DEF Next, Client, Worker, ClientWrite, Arrive, ClientReset, Poll, RecvData, RecvAgain,
             RecvFails, TakeFrame, IllegalFrame, FrameIncomplete, Fail, vars, clientVars
    <3> QED
      BY <3>1 DEF ClosedIsWhole
  <2> QED
    BY <2>1, <2>2
<1>2. CASE peer # "open"
  <2>1. UNCHANGED <<written, arrived>> /\ (peer' = "closed" => peer = "closed")
    BY <1>2
       DEF Next, Client, Worker, ClientWrite, Arrive, ClientClose, ClientReset, Poll, RecvData,
           RecvAgain, RecvFails, TakeFrame, IllegalFrame, FrameIncomplete, Fail, vars, clientVars
  <2> QED
    BY <2>1 DEF ClosedIsWhole, StreamLen
<1> QED
  BY <1>1, <1>2

(* At the end of the stream nothing is left but a bare head, or a frame    *)
(* whose length is illegal.                                                *)
LEMMA EndOfStream ==
    ASSUME IInv, open, pc = "recv", taken = StreamLen, Len(packets) < Len(written),
           LegalLen(written[Len(packets) + 1].len)
    PROVE  written[Len(packets) + 1].len = HeadLen
<1> DEFINE k == Len(packets) + 1
           f == written[k]
<1>1. /\ Len(packets) \in Nat /\ k \in 1 .. Len(written)
      /\ f.start \in Nat /\ f.len \in Int /\ f.size \in Nat
      /\ StreamLen \in Nat /\ HeadLen \in Nat /\ Held \in Int
  BY FramesTyped, StreamLenTyped, LenProperties, SizeAssumption DEF IInv, TypeOK, Held
<1>2. f.size = f.len /\ f.start + f.size <= StreamLen /\ f.len >= HeadLen
  BY <1>1 DEF IInv, StreamShape, LegalLen
<1>3. f.start + Held = StreamLen
  <2>1. NextStart = f.start
    BY DEF NextStart
  <2> QED
    BY <2>1 DEF IInv, HeldIsStream
<1>4. Held >= f.len
  BY <1>1, <1>2, <1>3
<1>5. Held <= HeadLen
  BY <1>1, <1>4 DEF IInv, Incomplete
<1> QED
  BY <1>1, <1>2, <1>4, <1>5

(* doRead() gives a connection up only when the client reset it, sent an   *)
(* illegal length next, or closed it and every frame has been pushed (but  *)
(* for a bare head); never because the buffer was full, which recv() could *)
(* not be told from the end of the stream (EpollHandler.cpp:357-430).      *)
THEOREM OnlyCutForCause ==
    ASSUME OverlapAsMemmove
    PROVE  Spec => CutForCause
<1>1. Init => NeverFull /\ ClosedIsWhole
  BY SizeAssumption DEF Init, NeverFull, ClosedIsWhole, Held
<1>2. IInv /\ NeverFull /\ ClosedIsWhole /\ [Next]_vars => NeverFull' /\ ClosedIsWhole'
  BY NeverFullStep, ClosedIsWholeStep DEF IInv
<1>3. ASSUME IInv, NeverFull, ClosedIsWhole, [Next]_vars, open, ~ open'
      PROVE  \/ peer = "reset"
             \/ /\ Len(packets) < Len(written)
                /\ ~ LegalLen(written[Len(packets) + 1].len)
             \/ /\ peer = "closed"
                /\ \/ Len(packets) = Len(written)
                   \/ written[Len(packets) + 1].len = HeadLen
  <2>1. RecvFails \/ IllegalFrame
    BY <1>3
       DEF Next, Client, Worker, ClientWrite, Arrive, ClientClose, ClientReset, Poll, RecvData,
           RecvAgain, TakeFrame, FrameIncomplete, vars, deviceVars
  <2>2. CASE IllegalFrame
    <3>1. PICK len \in packetLens : Held > HeadLen /\ ~ LegalLen(len)
      BY <2>2 DEF IllegalFrame
    <3> QED
      BY <1>3, <3>1, HeadIsNext
  <2>3. CASE RecvFails /\ peer # "reset"
    <3>1. pc = "recv" /\ Room # 0
      <4>1. pc = "recv" /\ Held < MaxBuf
        BY <1>3, <2>3 DEF RecvFails, NeverFull
      <4>2. Held \in Int /\ MaxBuf \in Nat
        BY <1>3, SizeAssumption DEF IInv, TypeOK, Held
      <4> QED
        BY <4>1, <4>2 DEF Room
    <3>2. peer = "closed" /\ arrived = taken
      BY <2>3, <3>1 DEF RecvFails
    <3>3. taken = StreamLen
      BY <1>3, <3>2 DEF ClosedIsWhole
    <3>4. CASE Len(packets) < Len(written)
      BY <1>3, <3>1, <3>2, <3>3, <3>4, EndOfStream
    <3>5. CASE ~ (Len(packets) < Len(written))
      <4>1. Len(packets) <= Len(written) /\ Len(packets) \in Nat /\ Len(written) \in Nat
        BY <1>3, LenProperties DEF IInv, PacketsMatch, TypeOK
      <4> QED
        BY <3>2, <3>5, <4>1
    <3> QED
      BY <3>4, <3>5
  <2> QED
    BY <2>1, <2>2, <2>3
<1> QED
  BY <1>1, <1>2, <1>3, Inductive, PTL DEF Spec, CutForCause

=============================================================================
