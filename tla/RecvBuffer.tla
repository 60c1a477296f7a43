----------------------------- MODULE RecvBuffer -----------------------------
(***************************************************************************)
(* EpollHandler::doRead on one connection: the bytes of the stream collect *)
(* in DEVICE_INFO::recv_buffer, whole frames leave it as packet tasks, and *)
(* what is left moves to the front before the next recv().                 *)
(*                                                                         *)
(* A byte is its position in the client's stream, so a byte that is lost,  *)
(* repeated or moved to a wrong place is visible; positions and indices    *)
(* count from 1.  `pc` is where the worker stands:                         *)
(*   "poll"    outside doRead(), before the next epoll_wait()              *)
(*   "recv"    at the top of the outer loop of doRead()                    *)
(*   "frames"  at the test of its inner loop                               *)
(*                                                                         *)
(* The descriptor is edge-triggered (EPOLLET): `edge` says that something  *)
(* arrived since epoll_wait() last reported it.                            *)
(***************************************************************************)
EXTENDS Integers, Sequences

CONSTANTS
    HeadLen,     \* bytes of the length at the start of a frame (4)
    MaxBuf,      \* MAX_RECV_BUFFER_LEN (4096)
    OverlapAsMemmove,  \* memcpy() with overlapping regions acts as memmove()
    Lens,        \* the lengths clients put at the start of a frame
    MaxFrames    \* bound: how many frames the client writes

ASSUME SizeAssumption ==
    HeadLen \in Nat \ {0} /\ MaxBuf \in Nat /\ HeadLen < MaxBuf
ASSUME OverlapAssumption == OverlapAsMemmove \in BOOLEAN
ASSUME FramesAssumption == Lens \subseteq Int /\ MaxFrames \in Nat

VARIABLES
    written,     \* history: the frames the client wrote
    peer,        \* the client's end: "open", "closed" (FIN) or "reset" (RST)
    arrived,     \* how many bytes of the stream have reached this machine
    edge,        \* epoll has an event to report
    taken,       \* how many bytes recv() has returned
    pc,          \* where the worker stands
    recv_buffer,
    recv_begin,
    recv_end,
    packets,     \* history: the contents of the packet tasks pushed to main
    open         \* the device exists

clientVars == <<written, peer, arrived>>
deviceVars == <<taken, pc, recv_buffer, recv_begin, recv_end, packets, open>>
vars == <<clientVars, edge, deviceVars>>

-----------------------------------------------------------------------------
(* The client's stream.  A frame whose length field is illegal is followed *)
(* by one more byte, enough for doRead() to look at it.                    *)

LegalLen(len) == len >= HeadLen /\ len <= MaxBuf

StreamLen ==
    IF written = <<>> THEN 0
    ELSE written[Len(written)].start + written[Len(written)].size

NewFrame(len) ==
    [start |-> StreamLen, len |-> len,
     size |-> IF LegalLen(len) THEN len ELSE HeadLen + 1]

FrameBytes(f) == [i \in 1 .. f.len |-> f.start + i]

(* A byte that an undefined memcpy() left in the buffer. *)
Unknown == -1

Held == recv_end - recv_begin

(* The lengths that reading an int at recv_begin can give: what the client *)
(* wrote when the bytes there are the head of a frame, anything otherwise. *)
HeadOf(f) ==
    \A i \in 1 .. HeadLen : recv_buffer[recv_begin + i] = f.start + i

packetLens ==
    IF \E n \in DOMAIN written : HeadOf(written[n])
    THEN {written[n].len : n \in {m \in DOMAIN written : HeadOf(written[m])}}
    ELSE 0 .. MaxBuf + 1

(* DEVICE_INFO::clear_Recv_buff(): the bytes held move to the front.  The  *)
(* two regions may overlap, and memcpy() then need not copy them right.    *)
Moved ==
    [i \in 1 .. MaxBuf |->
        IF i <= Held THEN recv_buffer[recv_begin + i] ELSE recv_buffer[i]]

Garbled ==
    [i \in 1 .. MaxBuf |-> IF i <= Held THEN Unknown ELSE recv_buffer[i]]

ClearedBuffers ==
    IF recv_begin = 0 THEN {recv_buffer}
    ELSE IF Held <= recv_begin \/ OverlapAsMemmove THEN {Moved}
    ELSE {Moved, Garbled}

Init ==
    /\ written = <<>> /\ peer = "open" /\ arrived = 0
    /\ edge = FALSE
    /\ taken = 0
    /\ pc = "poll"
    /\ recv_buffer = [i \in 1 .. MaxBuf |-> Unknown]
    /\ recv_begin = 0 /\ recv_end = 0
    /\ packets = <<>>
    /\ open = TRUE

-----------------------------------------------------------------------------
(* The client and the network. *)

ClientWrite(len) ==
    /\ peer = "open"
    /\ Len(written) < MaxFrames
    /\ written' = Append(written, NewFrame(len))
    /\ UNCHANGED <<peer, arrived, edge, deviceVars>>

(* TCP delivers the stream in pieces of any size. *)
Arrive(n) ==
    /\ peer = "open"
    /\ n \in 1 .. StreamLen - arrived
    /\ arrived' = arrived + n
    /\ edge' = open
    /\ UNCHANGED <<written, peer, deviceVars>>

(* The client closes its end; its FIN arrives behind all it wrote. *)
ClientClose ==
    /\ peer = "open"
    /\ arrived = StreamLen
    /\ peer' = "closed"
    /\ edge' = open
    /\ UNCHANGED <<written, arrived, deviceVars>>

(* A reset discards what recv() has not returned yet. *)
ClientReset ==
    /\ peer # "reset"
    /\ peer' = "reset"
    /\ edge' = open
    /\ UNCHANGED <<written, arrived, deviceVars>>

-----------------------------------------------------------------------------
(* doRead() *)

(* epoll_wait() reports EPOLLIN and doRead() is called. *)
Poll ==
    /\ open /\ pc = "poll" /\ edge
    /\ edge' = FALSE
    /\ pc' = "recv"
    /\ UNCHANGED <<clientVars, taken, recv_buffer, recv_begin, recv_end,
                   packets, open>>

(* The device is removed; its buffer goes with it. *)
Fail ==
    /\ open' = FALSE
    /\ edge' = FALSE
    /\ pc' = "poll"
    /\ UNCHANGED <<clientVars, taken, recv_buffer, recv_begin, recv_end,
                   packets>>

(* Mutated form: recv() is always offered the whole buffer. *)
Room_WholeBuffer == MaxBuf

(* Room for recv() once clear_Recv_buff() has moved the bytes held. *)
Room == MaxBuf - Held

(* clear_Recv_buff(), and recv() returns n > 0 bytes. *)
RecvData ==
    /\ open /\ pc = "recv" /\ peer # "reset"
    /\ \E n \in 1 .. Room :
          /\ n = arrived - taken \/ (n = Room /\ n < arrived - taken)
          /\ \E cleared \in ClearedBuffers :
                recv_buffer' =
                    [i \in 1 .. MaxBuf |->
                        IF i \in Held + 1 .. Held + n
                        THEN taken + (i - Held) ELSE cleared[i]]
          /\ taken' = taken + n
          /\ recv_end' = Held + n
    /\ recv_begin' = 0
    /\ pc' = "frames"
    /\ UNCHANGED <<clientVars, edge, packets, open>>

(* clear_Recv_buff(), and recv() returns EAGAIN. *)
RecvAgain ==
    /\ open /\ pc = "recv" /\ peer = "open"
    /\ Room > 0 /\ arrived = taken
    /\ recv_buffer' \in ClearedBuffers
    /\ recv_end' = Held
    /\ recv_begin' = 0
    /\ pc' = "poll"
    /\ UNCHANGED <<clientVars, edge, taken, packets, open>>

(* recv() returns another error, the end of the stream, or 0 because it    *)
(* was given no room; doRead() cannot tell the last two apart.             *)
RecvFails ==
    /\ open /\ pc = "recv"
    /\ \/ peer = "reset"
       \/ peer = "closed" /\ arrived = taken
       \/ Room = 0
    /\ Fail

(* Mutated form: the length of a frame is taken not to count its head. *)
TakeFrame_Headless ==
    /\ open /\ pc = "frames"
    /\ Held > HeadLen
    /\ \E len \in packetLens :
          /\ LegalLen(len)
          /\ len <= Held
          /\ packets' = Append(packets,
                [i \in 1 .. len - HeadLen |-> recv_buffer[recv_begin + HeadLen + i]])
          /\ recv_begin' = recv_begin + len
    /\ UNCHANGED <<clientVars, edge, taken, pc, recv_buffer, recv_end, open>>

(* A whole frame is in the buffer: it goes to main as a packet task. *)
TakeFrame ==
    /\ open /\ pc = "frames"
    /\ Held > HeadLen
    /\ \E len \in packetLens :
          /\ LegalLen(len)
          /\ len <= Held
          /\ packets' = Append(packets,
                [i \in 1 .. len |-> recv_buffer[recv_begin + i]])
          /\ recv_begin' = recv_begin + len
    /\ UNCHANGED <<clientVars, edge, taken, pc, recv_buffer, recv_end, open>>

(* Mutated form: a frame that fills the whole buffer is taken as too long. *)
IllegalFrame_FullBuffer ==
    /\ open /\ pc = "frames"
    /\ Held > HeadLen
    /\ \E len \in packetLens : len >= MaxBuf \/ len < HeadLen
    /\ Fail

(* The length is illegal: doRead() returns false. *)
IllegalFrame ==
    /\ open /\ pc = "frames"
    /\ Held > HeadLen
    /\ \E len \in packetLens : ~ LegalLen(len)
    /\ Fail

(* Mutated form: doRead() stops at the first incomplete frame, and does    *)
(* not call recv() until it returns EAGAIN.                                *)
FrameIncomplete_ReadsOnce ==
    /\ open /\ pc = "frames"
    /\ Held > HeadLen => \E len \in packetLens : LegalLen(len) /\ len > Held
    /\ pc' = "poll"
    /\ UNCHANGED <<clientVars, edge, taken, recv_buffer, recv_begin, recv_end,
                   packets, open>>

(* Mutated form: lengths are not checked against the size of the buffer,   *)
(* and the loop waits for the rest of the frame.                           *)
FrameIncomplete_TooLong ==
    /\ open /\ pc = "frames"
    /\ Held > HeadLen => \E len \in packetLens : len > Held
    /\ pc' = "recv"
    /\ UNCHANGED <<clientVars, edge, taken, recv_buffer, recv_begin, recv_end,
                   packets, open>>

(* No whole frame is left; doRead() calls recv() again. *)
FrameIncomplete ==
    /\ open /\ pc = "frames"
    /\ Held > HeadLen => \E len \in packetLens : LegalLen(len) /\ len > Held
    /\ pc' = "recv"
    /\ UNCHANGED <<clientVars, edge, taken, recv_buffer, recv_begin, recv_end,
                   packets, open>>

-----------------------------------------------------------------------------
Client ==
    \/ \E len \in Lens : ClientWrite(len)
    \/ \E n \in 1 .. StreamLen : Arrive(n)
    \/ ClientClose
    \/ ClientReset

Worker ==
    \/ Poll \/ RecvData \/ RecvAgain \/ RecvFails
    \/ TakeFrame \/ IllegalFrame \/ FrameIncomplete

Next == Client \/ Worker

Spec == Init /\ [][Next]_vars

(* The thread of the worker never stops; nothing is assumed of the client. *)
FairSpec == Spec /\ WF_vars(Worker)

-----------------------------------------------------------------------------
FrameRecord == [start : Nat, len : Int, size : Nat]

(* Type correctness; the marks never leave the buffer. *)
TypeOK ==
    /\ written \in Seq(FrameRecord)
    /\ peer \in {"open", "closed", "reset"}
    /\ arrived \in Nat /\ taken \in Nat
    /\ edge \in BOOLEAN /\ open \in BOOLEAN
    /\ pc \in {"poll", "recv", "frames"}
    /\ recv_buffer \in [1 .. MaxBuf -> Int]
    /\ recv_begin \in 0 .. MaxBuf /\ recv_end \in 0 .. MaxBuf
    /\ recv_begin <= recv_end
    /\ packets \in Seq(Seq(Int))

(* Whatever memcpy() does and whatever the client writes, doRead() never   *)
(* calls recv() without room, which would look like the end of the stream. *)
RecvHasRoom == open /\ pc = "recv" => Held < MaxBuf

(* The bytes held are the last ones recv() returned, in the order of the   *)
(* stream, and doRead() stands at the start of the first frame that has    *)
(* not been pushed.                                                        *)
NextStart ==
    IF Len(packets) < Len(written) THEN written[Len(packets) + 1].start
    ELSE StreamLen

HeldIsStream ==
    open =>
        /\ \A i \in 1 .. Held :
              recv_buffer[recv_begin + i] = NextStart + i
        /\ NextStart + Held = taken

(* While epoll has nothing to report, everything that arrived has been     *)
(* read and what is held is less than a frame, or the bare head of one:    *)
(* no byte waits for an event that will not come.                          *)
NothingStranded ==
    open /\ pc = "poll" /\ ~ edge =>
        /\ peer = "open"
        /\ taken = arrived
        /\ \/ Held <= HeadLen
           \/ Held < written[Len(packets) + 1].len

(* doRead() gives a connection up only when the client reset it, when the  *)
(* next frame has an illegal length, or when the client closed it and      *)
(* every frame has been pushed (but for a bare head at the very end, which *)
(* the `> 4` of the inner loop leaves in the buffer).                      *)
CutForCause ==
    [][open /\ ~ open' =>
          \/ peer = "reset"
          \/ /\ Len(packets) < Len(written)
             /\ ~ LegalLen(written[Len(packets) + 1].len)
          \/ /\ peer = "closed"
             /\ \/ Len(packets) = Len(written)
                \/ written[Len(packets) + 1].len = HeadLen]_vars

(* Every frame that has arrived, and is more than a head or is followed by *)
(* another byte, is pushed to main in the end unless the connection is     *)
(* given up.                                                               *)
Arrived(n) ==
    /\ n <= Len(written)
    /\ LET f == written[n]
       IN  /\ f.start + f.size <= arrived
           /\ f.len > HeadLen \/ f.start + f.size < arrived

FramesPushed ==
    \A n \in 1 .. MaxFrames : Arrived(n) ~> (Len(packets) >= n \/ ~ open)

(* The frames pushed to main are the frames the client wrote, whole, in    *)
(* order and once each.                                                    *)
Channel == INSTANCE FrameChannel WITH
    written <- [n \in 1 .. Len(written) |-> FrameBytes(written[n])],
    handed  <- packets,
    cut     <- ~ open

ImplementsFrameChannel == Channel!Spec

=============================================================================
