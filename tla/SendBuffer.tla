----------------------------- MODULE SendBuffer -----------------------------
(***************************************************************************)
(* The send path of one connection: WritePacketToConn() puts a message,    *)
(* behind its length, into DEVICE_INFO::send_buffer, and doWrite() passes  *)
(* the buffer to the kernel, which takes as much as its own buffer holds.  *)
(* doWrite() runs again when epoll reports EPOLLOUT (edge-triggered: once  *)
(* after the kernel's buffer was found full and has room again).           *)
(*                                                                         *)
(* A byte is its position, from 1, in the stream of framed messages.  `pc` *)
(* is where the worker stands:                                             *)
(*   "loop"   in its frame loop, outside doWrite()                         *)
(*   "write"  at the top of the loop of doWrite()                          *)
(***************************************************************************)
EXTENDS Integers, Sequences

CONSTANTS
    HeadLen,     \* bytes of the length put before a message (4)
    MaxBuf,      \* MAX_SEND_BUFFER_LEN (4096)
    KernelBuf,   \* bytes the kernel holds for a client that does not read
    MaxBytes     \* bound: how many bytes are framed, in all

ASSUME SizeAssumption ==
    /\ HeadLen \in Nat \ {0} /\ MaxBuf \in Nat /\ HeadLen < MaxBuf
    /\ KernelBuf \in Nat \ {0}
ASSUME BoundAssumption == MaxBytes \in Nat

VARIABLES
    framed,      \* history: how many bytes write() has put into the buffer
    out,         \* history: the bytes send() has passed to the kernel
    read,        \* how many bytes of `out` the client has read
    reset,       \* the client has reset the connection
    noSpace,     \* send() found the kernel's buffer full (SOCK_NOSPACE)
    edge,        \* epoll has EPOLLOUT to report
    pc,          \* where the worker stands
    send_buffer,
    send_begin,
    send_end,
    open         \* the device exists

bufferVars == <<send_buffer, send_begin, send_end>>
vars == <<framed, out, read, reset, noSpace, edge, pc, bufferVars, open>>

-----------------------------------------------------------------------------
Held == send_end - send_begin

KernelRoom == KernelBuf - (Len(out) - read)

(* Mutated form: the copy forgets the last byte. *)
Moved_OneShort ==
    [i \in 1 .. MaxBuf |->
        IF i < Held THEN send_buffer[send_begin + i] ELSE send_buffer[i]]

(* DEVICE_INFO::clear_Send_buff(): the bytes held move to the front.       *)
(* memcpy() on the overlapping regions is taken to act as memmove(), see   *)
(* OverlapAsMemmove in RecvBuffer.                                         *)
Moved ==
    [i \in 1 .. MaxBuf |->
        IF i <= Held THEN send_buffer[send_begin + i] ELSE send_buffer[i]]

ClearSendBuff ==
    /\ send_buffer' = Moved
    /\ send_begin' = 0
    /\ send_end' = Held

(* A new device is registered for EPOLLOUT, which is reported at once. *)
Init ==
    /\ framed = 0 /\ out = <<>> /\ read = 0
    /\ reset = FALSE /\ noSpace = FALSE /\ edge = TRUE
    /\ pc = "loop"
    /\ send_buffer = [i \in 1 .. MaxBuf |-> 0]
    /\ send_begin = 0 /\ send_end = 0
    /\ open = TRUE

-----------------------------------------------------------------------------
(* The client. *)

(* The client reads, and wakes a sender that found the buffer full. *)
ClientRead(n) ==
    /\ ~ reset
    /\ n \in 1 .. Len(out) - read
    /\ read' = read + n
    /\ edge' = (edge \/ (noSpace /\ open))
    /\ noSpace' = FALSE
    /\ UNCHANGED <<framed, out, reset, pc, bufferVars, open>>

ClientReset ==
    /\ ~ reset
    /\ reset' = TRUE
    /\ edge' = open
    /\ UNCHANGED <<framed, out, read, noSpace, pc, bufferVars, open>>

-----------------------------------------------------------------------------
(* The worker. *)

(* The device is removed, its buffer with it. *)
RemoveDevice ==
    /\ open' = FALSE
    /\ edge' = FALSE
    /\ pc' = "loop"
    /\ UNCHANGED <<framed, out, read, reset, noSpace, bufferVars>>

(* Mutated form: write() checks for the message without its length. *)
RoomFor_HeadForgotten(size) == size <= MaxBuf - Held

(* Room for a message in write(), after clear_Send_buff(). *)
RoomFor(size) == size + HeadLen <= MaxBuf - Held

(* WritePacketToConn(): write() finds no room, and the connection is       *)
(* closed.                                                                 *)
WriteRefused(size) ==
    /\ open /\ pc = "loop"
    /\ ~ RoomFor(size)
    /\ RemoveDevice

(* WritePacketToConn(): write() appends the length and the message, and    *)
(* doWrite() is called.                                                    *)
WriteAccepted(size) ==
    /\ open /\ pc = "loop"
    /\ framed + HeadLen + size <= MaxBytes
    /\ RoomFor(size)
    /\ framed' = framed + HeadLen + size
    /\ send_buffer' =
          [i \in 1 .. MaxBuf |->
              IF i > Held /\ i <= Held + HeadLen + size
              THEN framed + (i - Held) ELSE Moved[i]]
    /\ send_begin' = 0
    /\ send_end' = Held + HeadLen + size
    /\ pc' = "write"
    /\ UNCHANGED <<out, read, reset, noSpace, edge, open>>

(* Mutated form: EPOLLOUT is only handled when nothing waits. *)
WriteEvent_Ignored ==
    /\ open /\ pc = "loop" /\ edge
    /\ edge' = FALSE
    /\ UNCHANGED <<framed, out, read, reset, noSpace, pc, bufferVars, open>>

(* doEpollEvents(): EPOLLOUT calls doWrite(), which returns at once when   *)
(* nothing is held.                                                        *)
WriteEvent ==
    /\ open /\ pc = "loop" /\ edge
    /\ edge' = FALSE
    /\ pc' = IF Held > 0 THEN "write" ELSE "loop"
    /\ UNCHANGED <<framed, out, read, reset, noSpace, bufferVars, open>>

(* EPOLLIN is reported, and EPOLLOUT with it when the kernel has room. *)
ReadEvent ==
    /\ open /\ pc = "loop" /\ ~ reset /\ KernelRoom > 0
    /\ edge' = FALSE
    /\ pc' = IF Held > 0 THEN "write" ELSE "loop"
    /\ UNCHANGED <<framed, out, read, reset, noSpace, bufferVars, open>>

(* Mutated form: a partial send() is taken as the end of the work. *)
SendTakes_Once ==
    /\ open /\ pc = "write" /\ ~ reset
    /\ \E n \in 1 .. Held :
          /\ n <= KernelRoom
          /\ out' = out \o [i \in 1 .. n |-> Moved[i]]
          /\ send_buffer' = Moved
          /\ send_begin' = n
          /\ send_end' = Held
    /\ pc' = "loop"
    /\ UNCHANGED <<framed, read, reset, noSpace, edge, open>>

(* clear_Send_buff(), and send() takes n bytes. *)
SendTakes ==
    /\ open /\ pc = "write" /\ ~ reset
    /\ \E n \in 1 .. Held :
          /\ n <= KernelRoom
          /\ out' = out \o [i \in 1 .. n |-> Moved[i]]
          /\ send_buffer' = Moved
          /\ send_begin' = n
          /\ send_end' = Held
    /\ UNCHANGED <<framed, read, reset, noSpace, edge, pc, open>>

(* clear_Send_buff() leaves nothing to send. *)
SendDone ==
    /\ open /\ pc = "write"
    /\ Held = 0
    /\ ClearSendBuff
    /\ pc' = "loop"
    /\ UNCHANGED <<framed, out, read, reset, noSpace, edge, open>>

(* clear_Send_buff(), and send() returns EAGAIN. *)
SendAgain ==
    /\ open /\ pc = "write" /\ ~ reset
    /\ Held > 0 /\ KernelRoom = 0
    /\ ClearSendBuff
    /\ noSpace' = TRUE
    /\ pc' = "loop"
    /\ UNCHANGED <<framed, out, read, reset, edge, open>>

(* send() returns an error. *)
SendFails ==
    /\ open /\ pc = "write" /\ reset
    /\ Held > 0
    /\ RemoveDevice

-----------------------------------------------------------------------------
Message == 1 .. MaxBuf      \* the sizes task_sendPacket::InitData() accepts

Request ==
    \E size \in Message : WriteAccepted(size) \/ WriteRefused(size)

DoWrite == WriteEvent \/ SendTakes \/ SendDone \/ SendAgain \/ SendFails

ClientReads == \E n \in 1 .. Len(out) : ClientRead(n)

Next == Request \/ ReadEvent \/ DoWrite \/ ClientReads \/ ClientReset

Spec == Init /\ [][Next]_vars

(* The worker thread never stops.  That the client reads is assumed for    *)
(* Flushed only; that it sends, which would wake doWrite() too, is not.    *)
FairSpec == Spec /\ WF_vars(DoWrite) /\ WF_vars(ClientReads)

-----------------------------------------------------------------------------
(* Type correctness; the marks never leave the buffer. *)
TypeOK ==
    /\ framed \in Nat /\ read \in Nat
    /\ out \in Seq(Nat)
    /\ read <= Len(out)
    /\ reset \in BOOLEAN /\ noSpace \in BOOLEAN
    /\ edge \in BOOLEAN /\ open \in BOOLEAN
    /\ pc \in {"loop", "write"}
    /\ send_buffer \in [1 .. MaxBuf -> Nat]
    /\ send_begin \in 0 .. MaxBuf /\ send_end \in 0 .. MaxBuf
    /\ send_begin <= send_end

(* What the kernel was given is the stream of framed messages up to some   *)
(* point, and what is held is the rest: partial sends and moves of the     *)
(* buffer lose, repeat and reorder nothing.                                *)
OutIsStream ==
    /\ \A i \in 1 .. Len(out) : out[i] = i
    /\ \A i \in 1 .. Held : send_buffer[send_begin + i] = Len(out) + i
    /\ Len(out) + Held = framed

(* Outside doWrite(), bytes are held only while epoll has EPOLLOUT to      *)
(* report or will have when the client reads: they never wait for an event *)
(* that will not come.                                                     *)
NothingStranded ==
    open /\ pc = "loop" /\ Held > 0 =>
        edge \/ (noSpace /\ KernelRoom = 0)

(* Every byte framed reaches a client that reads, unless the connection is *)
(* closed.                                                                 *)
Flushed ==
    \A n \in 1 .. MaxBytes : (framed >= n) ~> (read >= n \/ reset \/ ~ open)

=============================================================================
