------------------------ MODULE ConnLifecycleProofs -------------------------
(***************************************************************************)
(* Proofs about ConnLifecycle for every number of threads, descriptors,    *)
(* connections and sessions.                                               *)
(***************************************************************************)
EXTENDS ConnLifecycle, SequenceTheorems, FiniteSetTheorems, TLAPS

-----------------------------------------------------------------------------
(* Type correctness.  First what the queue operations give and keep.       *)

LEMMA TaskShapes ==
    /\ TaskListener \in ToThreadTasks
    /\ \A fd \in Fds, s \in Sessions : TaskInsert(fd, s) \in ToThreadTasks
    /\ \A s \in Sessions : TaskDelete(s) \in ToThreadTasks
    /\ \A s \in Sessions : TaskSend(s) \in ToThreadTasks
    /\ \A fd \in Fds : TaskConn(fd) \in ToMainTasks
    /\ \A s \in Sessions : TaskOnClose(s) \in ToMainTasks
    /\ \A s \in Sessions : TaskPacket(s) \in ToMainTasks
  BY DEF ToThreadTasks, ToMainTasks

LEMMA ThreadTaskFields ==
    ASSUME NEW k \in ToThreadTasks
    PROVE  /\ k.type = "INSERT" => k.fd \in Fds
           /\ k.type \in {"INSERT", "DELETE", "SEND"} => k.session_id \in Sessions
  BY DEF ToThreadTasks, TaskListener, TaskInsert, TaskDelete, TaskSend, Task

LEMMA MainTaskFields ==
    ASSUME NEW k \in ToMainTasks
    PROVE  /\ k.type = "CLIENTCONN" => k.fd \in Fds
           /\ k.type \in {"ONCLOSE", "PACKET"} => k.session_id \in Sessions
  BY DEF ToMainTasks, TaskConn, TaskOnClose, TaskPacket, Task

LEMMA TakeTaskTyped ==
    ASSUME QueueTypeOK, NEW t \in Threads, NEW type, TaskAtWorker(t, type), TakeTask(t)
    PROVE  /\ m_queue_thread' \in [Threads -> Seq(ToThreadTasks)]
           /\ Head(m_queue_thread[t]) \in ToThreadTasks
           /\ Head(m_queue_thread[t]).type = type
<1>1. m_queue_thread[t] \in Seq(ToThreadTasks) /\ m_queue_thread[t] # <<>>
  BY DEF QueueTypeOK, TaskAtWorker
<1>2. /\ Head(m_queue_thread[t]) \in ToThreadTasks
      /\ Tail(m_queue_thread[t]) \in Seq(ToThreadTasks)
  BY <1>1, HeadTailProperties
<1> QED
  BY <1>2 DEF QueueTypeOK, TakeTask, TaskAtWorker

LEMMA TakeMainTaskTyped ==
    ASSUME QueueTypeOK, NEW t \in Threads, NEW type, TaskAtMain(t, type), TakeMainTask(t)
    PROVE  /\ m_queue_main' \in [Threads -> Seq(ToMainTasks)]
           /\ Head(m_queue_main[t]) \in ToMainTasks
           /\ Head(m_queue_main[t]).type = type
<1>1. m_queue_main[t] \in Seq(ToMainTasks) /\ m_queue_main[t] # <<>>
  BY DEF QueueTypeOK, TaskAtMain
<1>2. /\ Head(m_queue_main[t]) \in ToMainTasks
      /\ Tail(m_queue_main[t]) \in Seq(ToMainTasks)
  BY <1>1, HeadTailProperties
<1> QED
  BY <1>2 DEF QueueTypeOK, TakeMainTask, TaskAtMain

LEMMA PushMainTyped ==
    ASSUME QueueTypeOK, NEW t \in Threads, NEW k \in ToMainTasks, push_task_main(t, k)
    PROVE  m_queue_main' \in [Threads -> Seq(ToMainTasks)]
<1>1. m_queue_main[t] \in Seq(ToMainTasks)
  BY DEF QueueTypeOK
<1>2. Append(m_queue_main[t], k) \in Seq(ToMainTasks)
  BY <1>1, AppendProperties
<1> QED
  BY <1>2 DEF QueueTypeOK, push_task_main

LEMMA PushThreadTyped ==
    ASSUME QueueTypeOK, NEW t \in Threads, NEW k \in ToThreadTasks, push_task(t, k)
    PROVE  m_queue_thread' \in [Threads -> Seq(ToThreadTasks)]
<1>1. m_queue_thread[t] \in Seq(ToThreadTasks)
  BY DEF QueueTypeOK
<1>2. Append(m_queue_thread[t], k) \in Seq(ToThreadTasks)
  BY <1>1, AppendProperties
<1> QED
  BY <1>2 DEF QueueTypeOK, push_task

(* close() of a descriptor keeps the kernel's part in shape. *)
LEMMA CloseTyped ==
    ASSUME KernelTypeOK, NEW fd \in Fds, Close(fd)
    PROVE  KernelTypeOK'
  BY DEF KernelTypeOK, Close

(* The steps that a worker makes of its own accord or because a client has *)
(* read what it was sent.                                                  *)
WorkerStep(t) == Worker(t) \/ \E fd \in Fds : FlushSendBuffer(t, fd)

(* A thread that reads from a device or removes it has it. *)
AtDevice == {"read", "remove", "erase", "unregister"}

RemovesDevice ==
    \A t \in Threads : wpc[t].at \in AtDevice =>
        m_MapDeviceInfo[t][wpc[t].fd] # NoSession

(* What a report of epoll_wait() changes that is not a failure, and the    *)
(* end of doRead().                                                        *)
DeviceLeft ==
    UNCHANGED <<sock, gone, inbound, bare, file, interest, listenEdge, stranded,
                listener, deviceVars, mainVars, ghostVars>>

LEMMA EventReported ==
    ASSUME TypeOK, NEW t \in Threads,
           ReadStops(t) \/ \E fd \in Fds : ClientEvent(t, fd) \/ FlushSendBuffer(t, fd)
    PROVE  /\ wpc[t].at \in {"idle", "read"}
           /\ DeviceLeft /\ UNCHANGED queueVars
           /\ edge' \subseteq Fds /\ unsent' \subseteq Sessions
           /\ \/ wpc' = [wpc EXCEPT ![t] = WorkerIdle]
              \/ \E fd \in Fds : /\ m_MapDeviceInfo[t][fd] # NoSession
                                 /\ wpc' = [wpc EXCEPT ![t] = [at |-> "read", fd |-> fd]]
<1> USE DEF TypeOK, KernelTypeOK, WorkerTypeOK, DeviceLeft
<1>1. CASE ReadStops(t)
  BY <1>1 DEF ReadStops, kernelVars, deviceVars
<1>2. ASSUME NEW fd \in Fds, ClientEvent(t, fd) PROVE DeviceLeft /\ UNCHANGED queueVars
  BY <1>2 DEF ClientEvent
<1>3. ASSUME NEW fd \in Fds, FlushSendBuffer(t, fd) PROVE DeviceLeft /\ UNCHANGED queueVars
  BY <1>3 DEF FlushSendBuffer
<1>4. ASSUME NEW fd \in Fds, ClientEvent(t, fd) \/ FlushSendBuffer(t, fd)
      PROVE  /\ wpc[t].at = "idle" /\ m_MapDeviceInfo[t][fd] # NoSession
             /\ Report(t, fd) /\ unsent' \subseteq unsent
  BY <1>4 DEF ClientEvent, FlushSendBuffer, DeviceEvent
<1>5. ASSUME NEW fd \in Fds, Report(t, fd)
      PROVE  /\ edge' \subseteq Fds
             /\ \/ wpc' = [wpc EXCEPT ![t] = WorkerIdle]
                \/ wpc' = [wpc EXCEPT ![t] = [at |-> "read", fd |-> fd]]
  BY <1>5 DEF Report
<1> QED
  BY <1>1, <1>2, <1>3, <1>4, <1>5

(* A failure of doRead() or doWrite(), wherever it is met, is the end of a *)
(* session that the thread has a device for.                               *)
LEMMA EventFailed ==
    ASSUME TypeOK, RemovesDevice, NEW t \in Threads,
           ReadFails(t) \/ \E fd \in Fds : FlushFails(t, fd)
    PROVE  /\ wpc[t].at \in {"idle", "read"}
           /\ DeviceLeft /\ UNCHANGED <<unsent, m_queue_thread>>
           /\ edge' \subseteq Fds
           /\ \E fd \in Fds : /\ wpc[t].at = "read" => wpc[t].fd = fd
                              /\ m_MapDeviceInfo[t][fd] \in Sessions
                              /\ EventFails(t, fd)
<1> USE DEF TypeOK, KernelTypeOK, WorkerTypeOK, DeviceLeft, RemovesDevice, AtDevice
<1>1. CASE ReadFails(t)
  <2>1. wpc[t].at = "read" /\ EventFails(t, wpc[t].fd)
    BY <1>1 DEF ReadFails
  <2>2. wpc[t].fd \in Fds
    BY <2>1
  <2>3. m_MapDeviceInfo[t][wpc[t].fd] # NoSession
    BY <2>1
  <2>4. m_MapDeviceInfo[t][wpc[t].fd] \in Sessions
    BY <2>2, <2>3
  <2>5. DeviceLeft /\ UNCHANGED <<unsent, m_queue_thread, edge>>
    BY <1>1 DEF ReadFails, kernelVars, deviceVars
  <2> QED
    BY <2>1, <2>2, <2>4, <2>5
<1>2. ASSUME NEW fd \in Fds, FlushFails(t, fd)
      PROVE  /\ wpc[t].at = "idle" /\ m_MapDeviceInfo[t][fd] \in Sessions
             /\ EventFails(t, fd) /\ edge' \subseteq Fds
             /\ DeviceLeft /\ UNCHANGED <<unsent, m_queue_thread>>
  BY <1>2 DEF FlushFails, DeviceEvent
<1> QED
  BY <1>1, <1>2

(* The end of a frame is the end of one that the thread reads. *)
LEMMA FrameRead ==
    ASSUME TypeOK, RemovesDevice, NEW t \in Threads, ReadFrame(t)
    PROVE  /\ wpc[t].at = "read" /\ wpc[t].fd \in Fds
           /\ m_MapDeviceInfo[t][wpc[t].fd] \in Sessions
           /\ push_task_main(t, TaskPacket(m_MapDeviceInfo[t][wpc[t].fd]))
           /\ UNCHANGED <<sock, gone, bare, file, interest, edge, listenEdge,
                          stranded, workerVars, m_queue_thread, mainVars, ghostVars>>
BY DEF TypeOK, WorkerTypeOK, RemovesDevice, AtDevice, ReadFrame

(* Clients change the kernel's part and the history of what they sent.     *)
LEMMA ClientTyped ==
    ASSUME TypeOK, Client
    PROVE  TypeOK'
<1> USE DEF TypeOK
<1>1. PICK c \in Conns :
        Connect(c) \/ ClientSend(c) \/ ClientMore(c) \/ ClientGone(c)
  BY DEF Client
<1>2. WorkerTypeOK' /\ QueueTypeOK' /\ MainTypeOK'
  BY <1>1 DEF Connect, ClientSend, ClientMore, ClientGone, workerVars, deviceVars,
              queueVars, mainVars, WorkerTypeOK, QueueTypeOK, MainTypeOK, MainIdle
<1>3. KernelTypeOK'
  <2>1. CASE Connect(c)
    BY <2>1 DEF Connect, KernelTypeOK
  <2>2. CASE ClientSend(c) \/ ClientMore(c)
    <3>1. /\ inbound[c] + HeldFrames(c) + 1 \in Nat /\ inbound[c] + HeldFrames(c) \in Nat
          /\ inbound[c] + 1 \in Nat
      BY DEF KernelTypeOK, HeldFrames
    <3>2. inbound' \in [Conns -> Nat] /\ bare' \subseteq Conns /\ edge' \subseteq Fds
      BY <2>2, <3>1 DEF ClientSend, ClientMore, Arrival, KernelTypeOK
    <3> QED
      BY <2>2, <3>2 DEF ClientSend, ClientMore, KernelTypeOK
  <2>3. CASE ClientGone(c)
    BY <2>3 DEF ClientGone, Arrival, KernelTypeOK
  <2> QED
    BY <1>1, <2>1, <2>2, <2>3
<1>4. GhostTypeOK'
  <2>1. CASE ClientSend(c)
    <3>1. sent[c] \in 0..MaxFrames /\ sent[c] < MaxFrames
      BY <2>1 DEF ClientSend, GhostTypeOK
    <3>2. sent[c] + 1 \in 0..MaxFrames
      BY <3>1, BoundAssumption
    <3> QED
      BY <2>1, <3>2 DEF ClientSend, GhostTypeOK
  <2>2. CASE Connect(c) \/ ClientMore(c) \/ ClientGone(c)
    BY <2>2 DEF Connect, ClientMore, ClientGone, ghostVars, GhostTypeOK
  <2> QED
    BY <1>1, <2>1, <2>2
<1> QED
  BY <1>2, <1>3, <1>4

(* A worker changes the kernel's part, its own, the queues and `orphans`.  *)
LEMMA WorkerTyped ==
    ASSUME TypeOK, RemovesDevice, NEW t \in Threads, WorkerStep(t)
    PROVE  TypeOK'
<1> USE DEF TypeOK
<1>m. MainTypeOK'
  <2>1. UNCHANGED mainVars
    BY DEF WorkerStep, Worker, AddListener, AddClientConn, RegisterFailure,
           DelClientConn, WritePacket, WritePacketFails, ClientEvent, FlushSendBuffer,
           FlushFails, ReadFrame, ReadStops, ReadFails, CloseDevice, EraseDevice,
           AcceptEvent, Accept, PushConn, AcceptStops
  <2> QED
    BY <2>1 DEF MainTypeOK, mainVars, MainIdle
<1>1. CASE AddListener(t)
  <2>1. QueueTypeOK'
    BY <1>1, TakeTaskTyped DEF AddListener, QueueTypeOK
  <2>2. KernelTypeOK' /\ WorkerTypeOK'
    BY <1>1 DEF AddListener, KernelTypeOK, WorkerTypeOK
  <2>3. GhostTypeOK'
    BY <1>1 DEF AddListener, ghostVars, GhostTypeOK
  <2> QED
    BY <1>m, <2>1, <2>2, <2>3
<1>2. CASE AddClientConn(t)
  <2>1. /\ QueueTypeOK'
        /\ Head(m_queue_thread[t]).fd \in Fds
        /\ Head(m_queue_thread[t]).session_id \in Sessions
    BY <1>2, TakeTaskTyped, ThreadTaskFields DEF AddClientConn, QueueTypeOK
  <2>2. KernelTypeOK' /\ WorkerTypeOK'
    <3> DEFINE fd == Head(m_queue_thread[t]).fd
               s  == Head(m_queue_thread[t]).session_id
               isNew == /\ m_MapDeviceSessionInfo[t][s] = NoFd
                        /\ m_MapDeviceInfo[t][fd] = NoSession
               news == IF isNew THEN s ELSE m_MapDeviceInfo[t][fd]
               newd == IF isNew THEN fd ELSE m_MapDeviceSessionInfo[t][s]
               p    == IF isNew THEN m_pressure[t] + 1 ELSE m_pressure[t]
    <3>a. /\ m_MapDeviceInfo[t] \in [Fds -> Sessions \cup {NoSession}]
          /\ m_MapDeviceSessionInfo[t] \in [Sessions -> Fds \cup {NoFd}]
          /\ m_pressure[t] \in Int
      BY DEF WorkerTypeOK
    <3>b. fd \in Fds /\ s \in Sessions
      BY <2>1
    <3>c. news \in Sessions \cup {NoSession} /\ newd \in Fds \cup {NoFd} /\ p \in Int
      <4> HIDE DEF isNew, fd, s
      <4> QED
        BY ONLY <3>a, <3>b
    <3>1. m_MapDeviceInfo' = [m_MapDeviceInfo EXCEPT ![t][fd] = news]
      BY <1>2 DEF AddClientConn
    <3>2. m_MapDeviceSessionInfo' = [m_MapDeviceSessionInfo EXCEPT ![t][s] = newd]
      BY <1>2 DEF AddClientConn
    <3>3. m_pressure' = [m_pressure EXCEPT ![t] = p]
      BY <1>2 DEF AddClientConn
    <3>4. interest' = [interest EXCEPT ![t] = @ \cup {fd}] /\ edge' = edge \cup {fd}
      BY <1>2 DEF AddClientConn
    <3>5. UNCHANGED <<sock, gone, inbound, bare, file, listenEdge, stranded, listener,
                      unsent, wpc>>
      BY <1>2 DEF AddClientConn
    <3> HIDE DEF fd, s, news, newd, p
    <3>6. KernelTypeOK'
      BY <3>b, <3>4, <3>5 DEF KernelTypeOK
    <3>7. m_MapDeviceInfo' \in [Threads -> [Fds -> Sessions \cup {NoSession}]]
      BY <3>c, <3>1 DEF WorkerTypeOK
    <3>8. m_MapDeviceSessionInfo' \in [Threads -> [Sessions -> Fds \cup {NoFd}]]
      BY <3>c, <3>2 DEF WorkerTypeOK
    <3>9. m_pressure' \in [Threads -> Int]
      BY <3>c, <3>3 DEF WorkerTypeOK
    <3> QED
      BY <3>5, <3>6, <3>7, <3>8, <3>9 DEF WorkerTypeOK
  <2>3. GhostTypeOK'
    BY <1>2 DEF AddClientConn, ghostVars, GhostTypeOK
  <2> QED
    BY <1>m, <2>1, <2>2, <2>3
<1>3. CASE RegisterFailure(t)
  <2>1. QueueTypeOK'
    BY <1>3, TakeTaskTyped DEF RegisterFailure, QueueTypeOK
  <2>2. KernelTypeOK' /\ WorkerTypeOK'
    BY <1>3 DEF RegisterFailure, kernelVars, workerVars, deviceVars,
                KernelTypeOK, WorkerTypeOK
  <2>3. TaskAtWorker(t, "INSERT") => Head(m_queue_thread[t]).fd \in Fds
    BY <1>3, TakeTaskTyped, ThreadTaskFields DEF RegisterFailure
  <2>4. GhostTypeOK'
    BY <1>3, <2>3 DEF RegisterFailure, GhostTypeOK, KernelTypeOK
  <2> QED
    BY <1>m, <2>1, <2>2, <2>4
<1>4. CASE DelClientConn(t)
  <2>1. /\ QueueTypeOK'
        /\ Head(m_queue_thread[t]).session_id \in Sessions
    BY <1>4, TakeTaskTyped, ThreadTaskFields DEF DelClientConn, QueueTypeOK
  <2> DEFINE fd == m_MapDeviceSessionInfo[t][Head(m_queue_thread[t]).session_id]
  <2>2. fd \in Fds \cup {NoFd}
    BY <2>1 DEF WorkerTypeOK
  <2>3. KernelTypeOK'
    BY <1>4, <2>2, CloseTyped DEF DelClientConn, kernelVars, KernelTypeOK
  <2>4. WorkerTypeOK'
    <3>1. CASE fd = NoFd
      BY <1>4, <3>1 DEF DelClientConn, deviceVars, WorkerTypeOK
    <3>2. CASE fd \in Fds
      <4>1. wpc' = [wpc EXCEPT ![t] = [at |-> "unregister", fd |-> fd]]
        BY <1>4, <3>2, ConstantAssumption DEF DelClientConn
      <4> HIDE DEF fd
      <4>2. UNCHANGED <<listener, deviceVars, unsent>>
        BY <1>4 DEF DelClientConn
      <4> QED
        BY <3>2, <4>1, <4>2 DEF deviceVars, WorkerTypeOK
    <3> QED
      BY <2>2, <3>1, <3>2
  <2>5. GhostTypeOK'
    BY <1>4 DEF DelClientConn, ghostVars, GhostTypeOK
  <2> QED
    BY <1>m, <2>1, <2>3, <2>4, <2>5
<1>5. CASE WritePacket(t)
  <2>1. /\ QueueTypeOK'
        /\ Head(m_queue_thread[t]).session_id \in Sessions
    BY <1>5, TakeTaskTyped, ThreadTaskFields DEF WritePacket, QueueTypeOK
  <2>2. KernelTypeOK' /\ WorkerTypeOK' /\ GhostTypeOK'
    BY <1>5, <2>1 DEF WritePacket, kernelVars, deviceVars, ghostVars,
                      KernelTypeOK, WorkerTypeOK, GhostTypeOK
  <2> QED
    BY <1>m, <2>1, <2>2
<1>6. CASE WritePacketFails(t)
  <2>1. /\ m_queue_thread' \in [Threads -> Seq(ToThreadTasks)]
        /\ Head(m_queue_thread[t]).session_id \in Sessions
    BY <1>6, TakeTaskTyped, ThreadTaskFields DEF WritePacketFails
  <2>2. QueueTypeOK'
    BY <1>6, <2>1, TaskShapes, PushMainTyped DEF WritePacketFails, QueueTypeOK
  <2>3. KernelTypeOK' /\ WorkerTypeOK' /\ GhostTypeOK'
    BY <1>6, <2>1 DEF WritePacketFails, kernelVars, deviceVars, ghostVars,
                      KernelTypeOK, WorkerTypeOK, GhostTypeOK
  <2> QED
    BY <1>m, <2>2, <2>3
<1>7. CASE ReadFrame(t)
  <2> DEFINE fd == wpc[t].fd
  <2>1. fd \in Fds /\ m_MapDeviceInfo[t][fd] \in Sessions
    BY <1>7, FrameRead
  <2>2. QueueTypeOK'
    BY <1>7, <2>1, FrameRead, TaskShapes, PushMainTyped DEF QueueTypeOK
  <2>3. KernelTypeOK'
    <3>1. file[fd] \in Conns => inbound[file[fd]] - 1 \in Nat
      BY <1>7 DEF ReadFrame, KernelTypeOK
    <3>2. inbound' \in [Conns -> Nat]
      BY <1>7, <3>1 DEF ReadFrame, KernelTypeOK
    <3> QED
      BY <1>7, <3>2 DEF ReadFrame, KernelTypeOK
  <2>4. WorkerTypeOK' /\ GhostTypeOK'
    BY <1>7 DEF ReadFrame, workerVars, deviceVars, ghostVars, WorkerTypeOK, GhostTypeOK
  <2> QED
    BY <1>m, <2>2, <2>3, <2>4
<1>8. CASE ReadStops(t) \/ \E fd \in Fds : ClientEvent(t, fd) \/ FlushSendBuffer(t, fd)
  <2>1. /\ DeviceLeft /\ UNCHANGED queueVars
        /\ edge' \subseteq Fds /\ unsent' \subseteq Sessions
    BY <1>8, EventReported
  <2>2. \/ wpc' = [wpc EXCEPT ![t] = WorkerIdle]
        \/ \E fd \in Fds : wpc' = [wpc EXCEPT ![t] = [at |-> "read", fd |-> fd]]
    BY <1>8, EventReported
  <2>3. wpc' \in [Threads -> [at: {"idle", "accept"}, fd: {NoFd}]
                 \cup [at: {"push"} \cup AtDevice, fd: Fds]]
    <3>1. CASE wpc' = [wpc EXCEPT ![t] = WorkerIdle]
      BY <3>1 DEF WorkerTypeOK, WorkerIdle, AtDevice
    <3>2. ASSUME NEW fd \in Fds, wpc' = [wpc EXCEPT ![t] = [at |-> "read", fd |-> fd]]
          PROVE  wpc' \in [Threads -> [at: {"idle", "accept"}, fd: {NoFd}]
                             \cup [at: {"push"} \cup AtDevice, fd: Fds]]
      BY <3>2 DEF WorkerTypeOK, AtDevice
    <3> QED
      BY <2>2, <3>1, <3>2
  <2>4. WorkerTypeOK'
    BY <2>1, <2>3 DEF DeviceLeft, deviceVars, WorkerTypeOK, AtDevice
  <2>5. KernelTypeOK' /\ QueueTypeOK' /\ GhostTypeOK'
    BY <2>1 DEF DeviceLeft, queueVars, ghostVars, KernelTypeOK, QueueTypeOK, GhostTypeOK
  <2> QED
    BY <1>m, <2>4, <2>5
<1>9. CASE ReadFails(t) \/ \E fd \in Fds : FlushFails(t, fd)
  <2>1. DeviceLeft /\ UNCHANGED <<unsent, m_queue_thread>> /\ edge' \subseteq Fds
    BY <1>9, EventFailed
  <2>2. PICK fd \in Fds : m_MapDeviceInfo[t][fd] \in Sessions /\ EventFails(t, fd)
    BY <1>9, EventFailed
  <2>3. QueueTypeOK'
    BY <2>1, <2>2, TaskShapes, PushMainTyped DEF EventFails, QueueTypeOK
  <2>4. WorkerTypeOK'
    BY <2>1, <2>2 DEF DeviceLeft, deviceVars, EventFails, WorkerTypeOK
  <2>5. KernelTypeOK' /\ GhostTypeOK'
    BY <2>1 DEF DeviceLeft, ghostVars, KernelTypeOK, GhostTypeOK
  <2> QED
    BY <1>m, <2>3, <2>4, <2>5
<1>10. CASE CloseDevice(t)
  <2>1. wpc[t].fd \in Fds
    BY <1>10 DEF CloseDevice, WorkerTypeOK
  <2>2. KernelTypeOK'
    BY <1>10, <2>1, CloseTyped DEF CloseDevice
  <2>3. WorkerTypeOK' /\ QueueTypeOK' /\ GhostTypeOK'
    BY <1>10, <2>1 DEF CloseDevice, deviceVars, queueVars, ghostVars,
                       WorkerTypeOK, QueueTypeOK, GhostTypeOK
  <2> QED
    BY <1>m, <2>2, <2>3
<1>11. CASE EraseDevice(t)
  <2>1. wpc[t].fd \in Fds
    BY <1>11 DEF EraseDevice, WorkerTypeOK
  <2>2. KernelTypeOK'
    BY <1>11, <2>1 DEF EraseDevice, KernelTypeOK
  <2> DEFINE s == m_MapDeviceInfo[t][wpc[t].fd]
  <2>3. WorkerTypeOK'
    <3>1. m_MapDeviceInfo' \in [Threads -> [Fds -> Sessions \cup {NoSession}]]
      BY <1>11 DEF EraseDevice, WorkerTypeOK
    <3>2. m_MapDeviceSessionInfo' \in [Threads -> [Sessions -> Fds \cup {NoFd}]]
      <4>1. [m_MapDeviceSessionInfo[t] EXCEPT ![s] = NoFd] \in [Sessions -> Fds \cup {NoFd}]
        BY DEF WorkerTypeOK
      <4> QED
        BY <1>11, <4>1 DEF EraseDevice, WorkerTypeOK
    <3>3. m_pressure' \in [Threads -> Int]
      <4>1. m_pressure[t] + RemovedPressure \in Int
        BY DEF WorkerTypeOK, RemovedPressure
      <4> QED
        BY <1>11, <4>1 DEF EraseDevice, WorkerTypeOK
    <3>4. unsent' \subseteq Sessions /\ listener' \in Threads \cup {NoThread}
      BY <1>11 DEF EraseDevice, WorkerTypeOK
    <3>5. wpc' \in [Threads -> [at: {"idle", "accept"}, fd: {NoFd}]
                   \cup [at: {"push", "read", "remove", "erase", "unregister"}, fd: Fds]]
      BY <1>11 DEF EraseDevice, WorkerTypeOK, WorkerIdle
    <3> QED
      BY <3>1, <3>2, <3>3, <3>4, <3>5 DEF WorkerTypeOK
  <2>4. QueueTypeOK' /\ GhostTypeOK'
    BY <1>11 DEF EraseDevice, queueVars, ghostVars, QueueTypeOK, GhostTypeOK
  <2> QED
    BY <1>m, <2>2, <2>3, <2>4
<1>12. CASE AcceptEvent(t)
  <2>1. wpc[t].fd = NoFd
    BY <1>12 DEF AcceptEvent, WorkerTypeOK
  <2>2. KernelTypeOK' /\ QueueTypeOK' /\ GhostTypeOK'
    BY <1>12 DEF AcceptEvent, queueVars, ghostVars,
                KernelTypeOK, QueueTypeOK, GhostTypeOK
  <2>3. wpc' \in [Threads -> [at: {"idle", "accept"}, fd: {NoFd}]
                 \cup [at: {"push", "read", "remove", "erase", "unregister"}, fd: Fds]]
    <3>1. wpc' = [wpc EXCEPT ![t] = [at |-> "accept", fd |-> NoFd]]
      <4>1. wpc[t] \in [at: {"idle", "accept"}, fd: {NoFd}]
        BY <1>12 DEF AcceptEvent, WorkerTypeOK
      <4>2. [wpc[t] EXCEPT !.at = "accept"] = [at |-> "accept", fd |-> NoFd]
        BY <4>1
      <4> QED
        BY <1>12, <4>2 DEF AcceptEvent
    <3> QED
      BY <3>1 DEF WorkerTypeOK
  <2>4. WorkerTypeOK'
    BY <1>12, <2>3 DEF AcceptEvent, deviceVars, WorkerTypeOK
  <2> QED
    BY <1>m, <2>2, <2>4
<1>13. CASE Accept(t)
  BY <1>13, <1>m DEF Accept, deviceVars, queueVars, ghostVars, Backlog, FreeFds,
              KernelTypeOK, WorkerTypeOK, QueueTypeOK, GhostTypeOK
<1>14. CASE PushConn(t)
  <2>1. wpc[t].fd \in Fds
    BY <1>14 DEF PushConn, WorkerTypeOK
  <2>2. QueueTypeOK'
    BY <1>14, <2>1, TaskShapes, PushMainTyped DEF PushConn, QueueTypeOK
  <2>3. KernelTypeOK' /\ WorkerTypeOK' /\ GhostTypeOK'
    BY <1>14 DEF PushConn, kernelVars, deviceVars, ghostVars,
                 KernelTypeOK, WorkerTypeOK, GhostTypeOK
  <2> QED
    BY <1>m, <2>2, <2>3
<1>15. CASE AcceptStops(t)
  BY <1>15, <1>m DEF AcceptStops, deviceVars, queueVars, ghostVars, Backlog,
              WorkerIdle, KernelTypeOK, WorkerTypeOK, QueueTypeOK, GhostTypeOK
<1> QED
  BY <1>1, <1>2, <1>3, <1>4, <1>5, <1>6, <1>7, <1>8, <1>9, <1>10, <1>11,
     <1>12, <1>13, <1>14, <1>15 DEF WorkerStep, Worker

(* The walk over the threads keeps what it is made for.                    *)
ScanGoesOn ==
    /\ mpc.at = "scan" /\ mpc'.at = mpc.at /\ mpc'.fd = mpc.fd
    /\ mpc'.session = mpc.session
    /\ \/ mpc'.seen = mpc.seen /\ mpc'.thread = mpc.thread
       \/ \E t \in Threads : /\ mpc'.seen = mpc.seen \cup {t}
                             /\ mpc'.thread \in {mpc.thread, t}
    /\ UNCHANGED <<kernelVars, workerVars, queueVars, m_MapSessionConnInfo,
                   nextSession, sends, ghostVars>>

LEMMA Scanned ==
    ASSUME TypeOK, NEW t \in Threads, ReadPressure(t) \/ ComparePressure(t)
    PROVE  ScanGoesOn /\ mpc' \in Scan
<1>0. mpc.at = "scan"
  BY DEF ReadPressure, ComparePressure
<1>1. mpc \in Scan
  BY <1>0 DEF TypeOK, MainTypeOK, MainIdle
<1>2. CASE ReadPressure(t)
  <2>1. <<t, m_pressure[t]>> \in Threads \X Int
    BY DEF TypeOK, WorkerTypeOK
  <2>2. mpc' = [mpc EXCEPT !.read = {<<t, m_pressure[t]>>}]
    BY <1>2 DEF ReadPressure
  <2>3. mpc' = [at |-> "scan", fd |-> mpc.fd, session |-> mpc.session,
                thread |-> mpc.thread, seen |-> mpc.seen,
                read |-> {<<t, m_pressure[t]>>}]
    BY <1>1, <2>2 DEF Scan
  <2> QED
    BY <1>1, <1>2, <2>1, <2>3 DEF ReadPressure, ScanGoesOn, Scan
<1>3. CASE ComparePressure(t)
  <2>1. PICK u \in {mpc.thread, t} :
            mpc' = [mpc EXCEPT !.seen = @ \cup {t}, !.read = {}, !.thread = u]
    BY <1>3 DEF ComparePressure
  <2>2. mpc' = [at |-> "scan", fd |-> mpc.fd, session |-> mpc.session,
                thread |-> u, seen |-> mpc.seen \cup {t}, read |-> {}]
    BY <1>1, <2>1 DEF Scan
  <2> QED
    BY <1>1, <1>3, <2>2 DEF ComparePressure, ScanGoesOn, Scan
<1> QED
  BY <1>2, <1>3

(* Main changes its own part, the queues and the history of its calls.     *)
LEMMA MainTaskTyped ==
    ASSUME TypeOK, MainTask
    PROVE  TypeOK'
<1> USE DEF TypeOK
<1>1. KernelTypeOK' /\ WorkerTypeOK'
  <2>1. UNCHANGED <<kernelVars, workerVars>>
    BY DEF MainTask, NewSession, ReadPressure, ComparePressure, PushInsert,
           HandlePacket, OnClose, AddNewConn, RemoveSessionConn
  <2> QED
    BY <2>1 DEF kernelVars, workerVars, deviceVars, KernelTypeOK, WorkerTypeOK
<1>2. ASSUME NEW t \in Threads, NewSession(t) PROVE TypeOK'
  <2>1. /\ QueueTypeOK'
        /\ Head(m_queue_main[t]).fd \in Fds
    BY <1>2, TakeMainTaskTyped, MainTaskFields DEF NewSession, QueueTypeOK
  <2>2. nextSession \in Sessions /\ nextSession' = nextSession + 1
    BY <1>2 DEF NewSession
  <2>3. nextSession' \in 1..(MaxSessions + 1)
    BY <2>2, BoundAssumption DEF Sessions
  <2>4. mpc' \in Scan /\ mpc'.thread \in mpc'.seen
    <3>1. PICK u \in Threads :
              mpc' = [MainIdle EXCEPT !.at = "scan", !.session = nextSession,
                                      !.fd = Head(m_queue_main[t]).fd,
                                      !.seen = {u}, !.thread = u]
      BY <1>2 DEF NewSession
    <3>2. mpc' = [at |-> "scan", fd |-> Head(m_queue_main[t]).fd,
                  session |-> nextSession, thread |-> u, seen |-> {u}, read |-> {}]
      BY <3>1 DEF MainIdle
    <3> QED
      BY <2>1, <2>2, <3>2 DEF Scan
  <2>5. MainTypeOK'
    BY <1>2, <2>3, <2>4 DEF NewSession, MainTypeOK
  <2>6. GhostTypeOK'
    BY <1>2, <2>1 DEF NewSession, GhostTypeOK, KernelTypeOK
  <2> QED
    BY <1>1, <2>1, <2>5, <2>6
<1>3. ASSUME NEW t \in Threads, ReadPressure(t) \/ ComparePressure(t) PROVE TypeOK'
  <2>1. ScanGoesOn /\ mpc' \in Scan
    BY <1>3, Scanned
  <2>2. mpc.thread \in mpc.seen
    BY <2>1 DEF ScanGoesOn, MainTypeOK, MainIdle
  <2>3. mpc'.thread \in mpc'.seen
    BY <2>1, <2>2 DEF ScanGoesOn
  <2>4. MainTypeOK'
    BY <2>1, <2>3 DEF ScanGoesOn, MainTypeOK
  <2> QED
    BY <1>1, <2>1, <2>4 DEF ScanGoesOn, queueVars, ghostVars, QueueTypeOK, GhostTypeOK
<1>4. ASSUME NEW t \in Threads, PushInsert(t) PROVE TypeOK'
  <2>1. /\ mpc.fd \in Fds /\ mpc.session \in Sessions
    BY <1>4 DEF PushInsert, MainTypeOK, MainIdle, Scan
  <2>2. QueueTypeOK'
    BY <1>4, <2>1, TaskShapes, PushThreadTyped DEF PushInsert, QueueTypeOK
  <2>3. mpc'.at = "add" /\ mpc'.session \in Sessions /\ mpc'.thread \in Threads
    BY <1>4, <2>1 DEF PushInsert, MainIdle
  <2>4. MainTypeOK' /\ GhostTypeOK'
    BY <1>4, <2>3 DEF PushInsert, ghostVars, MainTypeOK, GhostTypeOK
  <2> QED
    BY <1>1, <2>2, <2>4
<1>5. ASSUME NEW t \in Threads, HandlePacket(t) PROVE TypeOK'
  <2>1. /\ QueueTypeOK'
        /\ Head(m_queue_main[t]).session_id \in Sessions
    BY <1>5, TakeMainTaskTyped, MainTaskFields DEF HandlePacket, QueueTypeOK
  <2> DEFINE c == connOf[Head(m_queue_main[t]).session_id]
  <2>2. c \in Conns => handled[c] + 1 \in Nat
    BY DEF GhostTypeOK
  <2>3. handled' \in [Conns -> Nat]
    BY <1>5, <2>2 DEF HandlePacket, GhostTypeOK
  <2>4. MainTypeOK' /\ GhostTypeOK'
    BY <1>5, <2>3 DEF HandlePacket, mainVars, MainTypeOK, GhostTypeOK, MainIdle
  <2> QED
    BY <1>1, <2>1, <2>4
<1>6. ASSUME NEW t \in Threads, OnClose(t) PROVE TypeOK'
  <2>1. /\ QueueTypeOK'
        /\ Head(m_queue_main[t]).session_id \in Sessions
    BY <1>6, TakeMainTaskTyped, MainTaskFields DEF OnClose, QueueTypeOK
  <2>2. MainTypeOK' /\ GhostTypeOK'
    BY <1>6, <2>1 DEF OnClose, ghostVars, MainTypeOK, GhostTypeOK, MainIdle
  <2> QED
    BY <1>1, <2>1, <2>2
<1>7. CASE AddNewConn
  <2>1. mpc.session \in Sessions /\ mpc.thread \in Threads
    BY <1>7 DEF AddNewConn, MainTypeOK, MainIdle, Scan
  <2>2. MainTypeOK'
    BY <1>7, <2>1 DEF AddNewConn, MainTypeOK, MainIdle
  <2> QED
    BY <1>1, <1>7, <2>2 DEF AddNewConn, queueVars, ghostVars, QueueTypeOK, GhostTypeOK
<1>8. CASE RemoveSessionConn
  <2>1. MainTypeOK'
    BY <1>8 DEF RemoveSessionConn, MainTypeOK, MainIdle
  <2> QED
    BY <1>1, <1>8, <2>1 DEF RemoveSessionConn, queueVars, ghostVars, QueueTypeOK, GhostTypeOK
<1> QED
  BY <1>2, <1>3, <1>4, <1>5, <1>6, <1>7, <1>8 DEF MainTask

LEMMA ApplicationTyped ==
    ASSUME TypeOK, Application
    PROVE  TypeOK'
<1> USE DEF TypeOK
<1>1. PICK s \in Sessions : CloseConn(s) \/ SendMsgToConn(s)
  BY DEF Application
<1>2. m_MapSessionConnInfo[s] \in Threads
  BY <1>1 DEF CloseConn, SendMsgToConn, MainTypeOK
<1>3. KernelTypeOK' /\ WorkerTypeOK'
  BY <1>1 DEF CloseConn, SendMsgToConn, kernelVars, workerVars, deviceVars,
              KernelTypeOK, WorkerTypeOK
<1>4. QueueTypeOK'
  <2>1. m_queue_thread' \in [Threads -> Seq(ToThreadTasks)]
    BY <1>1, <1>2, TaskShapes, PushThreadTyped DEF CloseConn, SendMsgToConn
  <2> QED
    BY <1>1, <2>1 DEF CloseConn, SendMsgToConn, QueueTypeOK
<1>5. MainTypeOK'
  <2>1. CASE CloseConn(s)
    <3>1. mpc'.at = "remove" /\ mpc'.session \in Sessions
      BY <2>1 DEF CloseConn, MainIdle
    <3> QED
      BY <2>1, <3>1 DEF CloseConn, MainTypeOK, MainIdle
  <2>2. CASE SendMsgToConn(s)
    <3>1. sends' \in 0..MaxSends
      BY <2>2, BoundAssumption DEF SendMsgToConn, MainTypeOK
    <3> QED
      BY <2>2, <3>1 DEF SendMsgToConn, MainTypeOK, MainIdle
  <2> QED
    BY <1>1, <2>1, <2>2
<1>6. GhostTypeOK'
  BY <1>1 DEF CloseConn, SendMsgToConn, ghostVars, GhostTypeOK
<1> QED
  BY <1>3, <1>4, <1>5, <1>6

LEMMA InitTyped == Init => TypeOK
<1> SUFFICES ASSUME Init PROVE TypeOK
  OBVIOUS
<1>1. KernelTypeOK /\ GhostTypeOK
  <2>1. 0 \in 0..MaxFrames
    BY BoundAssumption
  <2>2. KernelTypeOK
    BY DEF Init, KernelTypeOK
  <2>3. GhostTypeOK
    BY <2>1 DEF Init, GhostTypeOK
  <2> QED
    BY <2>2, <2>3
<1>2. WorkerTypeOK
  <2>1. m_pressure \in [Threads -> Int]
    BY BoundAssumption DEF Init
  <2> QED
    BY <2>1 DEF Init, WorkerTypeOK, WorkerIdle
<1>3. QueueTypeOK
  <2>1. <<>> \in Seq(ToThreadTasks) /\ <<TaskListener>> \in Seq(ToThreadTasks)
    BY TaskShapes
  <2> QED
    BY <2>1 DEF Init, QueueTypeOK
<1>4. MainTypeOK
  BY BoundAssumption DEF Init, MainTypeOK
<1> QED
  BY <1>1, <1>2, <1>3, <1>4 DEF TypeOK

LEMMA NextTyped ==
    ASSUME TypeOK, RemovesDevice, [Next]_vars
    PROVE  TypeOK'
<1>1. CASE Client
  BY <1>1, ClientTyped
<1>2. ASSUME NEW t \in Threads, WorkerStep(t) PROVE TypeOK'
  BY <1>2, WorkerTyped
<1>3. CASE MainTask
  BY <1>3, MainTaskTyped
<1>4. CASE Application
  BY <1>4, ApplicationTyped
<1>5. CASE UNCHANGED vars
  BY <1>5 DEF vars, kernelVars, workerVars, deviceVars, queueVars, mainVars,
       ghostVars, TypeOK, KernelTypeOK, WorkerTypeOK, QueueTypeOK, MainTypeOK,
       GhostTypeOK, MainIdle
<1> QED
  BY <1>1, <1>2, <1>3, <1>4, <1>5 DEF Next, WorkerStep

-----------------------------------------------------------------------------
(* What taking a task and pushing one do to the places in the queues.      *)

LEMMA TailPlaces ==
    ASSUME NEW S, NEW q \in Seq(S), q # <<>>
    PROVE  /\ 1 \in DOMAIN q /\ Head(q) = q[1]
           /\ \A i \in Nat :
                /\ i \in DOMAIN Tail(q) <=> i # 0 /\ i + 1 \in DOMAIN q
                /\ i \in DOMAIN Tail(q) => Tail(q)[i] = q[i + 1]
<1>1. DOMAIN q = 1..Len(q) /\ Len(q) \in Nat /\ Len(q) # 0
  BY EmptySeq
<1>2. /\ DOMAIN Tail(q) = 1..(Len(q) - 1)
      /\ \A i \in 1..(Len(q) - 1) : Tail(q)[i] = q[i + 1]
  BY <1>1, HeadTailProperties
<1>3. Head(q) = q[1]
  BY HeadTailProperties
<1> QED
  BY <1>1, <1>2, <1>3

LEMMA AppendPlaces ==
    ASSUME NEW S, NEW q \in Seq(S), NEW x \in S
    PROVE  /\ Len(q) + 1 \in Nat /\ Len(q) + 1 \notin DOMAIN q
           /\ \A i \in Nat :
                /\ i \in DOMAIN Append(q, x) <=> i \in DOMAIN q \/ i = Len(q) + 1
                /\ i \in DOMAIN q => Append(q, x)[i] = q[i]
           /\ Append(q, x)[Len(q) + 1] = x
<1>1. DOMAIN q = 1..Len(q) /\ Len(q) \in Nat
  OBVIOUS
<1>2. /\ Append(q, x) \in Seq(S) /\ Len(Append(q, x)) = Len(q) + 1
      /\ \A i \in 1..Len(q) : Append(q, x)[i] = q[i]
      /\ Append(q, x)[Len(q) + 1] = x
  BY AppendProperties
<1>3. DOMAIN Append(q, x) = 1..(Len(q) + 1)
  BY <1>2
<1> QED
  BY <1>1, <1>2, <1>3

LEMMA TakenFromThread ==
    ASSUME QueueTypeOK, NEW t \in Threads, NEW type, TaskAtWorker(t, type), TakeTask(t)
    PROVE  /\ 1 \in DOMAIN m_queue_thread[t]
           /\ Head(m_queue_thread[t]) = m_queue_thread[t][1]
           /\ m_queue_thread[t][1].type = type
           /\ \A u \in Threads, i \in Nat :
                /\ i \in DOMAIN m_queue_thread'[u] <=>
                        IF u = t THEN i # 0 /\ i + 1 \in DOMAIN m_queue_thread[t]
                        ELSE i \in DOMAIN m_queue_thread[u]
                /\ i \in DOMAIN m_queue_thread'[u] => m_queue_thread'[u][i] =
                        m_queue_thread[u][IF u = t THEN i + 1 ELSE i]
<1>1. m_queue_thread[t] \in Seq(ToThreadTasks) /\ m_queue_thread[t] # <<>>
  BY DEF QueueTypeOK, TaskAtWorker
<1>2. \A u \in Threads : m_queue_thread'[u] =
        IF u = t THEN Tail(m_queue_thread[t]) ELSE m_queue_thread[u]
  BY DEF TakeTask, QueueTypeOK
<1>3. /\ 1 \in DOMAIN m_queue_thread[t] /\ Head(m_queue_thread[t]) = m_queue_thread[t][1]
      /\ \A i \in Nat :
            /\ i \in DOMAIN Tail(m_queue_thread[t]) <=> i # 0 /\ i + 1 \in DOMAIN m_queue_thread[t]
            /\ i \in DOMAIN Tail(m_queue_thread[t]) =>
                    Tail(m_queue_thread[t])[i] = m_queue_thread[t][i + 1]
  BY <1>1, TailPlaces
<1>4. m_queue_thread[t][1].type = type
  BY <1>3 DEF TaskAtWorker
<1> QED
  BY <1>2, <1>3, <1>4

LEMMA TakenFromMain ==
    ASSUME QueueTypeOK, NEW t \in Threads, NEW type, TaskAtMain(t, type), TakeMainTask(t)
    PROVE  /\ 1 \in DOMAIN m_queue_main[t]
           /\ Head(m_queue_main[t]) = m_queue_main[t][1]
           /\ m_queue_main[t][1].type = type
           /\ \A u \in Threads, i \in Nat :
                /\ i \in DOMAIN m_queue_main'[u] <=>
                        IF u = t THEN i # 0 /\ i + 1 \in DOMAIN m_queue_main[t]
                        ELSE i \in DOMAIN m_queue_main[u]
                /\ i \in DOMAIN m_queue_main'[u] => m_queue_main'[u][i] =
                        m_queue_main[u][IF u = t THEN i + 1 ELSE i]
<1>1. m_queue_main[t] \in Seq(ToMainTasks) /\ m_queue_main[t] # <<>>
  BY DEF QueueTypeOK, TaskAtMain
<1>2. \A u \in Threads : m_queue_main'[u] =
        IF u = t THEN Tail(m_queue_main[t]) ELSE m_queue_main[u]
  BY DEF TakeMainTask, QueueTypeOK
<1>3. /\ 1 \in DOMAIN m_queue_main[t] /\ Head(m_queue_main[t]) = m_queue_main[t][1]
      /\ \A i \in Nat :
            /\ i \in DOMAIN Tail(m_queue_main[t]) <=> i # 0 /\ i + 1 \in DOMAIN m_queue_main[t]
            /\ i \in DOMAIN Tail(m_queue_main[t]) =>
                    Tail(m_queue_main[t])[i] = m_queue_main[t][i + 1]
  BY <1>1, TailPlaces
<1>4. m_queue_main[t][1].type = type
  BY <1>3 DEF TaskAtMain
<1> QED
  BY <1>2, <1>3, <1>4

LEMMA PushedToThread ==
    ASSUME QueueTypeOK, NEW t \in Threads, NEW k \in ToThreadTasks, push_task(t, k),
           NEW n, n = Len(m_queue_thread[t]) + 1
    PROVE  /\ n \in Nat /\ n \notin DOMAIN m_queue_thread[t]
           /\ m_queue_thread'[t][n] = k
           /\ \A u \in Threads, i \in Nat :
                /\ i \in DOMAIN m_queue_thread'[u] <=>
                        i \in DOMAIN m_queue_thread[u] \/ (u = t /\ i = n)
                /\ i \in DOMAIN m_queue_thread[u] =>
                        m_queue_thread'[u][i] = m_queue_thread[u][i]
<1>1. m_queue_thread[t] \in Seq(ToThreadTasks)
  BY DEF QueueTypeOK
<1>2. \A u \in Threads : m_queue_thread'[u] =
        IF u = t THEN Append(m_queue_thread[t], k) ELSE m_queue_thread[u]
  BY DEF push_task, QueueTypeOK
<1>3. /\ n \in Nat /\ n \notin DOMAIN m_queue_thread[t]
      /\ \A i \in Nat :
            /\ i \in DOMAIN Append(m_queue_thread[t], k) <=> i \in DOMAIN m_queue_thread[t] \/ i = n
            /\ i \in DOMAIN m_queue_thread[t] =>
                    Append(m_queue_thread[t], k)[i] = m_queue_thread[t][i]
      /\ Append(m_queue_thread[t], k)[n] = k
  BY <1>1, AppendPlaces
<1> QED
  BY <1>2, <1>3

LEMMA PushedToMain ==
    ASSUME QueueTypeOK, NEW t \in Threads, NEW k \in ToMainTasks, push_task_main(t, k),
           NEW n, n = Len(m_queue_main[t]) + 1
    PROVE  /\ n \in Nat /\ n \notin DOMAIN m_queue_main[t]
           /\ m_queue_main'[t][n] = k
           /\ \A u \in Threads, i \in Nat :
                /\ i \in DOMAIN m_queue_main'[u] <=>
                        i \in DOMAIN m_queue_main[u] \/ (u = t /\ i = n)
                /\ i \in DOMAIN m_queue_main[u] =>
                        m_queue_main'[u][i] = m_queue_main[u][i]
<1>1. m_queue_main[t] \in Seq(ToMainTasks)
  BY DEF QueueTypeOK
<1>2. \A u \in Threads : m_queue_main'[u] =
        IF u = t THEN Append(m_queue_main[t], k) ELSE m_queue_main[u]
  BY DEF push_task_main, QueueTypeOK
<1>3. /\ n \in Nat /\ n \notin DOMAIN m_queue_main[t]
      /\ \A i \in Nat :
            /\ i \in DOMAIN Append(m_queue_main[t], k) <=> i \in DOMAIN m_queue_main[t] \/ i = n
            /\ i \in DOMAIN m_queue_main[t] =>
                    Append(m_queue_main[t], k)[i] = m_queue_main[t][i]
      /\ Append(m_queue_main[t], k)[n] = k
  BY <1>1, AppendPlaces
<1> QED
  BY <1>2, <1>3

-----------------------------------------------------------------------------
(* Both maps of a thread have the same devices. *)
MapsAgree ==
    \A t \in Threads :
        /\ \A fd \in Fds : m_MapDeviceInfo[t][fd] # NoSession =>
                m_MapDeviceSessionInfo[t][m_MapDeviceInfo[t][fd]] = fd
        /\ \A s \in Sessions : m_MapDeviceSessionInfo[t][s] # NoFd =>
                m_MapDeviceInfo[t][m_MapDeviceSessionInfo[t][s]] = s

(* The listening socket is on its way to a thread or registered by one. *)
ListenerIn(t, i) ==
    /\ i \in DOMAIN m_queue_thread[t]
    /\ m_queue_thread[t][i].type = "LISTENER"

OneListener ==
    \A t, u \in Threads, i, j \in Nat :
        ListenerIn(t, i) =>
            /\ listener = NoThread
            /\ ListenerIn(u, j) => t = u /\ i = j

(* The steps of main, the clients and the application leave the workers'   *)
(* own state alone.                                                        *)
LEMMA WorkersKept ==
    ASSUME Client \/ MainTask \/ Application \/ UNCHANGED vars
    PROVE  UNCHANGED workerVars
BY DEF Client, Connect, ClientSend, ClientMore, ClientGone, MainTask, NewSession,
       ReadPressure, ComparePressure, PushInsert, HandlePacket, OnClose, AddNewConn,
       RemoveSessionConn, Application, CloseConn, SendMsgToConn, vars

LEMMA MapsStep ==
    ASSUME TypeOK, MapsAgree, RemovesDevice, [Next]_vars
    PROVE  MapsAgree' /\ RemovesDevice'
<1> USE DEF TypeOK, WorkerTypeOK, AtDevice
<1>0. NoFd \notin Fds /\ NoSession \notin Sessions
  BY ConstantAssumption DEF NoSession, Sessions
<1>1. ASSUME NEW t \in Threads, AddClientConn(t) PROVE MapsAgree' /\ RemovesDevice'
  <2> DEFINE fd == Head(m_queue_thread[t]).fd
             s  == Head(m_queue_thread[t]).session_id
  <2>1. fd \in Fds /\ s \in Sessions
    BY <1>1, TakeTaskTyped, ThreadTaskFields DEF AddClientConn
  <2>2. wpc' = wpc
    BY <1>1 DEF AddClientConn
  <2>3. CASE m_MapDeviceSessionInfo[t][s] = NoFd /\ m_MapDeviceInfo[t][fd] = NoSession
    <3>1. /\ m_MapDeviceInfo' = [m_MapDeviceInfo EXCEPT ![t][fd] = s]
          /\ m_MapDeviceSessionInfo' = [m_MapDeviceSessionInfo EXCEPT ![t][s] = fd]
      BY <1>1, <2>3 DEF AddClientConn
    <3> HIDE DEF fd, s
    <3> QED
      BY <1>0, <2>1, <2>2, <2>3, <3>1 DEF MapsAgree, RemovesDevice
  <2>4. CASE ~ (m_MapDeviceSessionInfo[t][s] = NoFd /\ m_MapDeviceInfo[t][fd] = NoSession)
    <3>1. /\ m_MapDeviceInfo' = [m_MapDeviceInfo EXCEPT ![t][fd] = @]
          /\ m_MapDeviceSessionInfo' = [m_MapDeviceSessionInfo EXCEPT ![t][s] = @]
      BY <1>1, <2>4 DEF AddClientConn
    <3> HIDE DEF fd, s
    <3>2. m_MapDeviceInfo' = m_MapDeviceInfo /\ m_MapDeviceSessionInfo' = m_MapDeviceSessionInfo
      BY <2>1, <3>1
    <3> QED
      BY <2>2, <3>2 DEF MapsAgree, RemovesDevice
  <2> QED
    BY <2>3, <2>4
<1>2. ASSUME NEW t \in Threads, EraseDevice(t) PROVE MapsAgree' /\ RemovesDevice'
  <2> DEFINE fd == wpc[t].fd
             s  == m_MapDeviceInfo[t][fd]
  <2>1. fd \in Fds /\ s \in Sessions /\ m_MapDeviceSessionInfo[t][s] = fd
    <3>1. wpc[t].at \in {"erase", "unregister"}
      BY <1>2 DEF EraseDevice
    <3>2. fd \in Fds
      BY <3>1 DEF WorkerTypeOK
    <3>3. s # NoSession
      BY <3>1 DEF RemovesDevice, AtDevice
    <3> QED
      BY <3>2, <3>3 DEF MapsAgree, WorkerTypeOK
  <2>2. /\ m_MapDeviceInfo' = [m_MapDeviceInfo EXCEPT ![t][fd] = NoSession]
        /\ m_MapDeviceSessionInfo' = [m_MapDeviceSessionInfo EXCEPT ![t][s] = NoFd]
        /\ wpc' = [wpc EXCEPT ![t] = WorkerIdle]
    BY <1>2 DEF EraseDevice
  <2> HIDE DEF fd, s
  <2>3. m_MapDeviceInfo[t][fd] = s
    BY DEF s
  <2>4. MapsAgree'
    <3> SUFFICES ASSUME NEW u \in Threads
                 PROVE  /\ \A f \in Fds : m_MapDeviceInfo'[u][f] # NoSession =>
                              m_MapDeviceSessionInfo'[u][m_MapDeviceInfo'[u][f]] = f
                        /\ \A r \in Sessions : m_MapDeviceSessionInfo'[u][r] # NoFd =>
                              m_MapDeviceInfo'[u][m_MapDeviceSessionInfo'[u][r]] = r
      BY DEF MapsAgree
    <3>1. CASE u # t
      <4>1. /\ m_MapDeviceInfo'[u] = m_MapDeviceInfo[u]
            /\ m_MapDeviceSessionInfo'[u] = m_MapDeviceSessionInfo[u]
        BY <2>2, <3>1
      <4> QED
        BY <4>1 DEF MapsAgree
    <3>2. CASE u = t
      <4>1. /\ m_MapDeviceInfo'[t] = [m_MapDeviceInfo[t] EXCEPT ![fd] = NoSession]
            /\ m_MapDeviceSessionInfo'[t] = [m_MapDeviceSessionInfo[t] EXCEPT ![s] = NoFd]
        BY <2>2
      <4> QED
        BY <1>0, <2>1, <2>3, <3>2, <4>1 DEF MapsAgree
    <3> QED
      BY <3>1, <3>2
  <2>5. RemovesDevice'
    <3> SUFFICES ASSUME NEW u \in Threads, wpc'[u].at \in AtDevice
                 PROVE  m_MapDeviceInfo'[u][wpc'[u].fd] # NoSession
      BY DEF RemovesDevice
    <3>1. u # t
      BY <2>2 DEF WorkerIdle
    <3>2. m_MapDeviceInfo'[u] = m_MapDeviceInfo[u] /\ wpc'[u] = wpc[u]
      BY <2>2, <3>1
    <3> QED
      BY <3>2 DEF RemovesDevice
  <2> QED
    BY <2>4, <2>5
<1>3. ASSUME NEW t \in Threads, DelClientConn(t) PROVE MapsAgree' /\ RemovesDevice'
  <2> DEFINE s  == Head(m_queue_thread[t]).session_id
             fd == m_MapDeviceSessionInfo[t][s]
  <2>1. s \in Sessions
    BY <1>3, TakeTaskTyped, ThreadTaskFields DEF DelClientConn
  <2>2. /\ UNCHANGED <<m_MapDeviceInfo, m_MapDeviceSessionInfo>>
        /\ \/ wpc' = wpc
           \/ /\ fd # NoFd
              /\ \A u \in Threads : wpc'[u] = IF u = t THEN [at |-> "unregister", fd |-> fd]
                                               ELSE wpc[u]
    BY <1>3 DEF DelClientConn, deviceVars
  <2> HIDE DEF s
  <2>3. fd # NoFd => m_MapDeviceInfo[t][fd] # NoSession
    BY <1>0, <2>1 DEF MapsAgree
  <2> HIDE DEF fd
  <2>4. MapsAgree'
    BY <2>2 DEF MapsAgree
  <2>5. ASSUME NEW u \in Threads, wpc'[u].at \in AtDevice
        PROVE  m_MapDeviceInfo[u][wpc'[u].fd] # NoSession
    <3>1. CASE wpc'[u] = wpc[u]
      BY <2>5, <3>1 DEF RemovesDevice
    <3>2. CASE fd # NoFd /\ u = t /\ wpc'[u].fd = fd
      BY <2>3, <3>2
    <3> QED
      BY <2>2, <3>1, <3>2
  <2> QED
    BY <2>2, <2>4, <2>5 DEF RemovesDevice
<1>4. ASSUME NEW t \in Threads, WritePacketFails(t) PROVE MapsAgree' /\ RemovesDevice'
  <2> DEFINE s  == Head(m_queue_thread[t]).session_id
             fd == m_MapDeviceSessionInfo[t][s]
  <2>1. s \in Sessions
    BY <1>4, TakeTaskTyped, ThreadTaskFields DEF WritePacketFails
  <2>2. /\ UNCHANGED <<m_MapDeviceInfo, m_MapDeviceSessionInfo>>
        /\ fd # NoFd
        /\ \A u \in Threads : wpc'[u] = IF u = t THEN [at |-> "remove", fd |-> fd]
                                         ELSE wpc[u]
    BY <1>4 DEF WritePacketFails, deviceVars
  <2> HIDE DEF s
  <2>3. m_MapDeviceInfo[t][fd] # NoSession
    BY <1>0, <2>1, <2>2 DEF MapsAgree
  <2> HIDE DEF fd
  <2>4. MapsAgree'
    BY <2>2 DEF MapsAgree
  <2>5. ASSUME NEW u \in Threads, wpc'[u].at \in AtDevice
        PROVE  m_MapDeviceInfo[u][wpc'[u].fd] # NoSession
    <3>1. CASE u # t
      BY <2>2, <2>5, <3>1 DEF RemovesDevice
    <3>2. CASE u = t
      BY <2>2, <2>3, <3>2
    <3> QED
      BY <3>1, <3>2
  <2> QED
    BY <2>2, <2>4, <2>5 DEF RemovesDevice
<1>5. ASSUME NEW t \in Threads, NEW w, w.at \in AtDevice => m_MapDeviceInfo[t][w.fd] # NoSession,
             wpc' = [wpc EXCEPT ![t] = w],
             UNCHANGED <<m_MapDeviceInfo, m_MapDeviceSessionInfo>>
      PROVE  MapsAgree' /\ RemovesDevice'
  <2>1. \A u \in Threads : wpc'[u] = IF u = t THEN w ELSE wpc[u]
    BY <1>5
  <2>2. RemovesDevice'
    BY <1>5, <2>1 DEF RemovesDevice
  <2> QED
    BY <1>5, <2>2 DEF MapsAgree
<1>9. ASSUME NEW t \in Threads, ReadFails(t) \/ \E fd \in Fds : FlushFails(t, fd)
      PROVE  MapsAgree' /\ RemovesDevice'
  <2>1. PICK fd \in Fds : m_MapDeviceInfo[t][fd] \in Sessions /\ EventFails(t, fd)
    BY <1>9, EventFailed
  <2>2. UNCHANGED <<m_MapDeviceInfo, m_MapDeviceSessionInfo>>
    BY <1>9, EventFailed DEF DeviceLeft, deviceVars
  <2> QED
    BY <1>0, <1>5, <2>1, <2>2 DEF EventFails
<1>10. ASSUME NEW t \in Threads,
              ReadStops(t) \/ \E fd \in Fds : ClientEvent(t, fd) \/ FlushSendBuffer(t, fd)
       PROVE  MapsAgree' /\ RemovesDevice'
  <2>1. UNCHANGED <<m_MapDeviceInfo, m_MapDeviceSessionInfo>>
    BY <1>10, EventReported DEF DeviceLeft, deviceVars
  <2>2. CASE wpc' = [wpc EXCEPT ![t] = WorkerIdle]
    BY <1>5, <2>1, <2>2 DEF WorkerIdle
  <2>3. ASSUME NEW fd \in Fds, m_MapDeviceInfo[t][fd] # NoSession,
               wpc' = [wpc EXCEPT ![t] = [at |-> "read", fd |-> fd]]
        PROVE  MapsAgree' /\ RemovesDevice'
    BY <1>5, <2>1, <2>3
  <2> QED
    BY <1>10, <2>2, <2>3, EventReported
<1>6. ASSUME NEW t \in Threads,
             \/ AddListener(t) \/ RegisterFailure(t) \/ WritePacket(t)
             \/ ReadFrame(t) \/ UNCHANGED workerVars
      PROVE  MapsAgree' /\ RemovesDevice'
  <2>1. UNCHANGED <<m_MapDeviceInfo, m_MapDeviceSessionInfo, wpc>>
    BY <1>6 DEF AddListener, RegisterFailure, WritePacket, ReadFrame,
                workerVars, deviceVars
  <2> QED
    BY <2>1 DEF MapsAgree, RemovesDevice
<1>7. ASSUME NEW t \in Threads,
             CloseDevice(t) \/ AcceptEvent(t) \/ Accept(t) \/ PushConn(t) \/ AcceptStops(t)
      PROVE  MapsAgree' /\ RemovesDevice'
  <2>1. UNCHANGED <<m_MapDeviceInfo, m_MapDeviceSessionInfo>>
    BY <1>7 DEF CloseDevice, AcceptEvent, Accept, PushConn, AcceptStops, deviceVars
  <2>2. MapsAgree'
    BY <2>1 DEF MapsAgree
  <2>3. CASE CloseDevice(t)
    <3>1. /\ \A u \in Threads \ {t} : wpc'[u] = wpc[u]
          /\ wpc[t].at = "remove" /\ wpc'[t].fd = wpc[t].fd
      BY <2>3 DEF CloseDevice
    <3> QED
      BY <2>1, <2>2, <3>1 DEF RemovesDevice
  <2>4. CASE ~ CloseDevice(t)
    <3>1. /\ \A u \in Threads \ {t} : wpc'[u] = wpc[u]
          /\ wpc'[t].at \notin AtDevice
      BY <1>7, <2>4 DEF AcceptEvent, Accept, PushConn, AcceptStops, WorkerIdle
    <3> QED
      BY <2>1, <2>2, <3>1 DEF RemovesDevice
  <2> QED
    BY <2>2, <2>3, <2>4
<1>8. CASE Client \/ MainTask \/ Application \/ UNCHANGED vars
  <2>1. UNCHANGED <<m_MapDeviceInfo, m_MapDeviceSessionInfo, wpc>>
    BY <1>8, WorkersKept DEF workerVars, deviceVars
  <2> QED
    BY <2>1 DEF MapsAgree, RemovesDevice
<1> QED
  BY <1>1, <1>2, <1>3, <1>4, <1>6, <1>7, <1>8, <1>9, <1>10 DEF Next, Worker

(* In every interleaving of the workers, main and the clients every task   *)
(* carries what its handler needs and every handler has the descriptor it  *)
(* works on: no handler looks up a key that cannot be there.               *)
THEOREM TypeCorrect == Spec => []TypeOK
<1> DEFINE Inv == TypeOK /\ MapsAgree /\ RemovesDevice
<1>1. Inv /\ [Next]_vars => Inv'
  BY NextTyped, MapsStep
<1>2. Init => Inv
  BY InitTyped DEF Init, MapsAgree, RemovesDevice, AtDevice, WorkerIdle
<1> QED
  BY <1>1, <1>2, PTL DEF Spec

LEMMA ListenerTaken ==
    ASSUME TypeOK, OneListener, NEW t \in Threads, NEW type, TaskAtWorker(t, type),
           TakeTask(t), type = "LISTENER" \/ UNCHANGED listener
    PROVE  OneListener'
<1>1. \A u \in Threads, i \in Nat :
        ListenerIn(u, i)' => ListenerIn(u, IF u = t THEN i + 1 ELSE i) /\ i # 0
  BY TakenFromThread DEF TypeOK, ListenerIn, QueueTypeOK
<1>2. type = "LISTENER" => ListenerIn(t, 1)
  BY TakenFromThread DEF TypeOK, ListenerIn
<1> QED
  BY <1>1, <1>2 DEF OneListener

LEMMA ListenerPushed ==
    ASSUME TypeOK, OneListener, NEW t \in Threads, NEW k \in ToThreadTasks,
           k.type # "LISTENER", push_task(t, k), UNCHANGED listener
    PROVE  OneListener'
<1> DEFINE n == Len(m_queue_thread[t]) + 1
<1>1. /\ m_queue_thread'[t][n] = k
      /\ \A u \in Threads, i \in Nat :
            /\ i \in DOMAIN m_queue_thread'[u] <=>
                    i \in DOMAIN m_queue_thread[u] \/ (u = t /\ i = n)
            /\ i \in DOMAIN m_queue_thread[u] =>
                    m_queue_thread'[u][i] = m_queue_thread[u][i]
  BY PushedToThread DEF TypeOK
<1> HIDE DEF n
<1>2. \A u \in Threads, i \in Nat : ListenerIn(u, i)' => ListenerIn(u, i)
  BY <1>1 DEF ListenerIn
<1> QED
  BY <1>2 DEF OneListener

LEMMA ListenerStep ==
    ASSUME TypeOK, OneListener, [Next]_vars
    PROVE  OneListener'
<1>1. CASE UNCHANGED <<m_queue_thread, listener>>
  BY <1>1 DEF OneListener, ListenerIn
<1>2. ASSUME NEW t \in Threads, AddListener(t) PROVE OneListener'
  BY <1>2, ListenerTaken DEF AddListener
<1>3. ASSUME NEW t \in Threads,
             \/ AddClientConn(t) \/ DelClientConn(t) \/ WritePacket(t)
             \/ WritePacketFails(t) \/ RegisterFailure(t)
      PROVE  OneListener'
  <2>1. UNCHANGED listener /\ TakeTask(t) /\ \E type : TaskAtWorker(t, type)
    BY <1>3 DEF AddClientConn, DelClientConn, WritePacket, WritePacketFails,
                RegisterFailure, workerVars
  <2> QED
    BY <2>1, ListenerTaken
<1>4. ASSUME NEW t \in Threads, WorkerStep(t)
      PROVE  OneListener'
  <2>1. CASE UNCHANGED <<m_queue_thread, listener>>
    BY <1>1, <2>1
  <2>2. CASE ~ UNCHANGED <<m_queue_thread, listener>>
    BY <1>2, <1>3, <1>4, <2>2
    DEF WorkerStep, Worker, ClientEvent, FlushSendBuffer, FlushFails, ReadFrame,
        ReadStops, ReadFails, CloseDevice, EraseDevice, AcceptEvent, Accept, PushConn,
        AcceptStops, workerVars, queueVars
  <2> QED
    BY <2>1, <2>2
<1>5. ASSUME NEW t \in Threads, PushInsert(t) PROVE OneListener'
  <2>1. mpc.fd \in Fds /\ mpc.session \in Sessions
    BY <1>5 DEF PushInsert, TypeOK, MainTypeOK, MainIdle, Scan
  <2> QED
    BY <1>5, <2>1, TaskShapes, ListenerPushed DEF PushInsert, workerVars, TaskInsert, Task
<1>6. ASSUME NEW s \in Sessions, CloseConn(s) \/ SendMsgToConn(s) PROVE OneListener'
  <2>1. m_MapSessionConnInfo[s] \in Threads
    BY <1>6 DEF CloseConn, SendMsgToConn, TypeOK, MainTypeOK
  <2>2. CASE CloseConn(s)
    BY <2>1, <2>2, TaskShapes, ListenerPushed DEF CloseConn, workerVars, TaskDelete, Task
  <2>3. CASE SendMsgToConn(s)
    BY <2>1, <2>3, TaskShapes, ListenerPushed DEF SendMsgToConn, workerVars, TaskSend, Task
  <2> QED
    BY <1>6, <2>2, <2>3
<1>7. CASE Client \/ UNCHANGED vars
  BY <1>1, <1>7 DEF Client, Connect, ClientSend, ClientMore, ClientGone, vars,
     queueVars, workerVars
<1>8. CASE MainTask
  BY <1>1, <1>5, <1>8 DEF MainTask, NewSession, ReadPressure, ComparePressure,
     HandlePacket, OnClose, AddNewConn, RemoveSessionConn, queueVars, workerVars
<1> QED
  BY <1>4, <1>6, <1>7, <1>8 DEF Next, Application, WorkerStep

(* The devices of a thread, and what adding and erasing one does to their  *)
(* number.                                                                 *)
DeviceFds(t) == {fd \in Fds : m_MapDeviceInfo[t][fd] # NoSession}

LEMMA DevicesCounted ==
    /\ \A t \in Threads :
        /\ IsFiniteSet(DeviceFds(t)) /\ Cardinality(DeviceFds(t)) \in Int
        /\ Devices(t) = Cardinality(DeviceFds(t)) + IF listener = t THEN 1 ELSE 0
        /\ Devices(t) \in Int
    /\ \A t \in Threads :
        Devices(t)' = Cardinality(DeviceFds(t)') + IF listener' = t THEN 1 ELSE 0
<1>1. ASSUME NEW t \in Threads
      PROVE  /\ IsFiniteSet(DeviceFds(t)) /\ Cardinality(DeviceFds(t)) \in Int
             /\ Devices(t) = Cardinality(DeviceFds(t)) + IF listener = t THEN 1 ELSE 0
             /\ Devices(t) \in Int
  <2>1. IsFiniteSet(DeviceFds(t))
    BY ConstantAssumption, FS_Subset DEF DeviceFds
  <2>2. Cardinality(DeviceFds(t)) \in Nat
    BY <2>1, FS_CardinalityType
  <2>3. Devices(t) = Cardinality(DeviceFds(t)) + IF listener = t THEN 1 ELSE 0
    BY DEF Devices, DeviceFds
  <2> QED
    BY <2>1, <2>2, <2>3
<1>2. ASSUME NEW t \in Threads
      PROVE  Devices(t)' = Cardinality(DeviceFds(t)') + IF listener' = t THEN 1 ELSE 0
  BY DEF Devices, DeviceFds
<1> QED
  BY <1>1, <1>2

(* The pressure of every thread moves with what the thread has to serve.   *)
Follows ==
    \A t \in Threads :
        m_pressure'[t] - m_pressure[t] = Devices(t)' - Devices(t)

LEMMA PressureStep ==
    ASSUME TypeOK, RemovesDevice, OneListener, [Next]_vars
    PROVE  Follows
<1> USE DEF TypeOK
<1>0. \A t \in Threads : m_pressure[t] \in Int
  BY DEF WorkerTypeOK
<1>1. CASE UNCHANGED <<listener, m_MapDeviceInfo, m_pressure>>
  <2>1. \A t \in Threads : Devices(t)' = Devices(t)
    BY <1>1 DEF Devices
  <2> QED
    BY <1>0, <1>1, <2>1, DevicesCounted DEF Follows
<1>2. ASSUME NEW t \in Threads, AddListener(t) PROVE Follows
  <2>1. listener = NoThread /\ listener' = t
    <3>1. ListenerIn(t, 1)
      BY <1>2, TakenFromThread DEF AddListener, ListenerIn
    <3> QED
      BY <1>2, <3>1 DEF AddListener, OneListener
  <2>2. \A u \in Threads :
            m_pressure'[u] = IF u = t THEN m_pressure[u] + 1 ELSE m_pressure[u]
    BY <1>2 DEF AddListener, WorkerTypeOK
  <2>3. \A u \in Threads : DeviceFds(u)' = DeviceFds(u)
    BY <1>2 DEF AddListener, DeviceFds
  <2>4. NoThread \notin Threads
    BY ConstantAssumption
  <2> QED
    BY <1>0, <2>1, <2>2, <2>3, <2>4, DevicesCounted DEF Follows
<1>3. ASSUME NEW t \in Threads, AddClientConn(t) PROVE Follows
  <2> DEFINE fd == Head(m_queue_thread[t]).fd
             s  == Head(m_queue_thread[t]).session_id
             isNew == /\ m_MapDeviceSessionInfo[t][s] = NoFd
                      /\ m_MapDeviceInfo[t][fd] = NoSession
  <2>1. fd \in Fds /\ s \in Sessions /\ s # NoSession
    BY <1>3, TakeTaskTyped, ThreadTaskFields DEF AddClientConn, Sessions, NoSession
  <2>2. /\ UNCHANGED listener
        /\ m_MapDeviceInfo' = [m_MapDeviceInfo EXCEPT ![t][fd] = IF isNew THEN s ELSE @]
        /\ m_pressure' = [m_pressure EXCEPT ![t] = IF isNew THEN @ + 1 ELSE @]
    BY <1>3 DEF AddClientConn
  <2> HIDE DEF fd, s
  <2>3. CASE isNew
    <3>1. \A u \in Threads :
            DeviceFds(u)' = IF u = t THEN DeviceFds(u) \cup {fd} ELSE DeviceFds(u)
      BY <2>1, <2>2, <2>3 DEF WorkerTypeOK, DeviceFds
    <3>2. Cardinality(DeviceFds(t) \cup {fd}) = Cardinality(DeviceFds(t)) + 1
      BY <2>3, FS_AddElement, DevicesCounted DEF DeviceFds
    <3>3. \A u \in Threads :
            m_pressure'[u] = IF u = t THEN m_pressure[u] + 1 ELSE m_pressure[u]
      BY <2>2, <2>3 DEF WorkerTypeOK
    <3>a. Devices(t)' = Devices(t) + 1
      <4>1. DeviceFds(t)' = DeviceFds(t) \cup {fd} /\ listener' = listener
        BY <2>2, <3>1
      <4>2. PICK n \in Int : n = IF listener = t THEN 1 ELSE 0
        OBVIOUS
      <4>3. Devices(t) = Cardinality(DeviceFds(t)) + n
        BY <4>2, DevicesCounted
      <4>4. Devices(t)' = Cardinality(DeviceFds(t)) + 1 + n
        BY <3>2, <4>1, <4>2, DevicesCounted
      <4>5. Cardinality(DeviceFds(t)) \in Int
        BY DevicesCounted
      <4> QED
        BY ONLY <4>2, <4>3, <4>4, <4>5
    <3>4. ASSUME NEW u \in Threads
          PROVE  m_pressure'[u] - m_pressure[u] = Devices(u)' - Devices(u)
      <4>1. CASE u = t
        BY <1>0, <3>a, <3>3, <4>1, DevicesCounted
      <4>2. CASE u # t
        BY <1>0, <2>2, <3>1, <3>3, <4>2, DevicesCounted
      <4> QED
        BY <4>1, <4>2
    <3> QED
      BY <3>4 DEF Follows
  <2>4. CASE ~ isNew
    <3>1. m_MapDeviceInfo' = m_MapDeviceInfo /\ m_pressure' = m_pressure
      BY <2>1, <2>2, <2>4 DEF WorkerTypeOK
    <3> QED
      BY <1>1, <2>2, <3>1
  <2> QED
    BY <2>3, <2>4
<1>4. ASSUME NEW t \in Threads, EraseDevice(t) PROVE Follows
  <2> DEFINE fd == wpc[t].fd
  <2>1. fd \in Fds /\ m_MapDeviceInfo[t][fd] # NoSession
    BY <1>4 DEF EraseDevice, WorkerTypeOK, RemovesDevice, AtDevice
  <2>2. /\ UNCHANGED listener
        /\ m_MapDeviceInfo' = [m_MapDeviceInfo EXCEPT ![t][fd] = NoSession]
        /\ m_pressure' = [m_pressure EXCEPT ![t] = @ + RemovedPressure]
    BY <1>4 DEF EraseDevice
  <2> HIDE DEF fd
  <2>3. \A u \in Threads :
          DeviceFds(u)' = IF u = t THEN DeviceFds(u) \ {fd} ELSE DeviceFds(u)
    BY <2>1, <2>2 DEF WorkerTypeOK, DeviceFds
  <2>4. Cardinality(DeviceFds(t) \ {fd}) = Cardinality(DeviceFds(t)) - 1
    BY <2>1, FS_RemoveElement, DevicesCounted DEF DeviceFds
  <2>5. \A u \in Threads :
          m_pressure'[u] = IF u = t THEN m_pressure[u] - 1 ELSE m_pressure[u]
    BY <1>0, <2>2 DEF WorkerTypeOK, RemovedPressure
  <2>a. Devices(t)' = Devices(t) - 1
    <3>1. DeviceFds(t)' = DeviceFds(t) \ {fd} /\ listener' = listener
      BY <2>2, <2>3
    <3>2. PICK n \in Int : n = IF listener = t THEN 1 ELSE 0
      OBVIOUS
    <3>3. Devices(t) = Cardinality(DeviceFds(t)) + n
      BY <3>2, DevicesCounted
    <3>4. Devices(t)' = Cardinality(DeviceFds(t)) - 1 + n
      BY <2>4, <3>1, <3>2, DevicesCounted
    <3>5. Cardinality(DeviceFds(t)) \in Int
      BY DevicesCounted
    <3> QED
      BY ONLY <3>2, <3>3, <3>4, <3>5
  <2>6. ASSUME NEW u \in Threads
        PROVE  m_pressure'[u] - m_pressure[u] = Devices(u)' - Devices(u)
    <3>1. CASE u = t
      BY <1>0, <2>a, <2>5, <3>1, DevicesCounted
    <3>2. CASE u # t
      BY <1>0, <2>2, <2>3, <2>5, <3>2, DevicesCounted
    <3> QED
      BY <3>1, <3>2
  <2> QED
    BY <2>6 DEF Follows
<1>5. ASSUME NEW t \in Threads, WorkerStep(t) PROVE Follows
  <2>1. AddListener(t) \/ AddClientConn(t) \/ EraseDevice(t)
            \/ UNCHANGED <<listener, m_MapDeviceInfo, m_pressure>>
    BY <1>5 DEF WorkerStep, Worker, RegisterFailure, DelClientConn, WritePacket,
       WritePacketFails, ClientEvent, FlushSendBuffer, FlushFails, ReadFrame, ReadStops,
       ReadFails, CloseDevice, AcceptEvent, Accept, PushConn, AcceptStops, workerVars,
       deviceVars
  <2> QED
    BY <1>1, <1>2, <1>3, <1>4, <2>1
<1>6. CASE Client \/ MainTask \/ Application \/ UNCHANGED vars
  BY <1>1, <1>6, WorkersKept DEF workerVars, deviceVars
<1> QED
  BY <1>5, <1>6 DEF Next, WorkerStep

PressureInv == TypeOK /\ MapsAgree /\ RemovesDevice /\ OneListener

LEMMA PressureInit == Init => PressureInv
<1> SUFFICES ASSUME Init PROVE PressureInv
  OBVIOUS
<1>1. TypeOK
  BY InitTyped
<1>2. MapsAgree /\ RemovesDevice
  BY DEF Init, MapsAgree, RemovesDevice, AtDevice, WorkerIdle
<1>3. OneListener
  <2>1. PICK l \in Threads :
            m_queue_thread = [t \in Threads |-> IF t = l THEN <<TaskListener>> ELSE <<>>]
    BY DEF Init
  <2>2. \A t \in Threads, i \in Nat : ListenerIn(t, i) => t = l /\ i = 1
    BY <2>1 DEF ListenerIn
  <2> QED
    BY <2>2 DEF OneListener, Init
<1> QED
  BY <1>1, <1>2, <1>3 DEF PressureInv

(* m_pressure never drifts from the number of devices, whichever of the    *)
(* ways a device is removed, however its thread interleaves with main,     *)
(* which reads the counters meanwhile (EpollHandler.cpp:153-274), and      *)
(* whatever it holds at the start (thread.h:27).                           *)
THEOREM PressureCorrect == Spec => PressureFollowsDevices
<1>1. PressureInv /\ [Next]_vars => PressureInv'
  BY NextTyped, MapsStep, ListenerStep DEF PressureInv
<1>2. PressureInv /\ [Next]_vars => [Follows]_vars
  BY PressureStep DEF PressureInv
<1>3. [][Follows]_vars => PressureFollowsDevices
  <2>1. Follows <=> \A t \in Threads :
                        m_pressure'[t] - m_pressure[t] = Devices(t)' - Devices(t)
    BY DEF Follows
  <2> QED
    BY <2>1, PTL DEF PressureFollowsDevices
<1> QED
  BY <1>1, <1>2, <1>3, PressureInit, PTL DEF Spec

-----------------------------------------------------------------------------
(* Who is responsible for an open descriptor, and which connection a       *)
(* session belongs to.                                                     *)

(* An open descriptor refers to an open connection and no other does.      *)
FilesOpen ==
    /\ \A fd \in Fds : file[fd] # NoConn =>
        /\ sock[file[fd]] = "open"
        /\ \A g \in Fds : file[g] = file[fd] => g = fd
    /\ \A c \in orphans : c \in Conns /\ sock[c] \in {"open", "closed"}

(* The places where a descriptor or a session can be: Holders() with the   *)
(* place in a queue as a number of its own.                                *)
Kinds  == {"accepted", "CLIENTCONN", "main", "INSERT", "device", "orphan"}
Owners == Threads \cup {NoThread}

ConnIn(t, i, fd) ==
    i \in DOMAIN m_queue_main[t] /\ m_queue_main[t][i] = TaskConn(fd)
InsertIn(t, i) ==
    i \in DOMAIN m_queue_thread[t] /\ m_queue_thread[t][i].type = "INSERT"

Held(k, t, i, fd) ==
    \/ /\ k = "accepted" /\ t \in Threads /\ i = 0
       /\ wpc[t] = [at |-> "push", fd |-> fd]
    \/ k = "CLIENTCONN" /\ t \in Threads /\ ConnIn(t, i, fd)
    \/ k = "main" /\ t = NoThread /\ i = 0 /\ mpc.at = "scan" /\ mpc.fd = fd
    \/ k = "INSERT" /\ t \in Threads /\ InsertIn(t, i) /\ m_queue_thread[t][i].fd = fd
    \/ /\ k = "device" /\ t \in Threads /\ i = 0
       /\ m_MapDeviceInfo[t][fd] # NoSession /\ ~ HasClosed(t, fd)
    \/ k = "orphan" /\ t = NoThread /\ i = 0 /\ file[fd] \in orphans

Borne(k, t, i, s) ==
    \/ k = "main" /\ t = NoThread /\ i = 0 /\ mpc.at = "scan" /\ mpc.session = s
    \/ k = "INSERT" /\ t \in Threads /\ InsertIn(t, i) /\ m_queue_thread[t][i].session_id = s
    \/ k = "device" /\ t \in Threads /\ i = 0 /\ m_MapDeviceSessionInfo[t][s] # NoFd

OnePerFd ==
    \A fd \in Fds :
        /\ file[fd] # NoConn <=> \E k \in Kinds, t \in Owners, i \in Nat : Held(k, t, i, fd)
        /\ \A k, l \in Kinds, t, u \in Owners, i, j \in Nat :
            Held(k, t, i, fd) /\ Held(l, u, j, fd) => k = l /\ t = u /\ i = j

OnePerSession ==
    \A s \in Sessions, k \in Kinds, t \in Owners, i \in Nat : Borne(k, t, i, s) =>
        /\ s < nextSession
        /\ \A l \in Kinds, u \in Owners, j \in Nat :
            Borne(l, u, j, s) => k = l /\ t = u /\ i = j

(* Whoever has a descriptor and a session has those of one connection. *)
SessionsMatch ==
    /\ mpc.at = "scan" => connOf[mpc.session] = file[mpc.fd]
    /\ \A t \in Threads, i \in Nat : InsertIn(t, i) =>
        LET k == m_queue_thread[t][i] IN connOf[k.session_id] = file[k.fd]
    /\ \A t \in Threads, fd \in Fds : Held("device", t, 0, fd) =>
        connOf[m_MapDeviceInfo[t][fd]] = file[fd] /\ fd \in interest[t]

HolderInv == FilesOpen /\ OnePerFd /\ OnePerSession /\ SessionsMatch

(* The tasks that carry descriptors keep their places, but for the queue   *)
(* of thread a, which has lost its first task.                             *)
Shift(u, a) == IF u = a THEN 1 ELSE 0

InsertsKept(a) ==
    \A u \in Threads, i \in Nat :
        /\ InsertIn(u, i)' <=> i # 0 /\ InsertIn(u, i + Shift(u, a))
        /\ InsertIn(u, i)' => m_queue_thread'[u][i] = m_queue_thread[u][i + Shift(u, a)]

ConnsKept(a) ==
    \A u \in Threads, i \in Nat, fd \in Fds :
        ConnIn(u, i, fd)' <=> i # 0 /\ ConnIn(u, i + Shift(u, a), fd)

LEMMA PlacesPositive ==
    ASSUME QueueTypeOK
    PROVE  /\ \A u \in Threads, i \in Nat : InsertIn(u, i) => i # 0
           /\ \A u \in Threads, i \in Nat, fd \in Fds : ConnIn(u, i, fd) => i # 0
BY DEF QueueTypeOK, InsertIn, ConnIn

LEMMA InsertsTaken ==
    ASSUME QueueTypeOK, NEW t \in Threads, NEW type, TaskAtWorker(t, type), TakeTask(t)
    PROVE  /\ InsertsKept(t)
           /\ InsertIn(t, 1) <=> type = "INSERT"
           /\ Head(m_queue_thread[t]) = m_queue_thread[t][1]
<1>1. /\ 1 \in DOMAIN m_queue_thread[t]
      /\ Head(m_queue_thread[t]) = m_queue_thread[t][1]
      /\ m_queue_thread[t][1].type = type
      /\ \A u \in Threads, i \in Nat :
            /\ i \in DOMAIN m_queue_thread'[u] <=>
                    IF u = t THEN i # 0 /\ i + 1 \in DOMAIN m_queue_thread[t]
                    ELSE i \in DOMAIN m_queue_thread[u]
            /\ i \in DOMAIN m_queue_thread'[u] => m_queue_thread'[u][i] =
                    m_queue_thread[u][IF u = t THEN i + 1 ELSE i]
  BY TakenFromThread
<1>2. \A u \in Threads : 0 \notin DOMAIN m_queue_thread[u]
  BY DEF QueueTypeOK
<1>3. ASSUME NEW u \in Threads, NEW i \in Nat
      PROVE  /\ InsertIn(u, i)' <=> i # 0 /\ InsertIn(u, i + Shift(u, t))
             /\ InsertIn(u, i)' =>
                    m_queue_thread'[u][i] = m_queue_thread[u][i + Shift(u, t)]
  <2>1. CASE u = t
    BY <1>1, <2>1 DEF InsertIn, Shift
  <2>2. CASE u # t
    BY <1>1, <1>2, <2>2 DEF InsertIn, Shift
  <2> QED
    BY <2>1, <2>2
<1>4. InsertsKept(t)
  BY <1>3 DEF InsertsKept
<1> QED
  BY <1>1, <1>4 DEF InsertIn

LEMMA ConnsTaken ==
    ASSUME QueueTypeOK, NEW t \in Threads, NEW type, TaskAtMain(t, type), TakeMainTask(t)
    PROVE  /\ ConnsKept(t)
           /\ \A fd \in Fds : ConnIn(t, 1, fd) <=>
                    type = "CLIENTCONN" /\ fd = Head(m_queue_main[t]).fd
           /\ Head(m_queue_main[t]) = m_queue_main[t][1]
<1>1. /\ 1 \in DOMAIN m_queue_main[t]
      /\ Head(m_queue_main[t]) = m_queue_main[t][1]
      /\ m_queue_main[t][1].type = type
      /\ \A u \in Threads, i \in Nat :
            /\ i \in DOMAIN m_queue_main'[u] <=>
                    IF u = t THEN i # 0 /\ i + 1 \in DOMAIN m_queue_main[t]
                    ELSE i \in DOMAIN m_queue_main[u]
            /\ i \in DOMAIN m_queue_main'[u] => m_queue_main'[u][i] =
                    m_queue_main[u][IF u = t THEN i + 1 ELSE i]
  BY TakenFromMain
<1>2. \A u \in Threads : 0 \notin DOMAIN m_queue_main[u]
  BY DEF QueueTypeOK
<1>3. ASSUME NEW u \in Threads, NEW i \in Nat, NEW fd \in Fds
      PROVE  ConnIn(u, i, fd)' <=> i # 0 /\ ConnIn(u, i + Shift(u, t), fd)
  <2>1. CASE u = t
    BY <1>1, <2>1 DEF ConnIn, Shift
  <2>2. CASE u # t
    BY <1>1, <1>2, <2>2 DEF ConnIn, Shift
  <2> QED
    BY <2>1, <2>2
<1>4. ConnsKept(t)
  BY <1>3 DEF ConnsKept
<1>5. m_queue_main[t][1] \in ToMainTasks
  BY <1>1, TakeMainTaskTyped
<1>6. ASSUME NEW fd \in Fds
      PROVE  m_queue_main[t][1] = TaskConn(fd) <=>
                type = "CLIENTCONN" /\ fd = m_queue_main[t][1].fd
  BY <1>1, <1>5 DEF ToMainTasks, TaskConn, TaskOnClose, TaskPacket, Task
<1> QED
  BY <1>1, <1>4, <1>6 DEF ConnIn

LEMMA InsertsPushed ==
    ASSUME QueueTypeOK, NEW t \in Threads, NEW k \in ToThreadTasks,
           k.type # "INSERT", push_task(t, k)
    PROVE  InsertsKept(NoThread)
<1> DEFINE n == Len(m_queue_thread[t]) + 1
<1>1. /\ m_queue_thread'[t][n] = k
      /\ \A u \in Threads, i \in Nat :
            /\ i \in DOMAIN m_queue_thread'[u] <=>
                    i \in DOMAIN m_queue_thread[u] \/ (u = t /\ i = n)
            /\ i \in DOMAIN m_queue_thread[u] =>
                    m_queue_thread'[u][i] = m_queue_thread[u][i]
  BY PushedToThread
<1> HIDE DEF n
<1>2. \A u \in Threads : 0 \notin DOMAIN m_queue_thread[u]
  BY DEF QueueTypeOK
<1> QED
  BY <1>1, <1>2, ConstantAssumption DEF InsertsKept, InsertIn, Shift

LEMMA ConnsPushed ==
    ASSUME QueueTypeOK, NEW t \in Threads, NEW k \in ToMainTasks,
           k.type # "CLIENTCONN", push_task_main(t, k)
    PROVE  ConnsKept(NoThread)
<1> DEFINE n == Len(m_queue_main[t]) + 1
<1>1. /\ m_queue_main'[t][n] = k
      /\ \A u \in Threads, i \in Nat :
            /\ i \in DOMAIN m_queue_main'[u] <=>
                    i \in DOMAIN m_queue_main[u] \/ (u = t /\ i = n)
            /\ i \in DOMAIN m_queue_main[u] =>
                    m_queue_main'[u][i] = m_queue_main[u][i]
  BY PushedToMain
<1> HIDE DEF n
<1>2. \A u \in Threads : 0 \notin DOMAIN m_queue_main[u]
  BY DEF QueueTypeOK
<1> QED
  BY <1>1, <1>2, ConstantAssumption DEF ConnsKept, ConnIn, Shift, TaskConn, Task

LEMMA QueuesUnchanged ==
    ASSUME QueueTypeOK
    PROVE  /\ UNCHANGED m_queue_thread => InsertsKept(NoThread)
           /\ UNCHANGED m_queue_main => ConnsKept(NoThread)
<1>1. \A u \in Threads : 0 \notin DOMAIN m_queue_thread[u] /\ 0 \notin DOMAIN m_queue_main[u]
  BY DEF QueueTypeOK
<1> QED
  BY <1>1, ConstantAssumption DEF InsertsKept, ConnsKept, InsertIn, ConnIn, Shift

(* The places of descriptors and sessions after a step in which the queues *)
(* of a and b lost their first task.                                       *)
Off(k, t, a, b) ==
    IF (k = "INSERT" /\ t = a) \/ (k = "CLIENTCONN" /\ t = b) THEN 1 ELSE 0

(* A step that changes the holder of one descriptor f, or of none, keeps   *)
(* every other holder, and gives f one holder or closes it.                *)
FdMoves(a, b, f, k1, t1, i1) ==
    /\ \A g \in Fds \ {f} : file'[g] = file[g]
    /\ \A g \in Fds \ {f}, k \in Kinds, t \in Owners, i \in Nat :
        /\ Held(k, t, i, g)' => Held(k, t, i + Off(k, t, a, b), g)
        /\ Held(k, t, i, g) =>
                i >= Off(k, t, a, b) /\ Held(k, t, i - Off(k, t, a, b), g)'
    /\ f \in Fds => \A k \in Kinds, t \in Owners, i \in Nat :
        Held(k, t, i, f)' <=> file'[f] # NoConn /\ k = k1 /\ t = t1 /\ i = i1

LEMMA HandOver ==
    ASSUME OnePerFd, NEW a \in Owners, NEW b \in Owners, NEW f,
           NEW k1 \in Kinds, NEW t1 \in Owners, NEW i1 \in Nat,
           FdMoves(a, b, f, k1, t1, i1)
    PROVE  OnePerFd'
<1> USE DEF FdMoves
<1>1. ASSUME NEW g \in Fds \ {f}
      PROVE  /\ file'[g] # NoConn <=> \E k \in Kinds, t \in Owners, i \in Nat : Held(k, t, i, g)'
             /\ \A k, l \in Kinds, t, u \in Owners, i, j \in Nat :
                    Held(k, t, i, g)' /\ Held(l, u, j, g)' => k = l /\ t = u /\ i = j
  <2>0. \A k \in Kinds, t \in Owners : Off(k, t, a, b) \in {0, 1}
    BY DEF Off
  <2>1. ASSUME NEW k \in Kinds, NEW t \in Owners, NEW i \in Nat, Held(k, t, i, g)'
        PROVE  file'[g] # NoConn
    <3>1. Held(k, t, i + Off(k, t, a, b), g) /\ i + Off(k, t, a, b) \in Nat
      BY <2>0, <2>1
    <3> QED
      BY <3>1 DEF OnePerFd
  <2>2. ASSUME file'[g] # NoConn
        PROVE  \E k \in Kinds, t \in Owners, i \in Nat : Held(k, t, i, g)'
    <3>1. PICK k \in Kinds, t \in Owners, i \in Nat : Held(k, t, i, g)
      BY <2>2 DEF OnePerFd
    <3>2. /\ i - Off(k, t, a, b) \in Nat
          /\ Held(k, t, i - Off(k, t, a, b), g)'
      BY <2>0, <3>1
    <3> QED
      BY <3>2
  <2>3. ASSUME NEW k \in Kinds, NEW l \in Kinds, NEW t \in Owners, NEW u \in Owners,
               NEW i \in Nat, NEW j \in Nat, Held(k, t, i, g)', Held(l, u, j, g)'
        PROVE  k = l /\ t = u /\ i = j
    <3>1. /\ i + Off(k, t, a, b) \in Nat /\ j + Off(l, u, a, b) \in Nat
          /\ Held(k, t, i + Off(k, t, a, b), g) /\ Held(l, u, j + Off(l, u, a, b), g)
      BY <2>0, <2>3
    <3>2. k = l /\ t = u /\ i + Off(k, t, a, b) = j + Off(l, u, a, b)
      BY <3>1 DEF OnePerFd
    <3> QED
      BY <2>0, <3>2
  <2> QED
    BY <2>1, <2>2, <2>3
<1>2. ASSUME f \in Fds
      PROVE  /\ file'[f] # NoConn <=> \E k \in Kinds, t \in Owners, i \in Nat : Held(k, t, i, f)'
             /\ \A k, l \in Kinds, t, u \in Owners, i, j \in Nat :
                    Held(k, t, i, f)' /\ Held(l, u, j, f)' => k = l /\ t = u /\ i = j
  BY <1>2
<1>3. ASSUME NEW g \in Fds
      PROVE  /\ file'[g] # NoConn <=> \E k \in Kinds, t \in Owners, i \in Nat : Held(k, t, i, g)'
             /\ \A k, l \in Kinds, t, u \in Owners, i, j \in Nat :
                    Held(k, t, i, g)' /\ Held(l, u, j, g)' => k = l /\ t = u /\ i = j
  BY <1>1, <1>2
<1> QED
  BY <1>3 DEF OnePerFd

(* The same for sessions, which are given up in the end. *)
SessionMoves(a, b, z, k1, t1, i1) ==
    /\ \A s \in Sessions \ {z}, k \in Kinds, t \in Owners, i \in Nat :
        Borne(k, t, i, s)' => Borne(k, t, i + Off(k, t, a, b), s)
    /\ z \in Sessions => \A k \in Kinds, t \in Owners, i \in Nat :
        Borne(k, t, i, z)' => z < nextSession' /\ k = k1 /\ t = t1 /\ i = i1

LEMMA SessionHandOver ==
    ASSUME OnePerSession, nextSession \in Nat, nextSession' \in Nat,
           nextSession <= nextSession',
           NEW a \in Owners, NEW b \in Owners, NEW z,
           NEW k1 \in Kinds, NEW t1 \in Owners, NEW i1 \in Nat,
           SessionMoves(a, b, z, k1, t1, i1)
    PROVE  OnePerSession'
<1> USE DEF SessionMoves
<1>0. \A k \in Kinds, t \in Owners : Off(k, t, a, b) \in {0, 1}
  BY DEF Off
<1>1. ASSUME NEW s \in Sessions, NEW k \in Kinds, NEW t \in Owners, NEW i \in Nat,
             Borne(k, t, i, s)'
      PROVE  s < nextSession'
  <2>1. CASE s = z
    BY <1>1, <2>1
  <2>2. CASE s # z
    <3>1. Borne(k, t, i + Off(k, t, a, b), s) /\ i + Off(k, t, a, b) \in Nat
      BY <1>0, <1>1, <2>2
    <3>2. s < nextSession /\ s \in Int
      BY <3>1 DEF OnePerSession, Sessions
    <3> QED
      BY <3>2
  <2> QED
    BY <2>1, <2>2
<1>2. ASSUME NEW s \in Sessions, NEW k \in Kinds, NEW l \in Kinds,
             NEW t \in Owners, NEW u \in Owners, NEW i \in Nat, NEW j \in Nat,
             Borne(k, t, i, s)', Borne(l, u, j, s)'
      PROVE  k = l /\ t = u /\ i = j
  <2>1. CASE s = z
    BY <1>2, <2>1
  <2>2. CASE s # z
    <3>1. /\ i + Off(k, t, a, b) \in Nat /\ j + Off(l, u, a, b) \in Nat
          /\ Borne(k, t, i + Off(k, t, a, b), s) /\ Borne(l, u, j + Off(l, u, a, b), s)
      BY <1>0, <1>2, <2>2
    <3>2. k = l /\ t = u /\ i + Off(k, t, a, b) = j + Off(l, u, a, b)
      BY <3>1 DEF OnePerSession
    <3> QED
      BY <1>0, <3>2
  <2> QED
    BY <2>1, <2>2
<1> QED
  BY <1>1, <1>2 DEF OnePerSession

(* Held and Borne in parts, for a descriptor g and a session s, and that   *)
(* these parts are after a step as they were before it.                    *)
InsertFor(u, i, g)  == InsertIn(u, i) /\ m_queue_thread[u][i].fd = g
InsertWith(u, i, s) == InsertIn(u, i) /\ m_queue_thread[u][i].session_id = s
MainFor(g)          == mpc.at = "scan" /\ mpc.fd = g
MainWith(s)         == mpc.at = "scan" /\ mpc.session = s
Device(u, g)        == m_MapDeviceInfo[u][g] # NoSession /\ ~ HasClosed(u, g)
Accepted(u, g)      == wpc[u] = [at |-> "push", fd |-> g]

HeldKept(g, a, b) ==
    /\ file'[g] = file[g]
    /\ (file[g] \in orphans)' <=> file[g] \in orphans
    /\ MainFor(g)' <=> MainFor(g)
    /\ \A u \in Threads :
        /\ Accepted(u, g)' <=> Accepted(u, g)
        /\ Device(u, g)' <=> Device(u, g)
    /\ \A u \in Threads, i \in Nat :
        /\ InsertFor(u, i, g)' <=> i # 0 /\ InsertFor(u, i + Shift(u, a), g)
        /\ ConnIn(u, i, g)' <=> i # 0 /\ ConnIn(u, i + Shift(u, b), g)
    /\ a \in Threads => ~ InsertFor(a, 1, g)
    /\ b \in Threads => ~ ConnIn(b, 1, g)

LEMMA OthersHeld ==
    ASSUME QueueTypeOK, NEW a \in Owners, NEW b \in Owners, NEW g \in Fds, HeldKept(g, a, b)
    PROVE  \A k \in Kinds, t \in Owners, i \in Nat :
                /\ Held(k, t, i, g)' => Held(k, t, i + Off(k, t, a, b), g)
                /\ Held(k, t, i, g) =>
                        i >= Off(k, t, a, b) /\ Held(k, t, i - Off(k, t, a, b), g)'
<1> SUFFICES ASSUME NEW k \in Kinds, NEW t \in Owners, NEW i \in Nat
             PROVE  /\ Held(k, t, i, g)' => Held(k, t, i + Off(k, t, a, b), g)
                    /\ Held(k, t, i, g) =>
                        i >= Off(k, t, a, b) /\ Held(k, t, i - Off(k, t, a, b), g)'
  OBVIOUS
<1>1. CASE k = "INSERT"
  <2>1. Off(k, t, a, b) = Shift(t, a) /\ Shift(t, a) \in {0, 1}
    BY <1>1 DEF Off, Shift
  <2>2. CASE t \in Threads
    <3>1. InsertFor(t, i, g)' => InsertFor(t, i + Shift(t, a), g)
      BY <2>2 DEF HeldKept
    <3>2. InsertFor(t, i, g) => i # 0 /\ (Shift(t, a) = 1 => i # 1)
      BY <2>2, PlacesPositive DEF InsertFor, HeldKept, Shift
    <3>3. InsertFor(t, i, g) => /\ i - Shift(t, a) \in Nat /\ i - Shift(t, a) # 0
                                /\ (i - Shift(t, a)) + Shift(t, a) = i
      BY <2>1, <3>2
    <3>4. InsertFor(t, i, g) => i >= Shift(t, a) /\ InsertFor(t, i - Shift(t, a), g)'
      BY <2>1, <2>2, <3>2, <3>3 DEF HeldKept
    <3> QED
      BY <1>1, <2>1, <2>2, <3>1, <3>4 DEF Held, InsertFor
  <2> QED
    BY <1>1, <2>2 DEF Held
<1>2. CASE k = "CLIENTCONN"
  <2>1. Off(k, t, a, b) = Shift(t, b) /\ Shift(t, b) \in {0, 1}
    BY <1>2 DEF Off, Shift
  <2>2. CASE t \in Threads
    <3>1. ConnIn(t, i, g)' => ConnIn(t, i + Shift(t, b), g)
      BY <2>2 DEF HeldKept
    <3>2. ConnIn(t, i, g) => i # 0 /\ (Shift(t, b) = 1 => i # 1)
      BY <2>2, PlacesPositive DEF HeldKept, Shift
    <3>3. ConnIn(t, i, g) => /\ i - Shift(t, b) \in Nat /\ i - Shift(t, b) # 0
                             /\ (i - Shift(t, b)) + Shift(t, b) = i
      BY <2>1, <3>2
    <3>4. ConnIn(t, i, g) => i >= Shift(t, b) /\ ConnIn(t, i - Shift(t, b), g)'
      BY <2>1, <2>2, <3>2, <3>3 DEF HeldKept
    <3> QED
      BY <1>2, <2>1, <2>2, <3>1, <3>4 DEF Held
  <2> QED
    BY <1>2, <2>2 DEF Held
<1>3. CASE k \notin {"INSERT", "CLIENTCONN"}
  <2>1. Off(k, t, a, b) = 0
    BY <1>3 DEF Off
  <2>2. Held(k, t, i, g)' <=> Held(k, t, i, g)
    BY <1>3 DEF HeldKept, Held, MainFor, Device, Accepted
  <2> QED
    BY <2>1, <2>2
<1> QED
  BY <1>1, <1>2, <1>3

LEMMA FdsStay ==
    ASSUME QueueTypeOK, OnePerFd, NEW a \in Owners, NEW b \in Owners,
           \A g \in Fds : HeldKept(g, a, b)
    PROVE  OnePerFd'
<1>0. NoFd \notin Fds /\ "main" \in Kinds /\ NoThread \in Owners /\ 0 \in Nat
  BY ConstantAssumption DEF Kinds, Owners
<1>1. \A g \in Fds, k \in Kinds, t \in Owners, i \in Nat :
        /\ Held(k, t, i, g)' => Held(k, t, i + Off(k, t, a, b), g)
        /\ Held(k, t, i, g) =>
                i >= Off(k, t, a, b) /\ Held(k, t, i - Off(k, t, a, b), g)'
  BY OthersHeld
<1>2. \A g \in Fds : file'[g] = file[g]
  BY DEF HeldKept
<1>3. FdMoves(a, b, NoFd, "main", NoThread, 0)
  BY <1>0, <1>1, <1>2 DEF FdMoves
<1> QED
  BY <1>0, <1>3, HandOver

(* Threads that neither pass a descriptor on nor are between close() and   *)
(* the erase of the maps.                                                  *)
Aside == {"idle", "accept", "read", "remove"}

(* A step that touches no descriptor: a is the thread whose first task it  *)
(* took, b the one whose first task main took, if any.                     *)
LEMMA Undisturbed ==
    ASSUME TypeOK, HolderInv, NEW a \in Owners, NEW b \in Owners,
           InsertsKept(a), a \in Threads => ~ InsertIn(a, 1),
           ConnsKept(b), b \in Threads => \A fd \in Fds : ~ ConnIn(b, 1, fd),
           UNCHANGED <<file, interest, m_MapDeviceInfo, m_MapDeviceSessionInfo,
                       connOf, orphans, nextSession>>,
           \A c \in Conns : sock[c] \in {"open", "closed"} => sock'[c] = sock[c],
           \A u \in Threads : wpc'[u] = wpc[u] \/ (wpc[u].at \in Aside /\ wpc'[u].at \in Aside),
           mpc'.at = "scan" <=> mpc.at = "scan",
           mpc.at = "scan" => mpc'.fd = mpc.fd /\ mpc'.session = mpc.session
    PROVE  HolderInv'
<1> USE DEF HolderInv
<1>0. /\ NoFd \notin Fds /\ NoThread \notin Threads /\ NoConn \notin Conns
      /\ QueueTypeOK
      /\ file \in [Fds -> Conns \cup {NoConn}]
  BY ConstantAssumption DEF TypeOK, KernelTypeOK
<1>1. FilesOpen'
  BY <1>0 DEF FilesOpen
<1>4. \A u \in Threads, fd \in Fds :
        /\ HasClosed(u, fd)' <=> HasClosed(u, fd)
        /\ wpc'[u] = [at |-> "push", fd |-> fd] <=> wpc[u] = [at |-> "push", fd |-> fd]
  BY DEF HasClosed, Aside
<1>5. ASSUME NEW g \in Fds PROVE HeldKept(g, a, b)
  <2>1. /\ file'[g] = file[g]
        /\ (file[g] \in orphans)' <=> file[g] \in orphans
        /\ MainFor(g)' <=> MainFor(g)
        /\ \A u \in Threads :
            /\ Accepted(u, g)' <=> Accepted(u, g)
            /\ Device(u, g)' <=> Device(u, g)
    BY <1>4 DEF MainFor, Accepted, Device
  <2>2. ASSUME NEW u \in Threads, NEW i \in Nat
        PROVE  InsertFor(u, i, g)' <=> i # 0 /\ InsertFor(u, i + Shift(u, a), g)
    <3>1. i + Shift(u, a) \in Nat
      BY DEF Shift
    <3> QED
      BY <3>1 DEF InsertsKept, InsertFor
  <2> QED
    BY <2>1, <2>2 DEF HeldKept, ConnsKept, InsertFor
<1>6. OnePerFd'
  BY <1>0, <1>5, FdsStay
<1>7. OnePerSession'
  <2>1. ASSUME NEW z \in Sessions, NEW k \in Kinds, NEW t \in Owners, NEW i \in Nat,
               Borne(k, t, i, z)'
        PROVE  Borne(k, t, i + Off(k, t, a, b), z)
    <3>1. CASE k = "INSERT"
      <4>1. /\ t \in Threads /\ InsertIn(t, i)' /\ m_queue_thread'[t][i].session_id = z
            /\ Off(k, t, a, b) = Shift(t, a)
        BY <2>1, <3>1 DEF Borne, Off, Shift
      <4> QED
        BY <3>1, <4>1 DEF Borne, InsertsKept
    <3>2. CASE k # "INSERT"
      <4>1. Off(k, t, a, b) = 0 \/ k = "CLIENTCONN"
        BY <3>2 DEF Off
      <4>2. Borne(k, t, i, z) /\ k # "CLIENTCONN"
        BY <2>1, <3>2 DEF Borne
      <4> QED
        BY <4>1, <4>2
    <3> QED
      BY <3>1, <3>2
  <2>2. "main" \in Kinds /\ NoThread \in Owners /\ 0 \in Nat /\ 0 \notin Sessions
    BY DEF Kinds, Owners, Sessions
  <2>3. nextSession \in Nat /\ nextSession' \in Nat /\ nextSession <= nextSession'
    BY DEF TypeOK, MainTypeOK
  <2>4. /\ \A s \in Sessions \ {0}, k \in Kinds, t \in Owners, i \in Nat :
                Borne(k, t, i, s)' => Borne(k, t, i + Off(k, t, a, b), s)
        /\ 0 \in Sessions => \A k \in Kinds, t \in Owners, i \in Nat :
                Borne(k, t, i, 0)' => 0 < nextSession' /\ k = "main" /\ t = NoThread /\ i = 0
    BY <2>1, <2>2
  <2>5. SessionMoves(a, b, 0, "main", NoThread, 0)
    BY <2>4 DEF SessionMoves
  <2> QED
    BY <2>2, <2>3, <2>5, SessionHandOver
<1>8. SessionsMatch'
  <2>1. mpc'.at = "scan" => connOf'[mpc'.session] = file'[mpc'.fd]
    BY DEF SessionsMatch
  <2>2. ASSUME NEW t \in Threads, NEW i \in Nat, InsertIn(t, i)'
        PROVE  connOf[m_queue_thread'[t][i].session_id] = file[m_queue_thread'[t][i].fd]
    <3>1. /\ InsertIn(t, i + Shift(t, a)) /\ i + Shift(t, a) \in Nat
          /\ m_queue_thread'[t][i] = m_queue_thread[t][i + Shift(t, a)]
      BY <2>2 DEF InsertsKept, Shift
    <3> QED
      BY <3>1 DEF SessionsMatch
  <2>3. ASSUME NEW t \in Threads, NEW fd \in Fds, Held("device", t, 0, fd)'
        PROVE  connOf[m_MapDeviceInfo[t][fd]] = file[fd] /\ fd \in interest[t]
    <3>1. Held("device", t, 0, fd)
      BY <1>4, <2>3 DEF Held
    <3> QED
      BY <3>1 DEF SessionsMatch
  <2> QED
    BY <2>1, <2>2, <2>3 DEF SessionsMatch
<1> QED
  BY <1>1, <1>6, <1>7, <1>8

LEMMA QuietWorker ==
    ASSUME TypeOK, RemovesDevice, HolderInv, NEW t \in Threads,
           \/ AddListener(t)
           \/ RegisterFailure(t) /\ ~ TaskAtWorker(t, "INSERT")
           \/ DelClientConn(t)
                /\ m_MapDeviceSessionInfo[t][Head(m_queue_thread[t]).session_id] = NoFd
           \/ WritePacket(t) \/ WritePacketFails(t)
           \/ ReadFrame(t) \/ ReadStops(t) \/ ReadFails(t)
           \/ \E fd \in Fds : \/ ClientEvent(t, fd) \/ FlushSendBuffer(t, fd)
                             \/ FlushFails(t, fd)
           \/ AcceptEvent(t) \/ AcceptStops(t)
    PROVE  HolderInv'
<1>0. /\ t \in Owners /\ NoThread \in Owners /\ NoThread \notin Threads
      /\ QueueTypeOK
      /\ wpc \in [Threads -> [at: {"idle", "accept"}, fd: {NoFd}]
                   \cup [at: {"push", "read", "remove", "erase", "unregister"}, fd: Fds]]
  BY ConstantAssumption DEF Owners, TypeOK, WorkerTypeOK
<1>1. ASSUME UNCHANGED <<wpc, mpc, file, interest, m_MapDeviceInfo, m_MapDeviceSessionInfo,
                         connOf, orphans, nextSession, sock, m_queue_main>>,
             TakeTask(t), NEW type, TaskAtWorker(t, type), type # "INSERT"
      PROVE  HolderInv'
  <2>1. InsertsKept(t) /\ ~ InsertIn(t, 1) /\ ConnsKept(NoThread)
    BY <1>0, <1>1, InsertsTaken, QueuesUnchanged
  <2> QED
    BY <1>0, <1>1, <2>1, Undisturbed
<1>2. CASE AddListener(t)
  BY <1>1, <1>2 DEF AddListener, mainVars, ghostVars
<1>3. CASE RegisterFailure(t) /\ ~ TaskAtWorker(t, "INSERT")
  BY <1>1, <1>3 DEF RegisterFailure, mainVars, kernelVars, workerVars, deviceVars
<1>4. CASE DelClientConn(t)
             /\ m_MapDeviceSessionInfo[t][Head(m_queue_thread[t]).session_id] = NoFd
  BY <1>1, <1>4 DEF DelClientConn, mainVars, ghostVars, kernelVars, deviceVars
<1>5. CASE WritePacket(t)
  BY <1>1, <1>5 DEF WritePacket, mainVars, ghostVars, kernelVars, deviceVars
<1>6. CASE WritePacketFails(t)
  <2> DEFINE s == Head(m_queue_thread[t]).session_id
  <2>1. s \in Sessions
    BY <1>0, <1>6, TakeTaskTyped, ThreadTaskFields DEF WritePacketFails
  <2>2. InsertsKept(t) /\ ~ InsertIn(t, 1)
    BY <1>0, <1>6, InsertsTaken DEF WritePacketFails
  <2>3. ConnsKept(NoThread)
    BY <1>0, <1>6, <2>1, TaskShapes, ConnsPushed DEF WritePacketFails, TaskOnClose, Task
  <2>4. \A u \in Threads : wpc'[u] = wpc[u] \/ (wpc[u].at \in Aside /\ wpc'[u].at \in Aside)
    BY <1>0, <1>6 DEF WritePacketFails, TaskAtWorker, Aside
  <2> QED
    BY <1>0, <1>6, <2>2, <2>3, <2>4, Undisturbed
    DEF WritePacketFails, kernelVars, deviceVars, mainVars, ghostVars
<1>7. CASE ReadFrame(t)
  <2> DEFINE s == m_MapDeviceInfo[t][wpc[t].fd]
  <2>1. /\ s \in Sessions /\ push_task_main(t, TaskPacket(s))
        /\ UNCHANGED <<m_queue_thread, wpc, mpc, file, interest, m_MapDeviceInfo,
                       m_MapDeviceSessionInfo, connOf, orphans, nextSession, sock>>
    BY <1>7, FrameRead DEF workerVars, deviceVars, mainVars, ghostVars
  <2> HIDE DEF s
  <2>2. InsertsKept(NoThread)
    BY <1>0, <2>1, QueuesUnchanged
  <2>3. ConnsKept(NoThread)
    BY <1>0, <2>1, TaskShapes, ConnsPushed DEF TaskPacket, Task
  <2> QED
    BY <1>0, <2>1, <2>2, <2>3, Undisturbed
<1>8. CASE ReadFails(t) \/ \E fd \in Fds : FlushFails(t, fd)
  <2>1. DeviceLeft /\ UNCHANGED m_queue_thread /\ wpc[t].at \in {"idle", "read"}
    BY <1>8, EventFailed
  <2>2. PICK fd \in Fds : m_MapDeviceInfo[t][fd] \in Sessions /\ EventFails(t, fd)
    BY <1>8, EventFailed
  <2>3. InsertsKept(NoThread)
    BY <1>0, <2>1, QueuesUnchanged
  <2>4. ConnsKept(NoThread)
    BY <1>0, <2>2, TaskShapes, ConnsPushed DEF EventFails, TaskOnClose, Task
  <2>5. \A u \in Threads : wpc'[u] = wpc[u] \/ (wpc[u].at \in Aside /\ wpc'[u].at \in Aside)
    BY <1>0, <2>1, <2>2 DEF EventFails, Aside
  <2> QED
    BY <1>0, <2>1, <2>3, <2>4, <2>5, Undisturbed
    DEF DeviceLeft, deviceVars, mainVars, ghostVars
<1>9. CASE ReadStops(t) \/ \E fd \in Fds : ClientEvent(t, fd) \/ FlushSendBuffer(t, fd)
  <2>1. DeviceLeft /\ UNCHANGED queueVars /\ wpc[t].at \in {"idle", "read"}
    BY <1>9, EventReported
  <2>2. \/ wpc' = [wpc EXCEPT ![t] = WorkerIdle]
        \/ \E fd \in Fds : wpc' = [wpc EXCEPT ![t] = [at |-> "read", fd |-> fd]]
    BY <1>9, EventReported
  <2>3. InsertsKept(NoThread) /\ ConnsKept(NoThread)
    BY <1>0, <2>1, QueuesUnchanged DEF queueVars
  <2>4. \A u \in Threads : wpc'[u] = wpc[u] \/ (wpc[u].at \in Aside /\ wpc'[u].at \in Aside)
    BY <1>0, <2>1, <2>2 DEF Aside, WorkerIdle
  <2> QED
    BY <1>0, <2>1, <2>3, <2>4, Undisturbed
    DEF DeviceLeft, deviceVars, mainVars, ghostVars
<1>10. CASE AcceptEvent(t) \/ AcceptStops(t)
  <2>1. InsertsKept(NoThread) /\ ConnsKept(NoThread)
    BY <1>0, <1>10, QueuesUnchanged DEF AcceptEvent, AcceptStops, queueVars
  <2>2. \A u \in Threads : wpc'[u] = wpc[u] \/ (wpc[u].at \in Aside /\ wpc'[u].at \in Aside)
    BY <1>0, <1>10 DEF AcceptEvent, AcceptStops, Aside, WorkerIdle
  <2>3. UNCHANGED <<mpc, file, interest, m_MapDeviceInfo, m_MapDeviceSessionInfo,
                    connOf, orphans, nextSession, sock>>
    BY <1>10 DEF AcceptEvent, AcceptStops, deviceVars, mainVars, ghostVars
  <2> QED
    BY <1>0, <2>1, <2>2, <2>3, Undisturbed
<1> QED
  BY <1>2, <1>3, <1>4, <1>5, <1>6, <1>7, <1>8, <1>9, <1>10

LEMMA QuietElsewhere ==
    ASSUME TypeOK, HolderInv,
           \/ Client \/ Application \/ AddNewConn \/ RemoveSessionConn \/ UNCHANGED vars
           \/ \E t \in Threads : \/ ReadPressure(t) \/ ComparePressure(t)
                               \/ HandlePacket(t) \/ OnClose(t)
    PROVE  HolderInv'
<1>0. NoThread \in Owners /\ NoThread \notin Threads /\ QueueTypeOK
  BY ConstantAssumption DEF Owners, TypeOK
<1> DEFINE Still == UNCHANGED <<file, interest, wpc, m_MapDeviceInfo, m_MapDeviceSessionInfo,
                                connOf, orphans, nextSession>>
<1>1. CASE Client \/ UNCHANGED vars
  <2>1. Still /\ UNCHANGED <<mpc, m_queue_thread, m_queue_main>>
    BY <1>1 DEF Client, Connect, ClientSend, ClientMore, ClientGone, vars, kernelVars,
                workerVars, deviceVars, queueVars, mainVars, ghostVars
  <2>2. \A c \in Conns : sock[c] \in {"open", "closed"} => sock'[c] = sock[c]
    BY <1>1 DEF Client, Connect, ClientSend, ClientMore, ClientGone, vars, kernelVars,
                TypeOK, KernelTypeOK
  <2>3. InsertsKept(NoThread) /\ ConnsKept(NoThread)
    BY <1>0, <2>1, QueuesUnchanged
  <2> QED
    BY <1>0, <2>1, <2>2, <2>3, Undisturbed
<1>2. CASE AddNewConn \/ RemoveSessionConn
  <2>1. /\ Still /\ UNCHANGED <<sock, m_queue_thread, m_queue_main>>
        /\ mpc.at # "scan" /\ mpc'.at # "scan"
    BY <1>2 DEF AddNewConn, RemoveSessionConn, MainIdle, kernelVars, workerVars,
                deviceVars, queueVars, ghostVars
  <2>2. InsertsKept(NoThread) /\ ConnsKept(NoThread)
    BY <1>0, <2>1, QueuesUnchanged
  <2> QED
    BY <1>0, <2>1, <2>2, Undisturbed
<1>3. ASSUME NEW t \in Threads, ReadPressure(t) \/ ComparePressure(t) PROVE HolderInv'
  <2>0. ScanGoesOn
    BY <1>3, Scanned
  <2>1. Still /\ UNCHANGED <<sock, m_queue_thread, m_queue_main>>
    BY <2>0 DEF ScanGoesOn, kernelVars, workerVars, deviceVars, queueVars, ghostVars
  <2>2. mpc.at = "scan" /\ mpc'.at = "scan" /\ mpc'.fd = mpc.fd /\ mpc'.session = mpc.session
    BY <2>0 DEF ScanGoesOn
  <2>3. InsertsKept(NoThread) /\ ConnsKept(NoThread)
    BY <1>0, <2>1, QueuesUnchanged
  <2> QED
    BY <1>0, <2>1, <2>2, <2>3, Undisturbed
<1>4. ASSUME NEW t \in Threads, HandlePacket(t) \/ OnClose(t) PROVE HolderInv'
  <2>1. Still /\ UNCHANGED <<sock, mpc, m_queue_thread>>
    BY <1>4 DEF HandlePacket, OnClose, kernelVars, workerVars, deviceVars, mainVars, ghostVars
  <2>2. \E type : TaskAtMain(t, type) /\ type # "CLIENTCONN" /\ TakeMainTask(t)
    BY <1>4 DEF HandlePacket, OnClose
  <2>3. ConnsKept(t) /\ \A fd \in Fds : ~ ConnIn(t, 1, fd)
    BY <1>0, <2>2, ConnsTaken
  <2>4. InsertsKept(NoThread) /\ t \in Owners
    BY <1>0, <2>1, QueuesUnchanged DEF Owners
  <2> QED
    BY <1>0, <2>1, <2>3, <2>4, Undisturbed
<1>5. ASSUME NEW s \in Sessions, CloseConn(s) \/ SendMsgToConn(s) PROVE HolderInv'
  <2>1. Still /\ UNCHANGED <<sock, m_queue_main>> /\ mpc.at = "idle" /\ mpc'.at # "scan"
    BY <1>5 DEF CloseConn, SendMsgToConn, MainIdle, kernelVars, workerVars, deviceVars, ghostVars
  <2>2. m_MapSessionConnInfo[s] \in Threads
    BY <1>5 DEF CloseConn, SendMsgToConn, TypeOK, MainTypeOK
  <2>3. CASE CloseConn(s)
    <3>1. InsertsKept(NoThread)
      BY <1>0, <2>2, <2>3, TaskShapes, InsertsPushed DEF CloseConn, TaskDelete, Task
    <3> QED
      BY <1>0, <2>1, <3>1, QueuesUnchanged, Undisturbed
  <2>4. CASE SendMsgToConn(s)
    <3>1. InsertsKept(NoThread)
      BY <1>0, <2>2, <2>4, TaskShapes, InsertsPushed DEF SendMsgToConn, TaskSend, Task
    <3> QED
      BY <1>0, <2>1, <3>1, QueuesUnchanged, Undisturbed
  <2> QED
    BY <1>5, <2>3, <2>4
<1> QED
  BY <1>1, <1>2, <1>3, <1>4, <1>5 DEF Application

-----------------------------------------------------------------------------
(* The steps that hand a descriptor or a session on: f and z go to the     *)
(* places given, all others stay.                                          *)

BorneKept(s, a) ==
    /\ MainWith(s)' => MainWith(s)
    /\ \A u \in Threads :
        /\ m_MapDeviceSessionInfo'[u][s] # NoFd => m_MapDeviceSessionInfo[u][s] # NoFd
        /\ \A i \in Nat : InsertWith(u, i, s)' => InsertWith(u, i + Shift(u, a), s)

OthersKept(f, a, b) == \A g \in Fds \ {f} : HeldKept(g, a, b)

HeldAt(f, k1, t1, i1) ==
    \A k \in Kinds, t \in Owners, i \in Nat :
        Held(k, t, i, f)' <=> file'[f] # NoConn /\ k = k1 /\ t = t1 /\ i = i1

OthersBorne(z, a) == \A s \in Sessions \ {z} : BorneKept(s, a)

BorneAt(z, k1, t1, i1) ==
    z \in Sessions => \A k \in Kinds, t \in Owners, i \in Nat :
        Borne(k, t, i, z)' => z < nextSession' /\ k = k1 /\ t = t1 /\ i = i1

LEMMA FdPassed ==
    ASSUME QueueTypeOK, OnePerFd, NEW a \in Owners, NEW b \in Owners, NEW f \in Fds,
           NEW k1 \in Kinds, NEW t1 \in Owners, NEW i1 \in Nat,
           OthersKept(f, a, b), HeldAt(f, k1, t1, i1)
    PROVE  OnePerFd'
<1> USE DEF OthersKept, HeldAt
<1>1. \A g \in Fds \ {f}, k \in Kinds, t \in Owners, i \in Nat :
        /\ Held(k, t, i, g)' => Held(k, t, i + Off(k, t, a, b), g)
        /\ Held(k, t, i, g) =>
                i >= Off(k, t, a, b) /\ Held(k, t, i - Off(k, t, a, b), g)'
  BY OthersHeld
<1>2. \A g \in Fds \ {f} : file'[g] = file[g]
  BY DEF HeldKept
<1>3. f \in Fds => \A k \in Kinds, t \in Owners, i \in Nat :
        Held(k, t, i, f)' <=> file'[f] # NoConn /\ k = k1 /\ t = t1 /\ i = i1
  OBVIOUS
<1>4. FdMoves(a, b, f, k1, t1, i1)
  BY <1>1, <1>2, <1>3 DEF FdMoves
<1> QED
  BY <1>4, HandOver

LEMMA SessionPassed ==
    ASSUME TypeOK, OnePerSession, nextSession' \in Nat, nextSession <= nextSession',
           NEW a \in Owners, NEW z,
           NEW k1 \in Kinds, NEW t1 \in Owners, NEW i1 \in Nat,
           OthersBorne(z, a), BorneAt(z, k1, t1, i1)
    PROVE  OnePerSession'
<1> USE DEF OthersBorne, BorneAt
<1>1. ASSUME NEW s \in Sessions \ {z}, NEW k \in Kinds, NEW t \in Owners, NEW i \in Nat,
             Borne(k, t, i, s)'
      PROVE  Borne(k, t, i + Off(k, t, a, NoThread), s)
  <2>1. BorneKept(s, a)
    OBVIOUS
  <2>2. CASE k = "INSERT"
    <3>1. t \in Threads /\ InsertWith(t, i, s)' /\ Off(k, t, a, NoThread) = Shift(t, a)
      BY <1>1, <2>2 DEF Borne, InsertWith, Off, Shift
    <3> QED
      BY <2>1, <2>2, <3>1 DEF Borne, InsertWith, BorneKept
  <2>3. CASE k # "INSERT"
    <3>1. Borne(k, t, i, s) /\ k # "CLIENTCONN"
      BY <1>1, <2>1, <2>3 DEF Borne, BorneKept, MainWith
    <3> QED
      BY <2>3, <3>1 DEF Off
  <2> QED
    BY <2>2, <2>3
<1>2. nextSession \in Nat /\ NoThread \in Owners
  BY DEF TypeOK, MainTypeOK, Owners
<1>3. \A s \in Sessions \ {z}, k \in Kinds, t \in Owners, i \in Nat :
        Borne(k, t, i, s)' => Borne(k, t, i + Off(k, t, a, NoThread), s)
  BY <1>1
<1>4. z \in Sessions => \A k \in Kinds, t \in Owners, i \in Nat :
        Borne(k, t, i, z)' => z < nextSession' /\ k = k1 /\ t = t1 /\ i = i1
  OBVIOUS
<1>5. SessionMoves(a, NoThread, z, k1, t1, i1)
  BY <1>3, <1>4 DEF SessionMoves
<1> QED
  BY <1>2, <1>5, SessionHandOver

(* One holder excludes all others, and a free descriptor has none. *)
LEMMA OnlyHolder ==
    ASSUME OnePerFd, NEW f \in Fds,
           NEW k0 \in Kinds, NEW t0 \in Owners, NEW i0 \in Nat, Held(k0, t0, i0, f)
    PROVE  /\ file[f] # NoConn
           /\ \A u \in Threads :
                /\ Accepted(u, f) => k0 = "accepted" /\ u = t0
                /\ Device(u, f) => k0 = "device" /\ u = t0
           /\ \A u \in Threads, i \in Nat :
                /\ ConnIn(u, i, f) => k0 = "CLIENTCONN" /\ u = t0 /\ i = i0
                /\ InsertFor(u, i, f) => k0 = "INSERT" /\ u = t0 /\ i = i0
           /\ MainFor(f) => k0 = "main"
           /\ file[f] \in orphans => k0 = "orphan"
<1>1. \A k \in Kinds, t \in Owners, i \in Nat :
        Held(k, t, i, f) => k = k0 /\ t = t0 /\ i = i0
  BY DEF OnePerFd
<1>2. /\ Kinds = {"accepted", "CLIENTCONN", "main", "INSERT", "device", "orphan"}
      /\ Threads \subseteq Owners /\ NoThread \in Owners /\ 0 \in Nat
  BY DEF Kinds, Owners
<1>3. file[f] # NoConn
  BY DEF OnePerFd
<1>4. ASSUME NEW u \in Threads
      PROVE  /\ Accepted(u, f) => k0 = "accepted" /\ u = t0
             /\ Device(u, f) => k0 = "device" /\ u = t0
  <2>1. Accepted(u, f) => Held("accepted", u, 0, f)
    BY DEF Held, Accepted
  <2>2. Device(u, f) => Held("device", u, 0, f)
    BY DEF Held, Device
  <2> QED
    BY <1>1, <1>2, <2>1, <2>2
<1>5. ASSUME NEW u \in Threads, NEW i \in Nat
      PROVE  /\ ConnIn(u, i, f) => k0 = "CLIENTCONN" /\ u = t0 /\ i = i0
             /\ InsertFor(u, i, f) => k0 = "INSERT" /\ u = t0 /\ i = i0
  <2>1. ConnIn(u, i, f) => Held("CLIENTCONN", u, i, f)
    BY DEF Held
  <2>2. InsertFor(u, i, f) => Held("INSERT", u, i, f)
    BY DEF Held, InsertFor
  <2> QED
    BY <1>1, <1>2, <2>1, <2>2
<1>6. /\ MainFor(f) => k0 = "main"
      /\ file[f] \in orphans => k0 = "orphan"
  <2>1. MainFor(f) => Held("main", NoThread, 0, f)
    BY DEF Held, MainFor
  <2>2. file[f] \in orphans => Held("orphan", NoThread, 0, f)
    BY DEF Held
  <2> QED
    BY <1>1, <1>2, <2>1, <2>2
<1> QED
  BY <1>3, <1>4, <1>5, <1>6

LEMMA NoHolder ==
    ASSUME OnePerFd, NEW f \in Fds, file[f] = NoConn
    PROVE  /\ \A u \in Threads : ~ Accepted(u, f) /\ ~ Device(u, f)
           /\ \A u \in Threads, i \in Nat : ~ ConnIn(u, i, f) /\ ~ InsertFor(u, i, f)
           /\ ~ MainFor(f) /\ file[f] \notin orphans
<1>1. \A k \in Kinds, t \in Owners, i \in Nat : ~ Held(k, t, i, f)
  BY DEF OnePerFd
<1>2. /\ {"accepted", "CLIENTCONN", "main", "INSERT", "device", "orphan"} \subseteq Kinds
      /\ Threads \subseteq Owners /\ NoThread \in Owners /\ 0 \in Nat
  BY DEF Kinds, Owners
<1>3. ASSUME NEW u \in Threads PROVE ~ Accepted(u, f) /\ ~ Device(u, f)
  <2>1. ~ Held("accepted", u, 0, f) /\ ~ Held("device", u, 0, f)
    BY <1>1, <1>2
  <2> QED
    BY <2>1 DEF Held, Accepted, Device
<1>4. ASSUME NEW u \in Threads, NEW i \in Nat PROVE ~ ConnIn(u, i, f) /\ ~ InsertFor(u, i, f)
  <2>1. ~ Held("CLIENTCONN", u, i, f) /\ ~ Held("INSERT", u, i, f)
    BY <1>1, <1>2
  <2> QED
    BY <2>1 DEF Held, InsertFor
<1>5. ~ MainFor(f) /\ file[f] \notin orphans
  <2>1. ~ Held("main", NoThread, 0, f) /\ ~ Held("orphan", NoThread, 0, f)
    BY <1>1, <1>2
  <2> QED
    BY <2>1 DEF Held, MainFor
<1> QED
  BY <1>3, <1>4, <1>5

(* The same for the bearer of a session. *)
LEMMA OnlyBearer ==
    ASSUME OnePerSession, NEW z \in Sessions,
           NEW k0 \in Kinds, NEW t0 \in Owners, NEW i0 \in Nat, Borne(k0, t0, i0, z)
    PROVE  /\ z < nextSession
           /\ MainWith(z) => k0 = "main"
           /\ \A u \in Threads :
                m_MapDeviceSessionInfo[u][z] # NoFd => k0 = "device" /\ u = t0
           /\ \A u \in Threads, i \in Nat :
                InsertWith(u, i, z) => k0 = "INSERT" /\ u = t0 /\ i = i0
<1>1. /\ z < nextSession
      /\ \A k \in Kinds, t \in Owners, i \in Nat :
            Borne(k, t, i, z) => k = k0 /\ t = t0 /\ i = i0
  BY DEF OnePerSession
<1>2. /\ {"main", "INSERT", "device"} \subseteq Kinds
      /\ Threads \subseteq Owners /\ NoThread \in Owners /\ 0 \in Nat
  BY DEF Kinds, Owners
<1>3. MainWith(z) => k0 = "main"
  <2>1. MainWith(z) => Borne("main", NoThread, 0, z)
    BY DEF Borne, MainWith
  <2> QED
    BY <1>1, <1>2, <2>1
<1>4. ASSUME NEW u \in Threads, m_MapDeviceSessionInfo[u][z] # NoFd
      PROVE  k0 = "device" /\ u = t0
  <2>1. Borne("device", u, 0, z)
    BY <1>4 DEF Borne
  <2> QED
    BY <1>1, <1>2, <2>1
<1>5. ASSUME NEW u \in Threads, NEW i \in Nat, InsertWith(u, i, z)
      PROVE  k0 = "INSERT" /\ u = t0 /\ i = i0
  <2>1. Borne("INSERT", u, i, z)
    BY <1>5 DEF Borne, InsertWith
  <2> QED
    BY <1>1, <1>2, <2>1
<1> QED
  BY <1>1, <1>3, <1>4, <1>5

(* HeldAt in parts. *)
Placed(k1, t1, i1) ==
    /\ k1 \in {"accepted", "device"} => t1 \in Threads /\ i1 = 0
    /\ k1 \in {"CLIENTCONN", "INSERT"} => t1 \in Threads
    /\ k1 \in {"main", "orphan"} => t1 = NoThread /\ i1 = 0

PartsAt(f, k1, t1, i1) ==
    /\ \A u \in Threads :
        /\ Accepted(u, f)' <=> file'[f] # NoConn /\ k1 = "accepted" /\ u = t1
        /\ Device(u, f)' <=> file'[f] # NoConn /\ k1 = "device" /\ u = t1
    /\ \A u \in Threads, i \in Nat :
        /\ ConnIn(u, i, f)' <=> file'[f] # NoConn /\ k1 = "CLIENTCONN" /\ u = t1 /\ i = i1
        /\ InsertFor(u, i, f)' <=> file'[f] # NoConn /\ k1 = "INSERT" /\ u = t1 /\ i = i1
    /\ MainFor(f)' <=> file'[f] # NoConn /\ k1 = "main"
    /\ (file[f] \in orphans)' <=> file'[f] # NoConn /\ k1 = "orphan"

LEMMA HeldInParts ==
    ASSUME NEW f \in Fds, NEW k1 \in Kinds, NEW t1 \in Owners, NEW i1 \in Nat,
           Placed(k1, t1, i1), PartsAt(f, k1, t1, i1)
    PROVE  HeldAt(f, k1, t1, i1)
<1> SUFFICES ASSUME NEW k \in Kinds, NEW t \in Owners, NEW i \in Nat
             PROVE  Held(k, t, i, f)' <=> file'[f] # NoConn /\ k = k1 /\ t = t1 /\ i = i1
  BY DEF HeldAt
<1>1. CASE k = "accepted"
  BY <1>1 DEF Held, Placed, PartsAt, Accepted
<1>2. CASE k = "CLIENTCONN"
  BY <1>2 DEF Held, Placed, PartsAt
<1>3. CASE k = "main"
  BY <1>3 DEF Held, Placed, PartsAt, MainFor
<1>4. CASE k = "INSERT"
  BY <1>4 DEF Held, Placed, PartsAt, InsertFor
<1>5. CASE k = "device"
  BY <1>5 DEF Held, Placed, PartsAt, Device
<1>6. CASE k = "orphan"
  BY <1>6 DEF Held, Placed, PartsAt
<1> QED
  BY <1>1, <1>2, <1>3, <1>4, <1>5, <1>6 DEF Kinds

(* HeldKept when the queues keep their places. *)
LEMMA KeptInQueues ==
    ASSUME QueueTypeOK, NEW a \in Owners, NEW b \in Owners, NEW g \in Fds,
           InsertsKept(a), ConnsKept(b),
           a \in Threads => ~ InsertFor(a, 1, g), b \in Threads => ~ ConnIn(b, 1, g)
    PROVE  /\ \A u \in Threads, i \in Nat :
                /\ InsertFor(u, i, g)' <=> i # 0 /\ InsertFor(u, i + Shift(u, a), g)
                /\ ConnIn(u, i, g)' <=> i # 0 /\ ConnIn(u, i + Shift(u, b), g)
           /\ a \in Threads => ~ InsertFor(a, 1, g)
           /\ b \in Threads => ~ ConnIn(b, 1, g)
<1>1. ASSUME NEW u \in Threads, NEW i \in Nat
      PROVE  InsertFor(u, i, g)' <=> i # 0 /\ InsertFor(u, i + Shift(u, a), g)
  <2>1. i + Shift(u, a) \in Nat
    BY DEF Shift
  <2> QED
    BY <2>1 DEF InsertsKept, InsertFor
<1> QED
  BY <1>1 DEF ConnsKept

LEMMA BorneInQueues ==
    ASSUME InsertsKept(NoThread)
    PROVE  \A u \in Threads, i \in Nat : \A s :
                InsertWith(u, i, s)' => InsertWith(u, i + Shift(u, NoThread), s)
<1> SUFFICES ASSUME NEW u \in Threads, NEW i \in Nat, NEW s, InsertWith(u, i, s)'
             PROVE  InsertWith(u, i + Shift(u, NoThread), s)
  OBVIOUS
<1> QED
  BY DEF InsertsKept, InsertWith

LEMMA InsertFields ==
    ASSUME QueueTypeOK, NEW u \in Threads, NEW i \in Nat, InsertIn(u, i)
    PROVE  m_queue_thread[u][i].fd \in Fds /\ m_queue_thread[u][i].session_id \in Sessions
<1>1. m_queue_thread[u] \in Seq(ToThreadTasks) /\ i \in DOMAIN m_queue_thread[u]
  BY DEF QueueTypeOK, InsertIn
<1>2. m_queue_thread[u][i] \in ToThreadTasks
  BY <1>1
<1> QED
  BY <1>2, ThreadTaskFields DEF InsertIn

LEMMA AcceptHolder ==
    ASSUME TypeOK, HolderInv, NEW t \in Threads, Accept(t)
    PROVE  HolderInv'
<1> USE DEF HolderInv
<1>0. /\ t \in Owners /\ NoThread \in Owners /\ NoThread \notin Threads
      /\ NoConn \notin Conns /\ QueueTypeOK
      /\ file \in [Fds -> Conns \cup {NoConn}]
      /\ sock \in [Conns -> {"new", "backlog", "open", "closed"}]
  BY ConstantAssumption DEF Owners, TypeOK, KernelTypeOK
<1>1. PICK c \in Backlog, f \in FreeFds :
        /\ sock' = [sock EXCEPT ![c] = "open"]
        /\ file' = [file EXCEPT ![f] = c]
        /\ wpc' = [wpc EXCEPT ![t] = [at |-> "push", fd |-> f]]
  BY DEF Accept
<1>2. /\ c \in Conns /\ sock[c] = "backlog" /\ f \in Fds /\ file[f] = NoConn
      /\ file'[f] = c /\ \A g \in Fds \ {f} : file'[g] = file[g]
      /\ sock'[c] = "open" /\ \A d \in Conns \ {c} : sock'[d] = sock[d]
  BY <1>0, <1>1 DEF Backlog, FreeFds
<1>3. /\ wpc[t].at = "accept" /\ wpc'[t] = [at |-> "push", fd |-> f]
      /\ \A u \in Threads \ {t} : wpc'[u] = wpc[u]
      /\ UNCHANGED <<mpc, interest, m_MapDeviceInfo, m_MapDeviceSessionInfo, connOf, orphans,
                     nextSession, m_queue_thread, m_queue_main>>
  BY <1>1 DEF Accept, TypeOK, WorkerTypeOK, deviceVars, queueVars, mainVars, ghostVars
<1>4. InsertsKept(NoThread) /\ ConnsKept(NoThread)
  BY <1>0, <1>3, QueuesUnchanged
<1>5. c \notin orphans /\ \A g \in Fds : file[g] # c
  BY <1>0, <1>2 DEF FilesOpen
<1>6. FilesOpen'
  BY <1>0, <1>2, <1>3, <1>5 DEF FilesOpen
<1>7. \A u \in Threads, g \in Fds : HasClosed(u, g)' <=> HasClosed(u, g)
  BY <1>3 DEF HasClosed
<1>8. ASSUME NEW g \in Fds \ {f} PROVE HeldKept(g, NoThread, NoThread)
  <2>1. \A u \in Threads : Accepted(u, g)' <=> Accepted(u, g)
    BY <1>3 DEF Accepted
  <2>2. \A u \in Threads : Device(u, g)' <=> Device(u, g)
    BY <1>3, <1>7 DEF Device
  <2>3. /\ file'[g] = file[g] /\ ((file[g] \in orphans)' <=> file[g] \in orphans)
        /\ (MainFor(g)' <=> MainFor(g))
    BY <1>2, <1>3 DEF MainFor
  <2> QED
    BY <1>0, <1>4, <2>1, <2>2, <2>3, KeptInQueues DEF HeldKept
<1>9. PartsAt(f, "accepted", t, 0)
  <2>1. /\ \A u \in Threads : ~ Accepted(u, f) /\ ~ Device(u, f)
        /\ \A u \in Threads, i \in Nat : ~ ConnIn(u, i, f) /\ ~ InsertFor(u, i, f)
        /\ ~ MainFor(f)
    BY <1>2, NoHolder
  <2>2. \A u \in Threads :
            /\ Accepted(u, f)' <=> u = t
            /\ ~ Device(u, f)'
    <3>1. \A u \in Threads : Accepted(u, f)' <=> u = t
      BY <1>3, <2>1 DEF Accepted
    <3>2. \A u \in Threads : ~ Device(u, f)'
      BY <1>2, <1>3, <1>7, <2>1 DEF Device
    <3> QED
      BY <3>1, <3>2
  <2>3. \A u \in Threads, i \in Nat : ~ ConnIn(u, i, f)' /\ ~ InsertFor(u, i, f)'
    BY <1>3, <2>1 DEF ConnIn, InsertFor, InsertIn
  <2>4. ~ MainFor(f)' /\ ~ (file[f] \in orphans)' /\ file'[f] # NoConn
    BY <1>0, <1>2, <1>3, <1>5, <2>1 DEF MainFor
  <2> QED
    BY <2>2, <2>3, <2>4 DEF PartsAt
<1>10. OnePerFd'
  <2>1. OthersKept(f, NoThread, NoThread)
    BY <1>8 DEF OthersKept
  <2>2. "accepted" \in Kinds /\ 0 \in Nat /\ Placed("accepted", t, 0)
    BY DEF Kinds, Placed
  <2>3. HeldAt(f, "accepted", t, 0)
    BY <1>0, <1>2, <1>9, <2>2, HeldInParts
  <2> QED
    BY <1>0, <1>2, <2>1, <2>2, <2>3, FdPassed
<1>11. OnePerSession'
  BY <1>3 DEF OnePerSession, Borne, InsertIn
<1>12. SessionsMatch'
  <2>1. mpc.at = "scan" => mpc.fd # f
    BY <1>2, NoHolder DEF MainFor
  <2>2. \A u \in Threads, i \in Nat : InsertIn(u, i) => m_queue_thread[u][i].fd # f
    BY <1>2, NoHolder DEF InsertFor
  <2>3. \A u \in Threads : ~ Device(u, f)
    BY <1>2, NoHolder
  <2>4. \A u \in Threads, i \in Nat : InsertIn(u, i) => m_queue_thread[u][i].fd \in Fds
    BY <1>0, InsertFields
  <2>5. mpc.at = "scan" => mpc.fd \in Fds
    BY DEF TypeOK, MainTypeOK, MainIdle, Scan
  <2>6. mpc'.at = "scan" => connOf'[mpc'.session] = file'[mpc'.fd]
    BY <1>2, <1>3, <2>1, <2>5 DEF SessionsMatch
  <2>7. ASSUME NEW u \in Threads, NEW i \in Nat, InsertIn(u, i)'
        PROVE  connOf'[m_queue_thread'[u][i].session_id] = file'[m_queue_thread'[u][i].fd]
    <3>1. InsertIn(u, i) /\ UNCHANGED m_queue_thread
      BY <1>3, <2>7 DEF InsertIn
    <3> QED
      BY <1>2, <1>3, <2>2, <2>4, <3>1 DEF SessionsMatch
  <2>8. ASSUME NEW u \in Threads, NEW g \in Fds, Held("device", u, 0, g)'
        PROVE  connOf'[m_MapDeviceInfo'[u][g]] = file'[g] /\ g \in interest'[u]
    <3>1. Device(u, g)
      BY <1>3, <1>7, <2>8 DEF Held, Device
    <3>2. Held("device", u, 0, g) /\ g # f
      BY <2>3, <3>1 DEF Held, Device
    <3> QED
      BY <1>2, <1>3, <3>2 DEF SessionsMatch
  <2> QED
    BY <2>6, <2>7, <2>8 DEF SessionsMatch
<1> QED
  BY <1>6, <1>10, <1>11, <1>12

LEMMA PushConnHolder ==
    ASSUME TypeOK, HolderInv, NEW t \in Threads, PushConn(t)
    PROVE  HolderInv'
<1> USE DEF HolderInv
<1>0. /\ t \in Owners /\ NoThread \in Owners /\ NoThread \notin Threads /\ QueueTypeOK
  BY ConstantAssumption DEF Owners, TypeOK
<1>. PICK f \in Fds : f = wpc[t].fd
  BY DEF PushConn, TypeOK, WorkerTypeOK
<1>1. /\ f \in Fds /\ wpc[t] = [at |-> "push", fd |-> f]
      /\ wpc'[t].at = "accept" /\ \A u \in Threads \ {t} : wpc'[u] = wpc[u]
      /\ push_task_main(t, TaskConn(f))
      /\ UNCHANGED <<mpc, sock, file, interest, m_MapDeviceInfo, m_MapDeviceSessionInfo,
                     connOf, orphans, nextSession, m_queue_thread>>
  BY DEF PushConn, TypeOK, WorkerTypeOK, kernelVars, deviceVars, mainVars, ghostVars
<1>2. PICK n \in Nat :
      /\ m_queue_main'[t][n] = TaskConn(f)
      /\ \A u \in Threads, i \in Nat :
            /\ i \in DOMAIN m_queue_main'[u] <=>
                    i \in DOMAIN m_queue_main[u] \/ (u = t /\ i = n)
            /\ i \in DOMAIN m_queue_main[u] =>
                    m_queue_main'[u][i] = m_queue_main[u][i]
  BY <1>0, <1>1, TaskShapes, PushedToMain
<1>3. \A u \in Threads, i \in Nat, g \in Fds :
        ConnIn(u, i, g)' <=> ConnIn(u, i, g) \/ (u = t /\ i = n /\ g = f)
  BY <1>2 DEF ConnIn, TaskConn, Task
<1>4. InsertsKept(NoThread)
  BY <1>0, <1>1, QueuesUnchanged
<1>5. FilesOpen'
  BY <1>1 DEF FilesOpen
<1>6. ASSUME NEW u \in Threads, NEW g \in Fds PROVE HasClosed(u, g)' <=> HasClosed(u, g)
  <2>1. CASE u = t
    <3>1. wpc[t].at = "push" /\ wpc'[t].at = "accept"
      BY <1>1
    <3> QED
      BY <2>1, <3>1 DEF HasClosed
  <2>2. CASE u # t
    BY <1>1, <2>2 DEF HasClosed
  <2> QED
    BY <2>1, <2>2
<1>7. ASSUME NEW g \in Fds \ {f} PROVE HeldKept(g, NoThread, NoThread)
  <2>1. \A u \in Threads : (Accepted(u, g)' <=> Accepted(u, g)) /\ (Device(u, g)' <=> Device(u, g))
    BY <1>1, <1>6 DEF Accepted, Device
  <2>2. /\ file'[g] = file[g] /\ ((file[g] \in orphans)' <=> file[g] \in orphans)
        /\ (MainFor(g)' <=> MainFor(g))
    BY <1>1 DEF MainFor
  <2>3. \A u \in Threads, i \in Nat : ConnIn(u, i, g)' <=> i # 0 /\ ConnIn(u, i + Shift(u, NoThread), g)
    BY <1>0, <1>3, PlacesPositive DEF Shift
  <2>4. \A u \in Threads, i \in Nat :
            InsertFor(u, i, g)' <=> i # 0 /\ InsertFor(u, i + Shift(u, NoThread), g)
    BY <1>0, <1>1, PlacesPositive DEF InsertFor, InsertIn, Shift
  <2> QED
    BY <1>0, <2>1, <2>2, <2>3, <2>4 DEF HeldKept
<1>8. OnePerFd'
  <2>0. "CLIENTCONN" \in Kinds /\ "accepted" \in Kinds /\ 0 \in Nat /\ Placed("CLIENTCONN", t, n)
    BY DEF Kinds, Placed
  <2>1. Held("accepted", t, 0, f)
    BY <1>1 DEF Held
  <2>2. /\ file[f] # NoConn /\ file[f] \notin orphans /\ ~ MainFor(f)
        /\ \A u \in Threads : (Accepted(u, f) => u = t) /\ ~ Device(u, f)
        /\ \A u \in Threads, i \in Nat : ~ ConnIn(u, i, f) /\ ~ InsertFor(u, i, f)
    BY <1>0, <1>1, <2>0, <2>1, OnlyHolder
  <2>3. \A u \in Threads : ~ Accepted(u, f)' /\ ~ Device(u, f)'
    BY <1>1, <1>6, <2>2 DEF Accepted, Device
  <2>4. \A u \in Threads, i \in Nat :
            ~ InsertFor(u, i, f)' /\ (ConnIn(u, i, f)' <=> u = t /\ i = n)
    BY <1>1, <1>3, <2>2 DEF InsertFor, InsertIn
  <2>5. ~ MainFor(f)' /\ ~ (file[f] \in orphans)' /\ file'[f] # NoConn
    BY <1>1, <2>2 DEF MainFor
  <2>6. HeldAt(f, "CLIENTCONN", t, n)
    <3>1. PartsAt(f, "CLIENTCONN", t, n)
      BY <2>3, <2>4, <2>5 DEF PartsAt
    <3> QED
      BY <1>0, <1>1, <1>2, <2>0, <3>1, HeldInParts
  <2>7. OthersKept(f, NoThread, NoThread)
    BY <1>7 DEF OthersKept
  <2> QED
    BY <1>0, <1>1, <1>2, <2>0, <2>6, <2>7, FdPassed
<1>9. OnePerSession'
  BY <1>1 DEF OnePerSession, Borne, InsertIn
<1>10. SessionsMatch'
  BY <1>1, <1>6 DEF SessionsMatch, InsertIn, Held
<1> QED
  BY <1>5, <1>8, <1>9, <1>10

LEMMA SessionsGiven ==
    ASSUME TypeOK, MapsAgree, OnePerSession
    PROVE  /\ nextSession \in Nat
           /\ \A u \in Threads, i \in Nat : InsertIn(u, i) =>
                m_queue_thread[u][i].session_id < nextSession
           /\ \A u \in Threads, s \in Sessions :
                m_MapDeviceSessionInfo[u][s] # NoFd => s < nextSession
           /\ \A u \in Threads, g \in Fds : m_MapDeviceInfo[u][g] # NoSession =>
                /\ m_MapDeviceInfo[u][g] \in Sessions
                /\ m_MapDeviceInfo[u][g] < nextSession
<1>0. /\ {"INSERT", "device"} \subseteq Kinds /\ Threads \subseteq Owners /\ 0 \in Nat
      /\ NoFd \notin Fds /\ QueueTypeOK
  BY ConstantAssumption DEF Kinds, Owners, TypeOK
<1>1. ASSUME NEW u \in Threads, NEW i \in Nat, InsertIn(u, i)
      PROVE  m_queue_thread[u][i].session_id < nextSession
  <2>1. m_queue_thread[u][i].session_id \in Sessions
    BY <1>0, <1>1, InsertFields
  <2>2. Borne("INSERT", u, i, m_queue_thread[u][i].session_id)
    BY <1>1 DEF Borne
  <2> QED
    BY <1>0, <2>1, <2>2 DEF OnePerSession
<1>2. ASSUME NEW u \in Threads, NEW s \in Sessions, m_MapDeviceSessionInfo[u][s] # NoFd
      PROVE  s < nextSession
  <2>1. Borne("device", u, 0, s)
    BY <1>2 DEF Borne
  <2> QED
    BY <1>0, <2>1 DEF OnePerSession
<1>3. ASSUME NEW u \in Threads, NEW g \in Fds, m_MapDeviceInfo[u][g] # NoSession
      PROVE  m_MapDeviceInfo[u][g] \in Sessions /\ m_MapDeviceInfo[u][g] < nextSession
  <2>1. m_MapDeviceInfo[u][g] \in Sessions
    BY <1>3 DEF TypeOK, WorkerTypeOK
  <2>2. m_MapDeviceSessionInfo[u][m_MapDeviceInfo[u][g]] = g
    BY <1>3 DEF MapsAgree
  <2> QED
    BY <1>0, <1>2, <2>1, <2>2
<1> QED
  BY <1>1, <1>2, <1>3 DEF TypeOK, MainTypeOK

LEMMA NewSessionHolder ==
    ASSUME TypeOK, MapsAgree, HolderInv, NEW t \in Threads, NewSession(t)
    PROVE  HolderInv'
<1> USE DEF HolderInv
<1>0. /\ t \in Owners /\ NoThread \in Owners /\ NoThread \notin Threads /\ QueueTypeOK
  BY ConstantAssumption DEF Owners, TypeOK
<1>a. TaskAtMain(t, "CLIENTCONN") /\ TakeMainTask(t)
  BY DEF NewSession
<1>. PICK f \in Fds : f = Head(m_queue_main[t]).fd
  BY <1>0, <1>a, TakeMainTaskTyped, MainTaskFields DEF TaskAtMain
<1>. PICK z \in Sessions : z = nextSession
  BY DEF NewSession
<1>1. /\ mpc.at = "idle" /\ mpc'.at = "scan" /\ mpc'.fd = f /\ mpc'.session = z
      /\ nextSession' = z + 1 /\ z \in Nat
      /\ connOf'[z] = file[f] /\ \A s \in Sessions \ {z} : connOf'[s] = connOf[s]
      /\ UNCHANGED <<wpc, sock, file, interest, m_MapDeviceInfo, m_MapDeviceSessionInfo,
                     orphans, m_queue_thread>>
  <2>1. mpc'.at = "scan" /\ mpc'.fd = f /\ mpc'.session = z
    BY DEF NewSession, MainIdle
  <2> QED
    BY <2>1 DEF NewSession, TaskAtMain, TypeOK, GhostTypeOK, MainTypeOK, Sessions,
                kernelVars, workerVars, deviceVars
<1>2. /\ ConnsKept(t)
      /\ \A g \in Fds : ConnIn(t, 1, g) <=> g = f
  BY <1>0, <1>a, ConnsTaken
<1>4. InsertsKept(NoThread)
  BY <1>0, <1>1, QueuesUnchanged
<1>5. FilesOpen'
  BY <1>1 DEF FilesOpen
<1>6. \A u \in Threads, g \in Fds :
        (Accepted(u, g)' <=> Accepted(u, g)) /\ (Device(u, g)' <=> Device(u, g))
  BY <1>1 DEF Accepted, Device, HasClosed
<1>7. ASSUME NEW g \in Fds \ {f} PROVE HeldKept(g, NoThread, t)
  <2>1. /\ file'[g] = file[g] /\ ((file[g] \in orphans)' <=> file[g] \in orphans)
        /\ (MainFor(g)' <=> MainFor(g))
    BY <1>1 DEF MainFor
  <2> QED
    BY <1>0, <1>2, <1>4, <1>6, <2>1, KeptInQueues DEF HeldKept
<1>8. OnePerFd'
  <2>0. "CLIENTCONN" \in Kinds /\ "main" \in Kinds /\ 0 \in Nat /\ 1 \in Nat
        /\ Placed("main", NoThread, 0)
    BY DEF Kinds, Placed
  <2>1. Held("CLIENTCONN", t, 1, f)
    BY <1>2 DEF Held
  <2>2. /\ file[f] # NoConn /\ file[f] \notin orphans
        /\ \A u \in Threads : ~ Accepted(u, f) /\ ~ Device(u, f)
        /\ \A u \in Threads, i \in Nat :
                (ConnIn(u, i, f) => u = t /\ i = 1) /\ ~ InsertFor(u, i, f)
    BY <1>0, <2>0, <2>1, OnlyHolder
  <2>3. \A u \in Threads : ~ Accepted(u, f)' /\ ~ Device(u, f)'
    BY <1>6, <2>2
  <2>4. ASSUME NEW u \in Threads, NEW i \in Nat
        PROVE  ~ InsertFor(u, i, f)' /\ ~ ConnIn(u, i, f)'
    <3>1. ~ InsertFor(u, i, f)'
      BY <1>1, <2>2 DEF InsertFor, InsertIn
    <3>2. i # 0 => i + Shift(u, t) \in Nat /\ (u = t => i + Shift(u, t) # 1)
      BY DEF Shift
    <3> QED
      BY <1>2, <2>2, <3>1, <3>2 DEF ConnsKept
  <2>5. MainFor(f)' /\ ~ (file[f] \in orphans)' /\ file'[f] # NoConn
    BY <1>1, <2>2 DEF MainFor
  <2>6. HeldAt(f, "main", NoThread, 0)
    <3>1. PartsAt(f, "main", NoThread, 0)
      BY <2>3, <2>4, <2>5 DEF PartsAt
    <3> QED
      BY <1>0, <2>0, <3>1, HeldInParts
  <2>7. OthersKept(f, NoThread, t)
    BY <1>7 DEF OthersKept
  <2> QED
    BY <1>0, <2>0, <2>6, <2>7, FdPassed
<1>9. OnePerSession'
  <2>1. OthersBorne(z, NoThread)
    BY <1>1, <1>4, BorneInQueues DEF OthersBorne, BorneKept, MainWith
  <2>2. BorneAt(z, "main", NoThread, 0)
    <3>1. \A u \in Threads, i \in Nat : ~ InsertWith(u, i, z)
      BY SessionsGiven DEF InsertWith
    <3>2. \A u \in Threads : m_MapDeviceSessionInfo[u][z] = NoFd
      BY SessionsGiven
    <3>3. \A u \in Threads, i \in Nat : ~ InsertWith(u, i, z)'
      BY <1>1, <3>1 DEF InsertWith, InsertIn
    <3>4. ASSUME NEW k \in Kinds, NEW u \in Owners, NEW i \in Nat, Borne(k, u, i, z)'
          PROVE  k = "main" /\ u = NoThread /\ i = 0
      <4>1. ~ (k = "INSERT")
        BY <3>3, <3>4 DEF Borne, InsertWith
      <4>2. ~ (k = "device")
        BY <1>1, <3>2, <3>4 DEF Borne
      <4> QED
        BY <3>4, <4>1, <4>2 DEF Borne
    <3>5. z < nextSession'
      BY <1>1
    <3> QED
      BY <3>4, <3>5 DEF BorneAt
  <2>3. "main" \in Kinds /\ 0 \in Nat /\ nextSession' \in Nat /\ nextSession <= nextSession'
    BY <1>1 DEF Kinds
  <2> QED
    BY <1>0, <2>1, <2>2, <2>3, SessionPassed
<1>10. SessionsMatch'
  <2>1. mpc'.at = "scan" => connOf'[mpc'.session] = file'[mpc'.fd]
    BY <1>1
  <2>2. ASSUME NEW u \in Threads, NEW i \in Nat, InsertIn(u, i)'
        PROVE  connOf'[m_queue_thread'[u][i].session_id] = file'[m_queue_thread'[u][i].fd]
    <3>1. InsertIn(u, i) /\ UNCHANGED m_queue_thread
      BY <1>1, <2>2 DEF InsertIn
    <3>2. m_queue_thread[u][i].session_id \in Sessions /\ m_queue_thread[u][i].session_id # z
      BY <1>0, <3>1, InsertFields, SessionsGiven
    <3>3. connOf[m_queue_thread[u][i].session_id] = file[m_queue_thread[u][i].fd]
      BY <3>1 DEF SessionsMatch
    <3> QED
      BY <1>1, <3>1, <3>2, <3>3
  <2>3. ASSUME NEW u \in Threads, NEW g \in Fds, Held("device", u, 0, g)'
        PROVE  connOf'[m_MapDeviceInfo'[u][g]] = file'[g] /\ g \in interest'[u]
    <3>1. Held("device", u, 0, g) /\ m_MapDeviceInfo[u][g] # NoSession
      BY <1>1, <2>3 DEF Held, HasClosed
    <3>2. m_MapDeviceInfo[u][g] \in Sessions /\ m_MapDeviceInfo[u][g] # z
      BY <3>1, SessionsGiven
    <3> QED
      BY <1>1, <3>1, <3>2 DEF SessionsMatch
  <2> QED
    BY <2>1, <2>2, <2>3 DEF SessionsMatch
<1> QED
  BY <1>5, <1>8, <1>9, <1>10

LEMMA PushInsertHolder ==
    ASSUME TypeOK, HolderInv, NEW t \in Threads, PushInsert(t)
    PROVE  HolderInv'
<1> USE DEF HolderInv
<1>0. /\ t \in Owners /\ NoThread \in Owners /\ NoThread \notin Threads /\ QueueTypeOK
  BY ConstantAssumption DEF Owners, TypeOK
<1>. PICK f \in Fds, z \in Sessions : f = mpc.fd /\ z = mpc.session
  BY DEF PushInsert, TypeOK, MainTypeOK, MainIdle, Scan
<1>1. /\ mpc.at = "scan" /\ mpc'.at = "add"
      /\ push_task(t, TaskInsert(f, z))
      /\ UNCHANGED <<wpc, sock, file, interest, m_MapDeviceInfo, m_MapDeviceSessionInfo,
                     connOf, nextSession, orphans, m_queue_main>>
  BY DEF PushInsert, MainIdle, kernelVars, workerVars, deviceVars, ghostVars
<1>2. PICK n \in Nat :
      /\ n \notin DOMAIN m_queue_thread[t]
      /\ m_queue_thread'[t][n] = TaskInsert(f, z)
      /\ \A u \in Threads, i \in Nat :
            /\ i \in DOMAIN m_queue_thread'[u] <=>
                    i \in DOMAIN m_queue_thread[u] \/ (u = t /\ i = n)
            /\ i \in DOMAIN m_queue_thread[u] =>
                    m_queue_thread'[u][i] = m_queue_thread[u][i]
  BY <1>0, <1>1, TaskShapes, PushedToThread
<1>3. ASSUME NEW u \in Threads, NEW i \in Nat
      PROVE  /\ InsertIn(u, i)' <=> InsertIn(u, i) \/ (u = t /\ i = n)
             /\ InsertIn(u, i) => m_queue_thread'[u][i] = m_queue_thread[u][i]
             /\ \A g \in Fds :
                    InsertFor(u, i, g)' <=> InsertFor(u, i, g) \/ (u = t /\ i = n /\ g = f)
             /\ \A s \in Sessions :
                    InsertWith(u, i, s)' <=> InsertWith(u, i, s) \/ (u = t /\ i = n /\ s = z)
  <2>1. CASE u = t /\ i = n
    BY <1>2, <2>1 DEF InsertIn, InsertFor, InsertWith, TaskInsert, Task
  <2>2. CASE ~ (u = t /\ i = n)
    BY <1>2, <2>2 DEF InsertIn, InsertFor, InsertWith
  <2> QED
    BY <2>1, <2>2
<1>4. ConnsKept(NoThread)
  BY <1>0, <1>1, QueuesUnchanged
<1>5. FilesOpen'
  BY <1>1 DEF FilesOpen
<1>6. \A u \in Threads, g \in Fds :
        (Accepted(u, g)' <=> Accepted(u, g)) /\ (Device(u, g)' <=> Device(u, g))
  BY <1>1 DEF Accepted, Device, HasClosed
<1>7. ASSUME NEW g \in Fds \ {f} PROVE HeldKept(g, NoThread, NoThread)
  <2>1. /\ file'[g] = file[g] /\ ((file[g] \in orphans)' <=> file[g] \in orphans)
        /\ (MainFor(g)' <=> MainFor(g))
    BY <1>1 DEF MainFor
  <2>2. \A u \in Threads, i \in Nat :
            InsertFor(u, i, g)' <=> i # 0 /\ InsertFor(u, i + Shift(u, NoThread), g)
    BY <1>0, <1>3, PlacesPositive DEF InsertFor, Shift
  <2>3. \A u \in Threads, i \in Nat :
            ConnIn(u, i, g)' <=> i # 0 /\ ConnIn(u, i + Shift(u, NoThread), g)
    BY <1>4 DEF ConnsKept
  <2> QED
    BY <1>0, <1>6, <2>1, <2>2, <2>3 DEF HeldKept
<1>8. OnePerFd'
  <2>0. "INSERT" \in Kinds /\ "main" \in Kinds /\ 0 \in Nat /\ Placed("INSERT", t, n)
    BY DEF Kinds, Placed
  <2>1. Held("main", NoThread, 0, f)
    BY <1>1 DEF Held
  <2>2. /\ file[f] # NoConn /\ file[f] \notin orphans
        /\ \A u \in Threads : ~ Accepted(u, f) /\ ~ Device(u, f)
        /\ \A u \in Threads, i \in Nat : ~ ConnIn(u, i, f) /\ ~ InsertFor(u, i, f)
    BY <1>0, <2>0, <2>1, OnlyHolder
  <2>3. \A u \in Threads : ~ Accepted(u, f)' /\ ~ Device(u, f)'
    BY <1>6, <2>2
  <2>4. ASSUME NEW u \in Threads, NEW i \in Nat
        PROVE  (InsertFor(u, i, f)' <=> u = t /\ i = n) /\ ~ ConnIn(u, i, f)'
    BY <1>1, <1>3, <2>2 DEF ConnIn
  <2>5. ~ MainFor(f)' /\ ~ (file[f] \in orphans)' /\ file'[f] # NoConn
    BY <1>1, <2>2 DEF MainFor
  <2>6. HeldAt(f, "INSERT", t, n)
    <3>1. PartsAt(f, "INSERT", t, n)
      BY <2>3, <2>4, <2>5 DEF PartsAt
    <3> QED
      BY <1>0, <1>2, <2>0, <3>1, HeldInParts
  <2>7. OthersKept(f, NoThread, NoThread)
    BY <1>7 DEF OthersKept
  <2> QED
    BY <1>0, <1>2, <2>0, <2>6, <2>7, FdPassed
<1>9. OnePerSession'
  <2>0. "INSERT" \in Kinds /\ "main" \in Kinds /\ 0 \in Nat
        /\ nextSession' \in Nat /\ nextSession <= nextSession'
    BY <1>1 DEF Kinds, TypeOK, MainTypeOK
  <2>1. OthersBorne(z, NoThread)
    <3>1. ASSUME NEW s \in Sessions \ {z}, NEW u \in Threads, NEW i \in Nat, InsertWith(u, i, s)'
          PROVE  InsertWith(u, i + Shift(u, NoThread), s)
      <4>1. InsertWith(u, i, s) /\ i + Shift(u, NoThread) = i
        BY <1>0, <1>3, <3>1 DEF Shift
      <4> QED
        BY <4>1
    <3> QED
      BY <1>1, <3>1 DEF OthersBorne, BorneKept, MainWith
  <2>2. BorneAt(z, "INSERT", t, n)
    <3>1. Borne("main", NoThread, 0, z)
      BY <1>1 DEF Borne
    <3>2. /\ z < nextSession
          /\ \A u \in Threads : m_MapDeviceSessionInfo[u][z] = NoFd
          /\ \A u \in Threads, i \in Nat : ~ InsertWith(u, i, z)
      BY <1>0, <2>0, <3>1, OnlyBearer
    <3>3. \A u \in Threads, i \in Nat : InsertWith(u, i, z)' => u = t /\ i = n
      BY <1>3, <3>2
    <3> QED
      BY <1>1, <3>2, <3>3 DEF BorneAt, Borne, InsertWith
  <2> QED
    BY <1>0, <1>2, <2>0, <2>1, <2>2, SessionPassed
<1>10. SessionsMatch'
  <2>1. ASSUME NEW u \in Threads, NEW i \in Nat, InsertIn(u, i)'
        PROVE  connOf[m_queue_thread'[u][i].session_id] = file[m_queue_thread'[u][i].fd]
    <3>1. CASE InsertIn(u, i)
      BY <1>3, <3>1 DEF SessionsMatch
    <3>2. CASE u = t /\ i = n
      BY <1>1, <1>2, <3>2 DEF SessionsMatch, TaskInsert, Task
    <3> QED
      BY <1>3, <2>1, <3>1, <3>2
  <2>2. ASSUME NEW u \in Threads, NEW g \in Fds, Held("device", u, 0, g)'
        PROVE  connOf[m_MapDeviceInfo[u][g]] = file[g] /\ g \in interest[u]
    <3>1. Held("device", u, 0, g)
      BY <1>1, <2>2 DEF Held, HasClosed
    <3> QED
      BY <3>1 DEF SessionsMatch
  <2> QED
    BY <1>1, <2>1, <2>2 DEF SessionsMatch
<1> QED
  BY <1>5, <1>8, <1>9, <1>10

LEMMA AddClientConnHolder ==
    ASSUME TypeOK, MapsAgree, RemovesDevice, HolderInv, NEW t \in Threads, AddClientConn(t)
    PROVE  HolderInv'
<1> USE DEF HolderInv
<1>0. /\ t \in Owners /\ NoThread \in Owners /\ NoThread \notin Threads /\ QueueTypeOK
      /\ NoFd \notin Fds /\ NoSession \notin Sessions
  BY ConstantAssumption DEF Owners, TypeOK, NoSession, Sessions
<1>a. TaskAtWorker(t, "INSERT") /\ TakeTask(t)
  BY DEF AddClientConn
<1>. PICK f \in Fds, z \in Sessions :
        f = Head(m_queue_thread[t]).fd /\ z = Head(m_queue_thread[t]).session_id
  BY <1>0, <1>a, TakeTaskTyped, ThreadTaskFields DEF TaskAtWorker
<1>b. Head(m_queue_thread[t]) = m_queue_thread[t][1] /\ InsertIn(t, 1)
  BY <1>0, <1>a, InsertsTaken
<1>c. Held("INSERT", t, 1, f) /\ Borne("INSERT", t, 1, z)
  BY <1>b DEF Held, Borne
<1>d. {"INSERT", "device"} \subseteq Kinds /\ 0 \in Nat /\ 1 \in Nat /\ Placed("device", t, 0)
  BY DEF Kinds, Placed
<1>e. /\ file[f] # NoConn /\ file[f] \notin orphans /\ ~ MainFor(f)
      /\ \A u \in Threads : ~ Accepted(u, f) /\ ~ Device(u, f)
      /\ \A u \in Threads, i \in Nat :
                (InsertFor(u, i, f) => u = t /\ i = 1) /\ ~ ConnIn(u, i, f)
  BY <1>0, <1>c, <1>d, OnlyHolder
<1>f. /\ z < nextSession /\ ~ MainWith(z)
      /\ \A u \in Threads : m_MapDeviceSessionInfo[u][z] = NoFd
      /\ \A u \in Threads, i \in Nat : InsertWith(u, i, z) => u = t /\ i = 1
  BY <1>0, <1>c, <1>d, OnlyBearer
<1>g. wpc[t].at = "idle" /\ m_MapDeviceInfo[t][f] = NoSession
  BY <1>a, <1>e DEF TaskAtWorker, Device, HasClosed
<1>1. /\ UNCHANGED <<wpc, mpc, sock, file, connOf, orphans, nextSession, m_queue_main>>
      /\ interest'[t] = interest[t] \cup {f}
      /\ \A u \in Threads \ {t} : interest'[u] = interest[u]
      /\ \A u \in Threads, g \in Fds : m_MapDeviceInfo'[u][g] =
            IF u = t /\ g = f THEN z ELSE m_MapDeviceInfo[u][g]
      /\ \A u \in Threads, s \in Sessions : m_MapDeviceSessionInfo'[u][s] =
            IF u = t /\ s = z THEN f ELSE m_MapDeviceSessionInfo[u][s]
  <2>1. m_MapDeviceSessionInfo[t][z] = NoFd
    BY <1>f
  <2>2. /\ UNCHANGED <<wpc, mpc, sock, file, connOf, orphans, nextSession, m_queue_main>>
        /\ interest' = [interest EXCEPT ![t] = @ \cup {f}]
        /\ m_MapDeviceInfo' = [m_MapDeviceInfo EXCEPT ![t][f] = z]
        /\ m_MapDeviceSessionInfo' = [m_MapDeviceSessionInfo EXCEPT ![t][z] = f]
    BY <1>g, <2>1 DEF AddClientConn, mainVars, ghostVars
  <2> QED
    BY <2>2 DEF TypeOK, KernelTypeOK, WorkerTypeOK
<1>2. InsertsKept(t) /\ ConnsKept(NoThread)
  BY <1>0, <1>1, <1>a, InsertsTaken, QueuesUnchanged
<1>5. FilesOpen'
  BY <1>1 DEF FilesOpen
<1>6. \A u \in Threads, g \in Fds : HasClosed(u, g)' <=> HasClosed(u, g)
  BY <1>1 DEF HasClosed
<1>7. ASSUME NEW g \in Fds \ {f} PROVE HeldKept(g, t, NoThread)
  <2>1. /\ file'[g] = file[g] /\ ((file[g] \in orphans)' <=> file[g] \in orphans)
        /\ (MainFor(g)' <=> MainFor(g))
        /\ \A u \in Threads : Accepted(u, g)' <=> Accepted(u, g)
    BY <1>1 DEF MainFor, Accepted
  <2>2. \A u \in Threads : Device(u, g)' <=> Device(u, g)
    BY <1>1, <1>6 DEF Device
  <2>3. ~ InsertFor(t, 1, g)
    BY <1>b DEF InsertFor
  <2> QED
    BY <1>0, <1>2, <2>1, <2>2, <2>3, KeptInQueues DEF HeldKept
<1>8. OnePerFd'
  <2>3. \A u \in Threads : ~ Accepted(u, f)' /\ (Device(u, f)' <=> u = t)
    <3>1. \A u \in Threads : ~ Accepted(u, f)'
      BY <1>1, <1>e DEF Accepted
    <3>2. \A u \in Threads : u # t => ~ Device(u, f)'
      BY <1>1, <1>6, <1>e DEF Device
    <3>3. Device(t, f)'
      BY <1>0, <1>1, <1>6, <1>g DEF Device, HasClosed
    <3> QED
      BY <3>1, <3>2, <3>3
  <2>4. ASSUME NEW u \in Threads, NEW i \in Nat
        PROVE  ~ InsertFor(u, i, f)' /\ ~ ConnIn(u, i, f)'
    <3>1. ~ ConnIn(u, i, f)'
      BY <1>1, <1>e DEF ConnIn
    <3>2. i # 0 => i + Shift(u, t) \in Nat /\ (u = t => i + Shift(u, t) # 1)
      BY DEF Shift
    <3>3. InsertFor(u, i, f)' => i # 0 /\ InsertFor(u, i + Shift(u, t), f)
      BY <1>2 DEF InsertsKept, InsertFor
    <3> QED
      BY <1>e, <3>1, <3>2, <3>3
  <2>5. ~ MainFor(f)' /\ ~ (file[f] \in orphans)' /\ file'[f] # NoConn
    BY <1>1, <1>e DEF MainFor
  <2>6. HeldAt(f, "device", t, 0)
    <3>1. PartsAt(f, "device", t, 0)
      BY <2>3, <2>4, <2>5 DEF PartsAt
    <3> QED
      BY <1>0, <1>d, <3>1, HeldInParts
  <2>7. OthersKept(f, t, NoThread)
    BY <1>7 DEF OthersKept
  <2> QED
    BY <1>0, <1>d, <2>6, <2>7, FdPassed
<1>9. OnePerSession'
  <2>0. nextSession' \in Nat /\ nextSession <= nextSession'
    BY <1>1 DEF TypeOK, MainTypeOK
  <2>1. OthersBorne(z, t)
    <3>1. ASSUME NEW s \in Sessions \ {z}, NEW u \in Threads, NEW i \in Nat, InsertWith(u, i, s)'
          PROVE  InsertWith(u, i + Shift(u, t), s)
      BY <1>2, <3>1 DEF InsertsKept, InsertWith
    <3> QED
      BY <1>1, <3>1 DEF OthersBorne, BorneKept, MainWith
  <2>2. BorneAt(z, "device", t, 0)
    <3>1. ASSUME NEW u \in Threads, NEW i \in Nat PROVE ~ InsertWith(u, i, z)'
      <4>1. InsertWith(u, i, z)' => i # 0 /\ InsertWith(u, i + Shift(u, t), z)
        BY <1>2 DEF InsertsKept, InsertWith
      <4>2. i # 0 => i + Shift(u, t) \in Nat /\ (u = t => i + Shift(u, t) # 1)
        BY DEF Shift
      <4> QED
        BY <1>f, <4>1, <4>2
    <3>2. \A u \in Threads : m_MapDeviceSessionInfo'[u][z] # NoFd => u = t
      BY <1>1, <1>f
    <3>3. ~ MainWith(z)'
      BY <1>1, <1>f DEF MainWith
    <3> QED
      BY <1>1, <1>f, <3>1, <3>2, <3>3 DEF BorneAt, Borne, InsertWith, MainWith
  <2> QED
    BY <1>0, <1>d, <2>0, <2>1, <2>2, SessionPassed
<1>10. SessionsMatch'
  <2>1. ASSUME NEW u \in Threads, NEW i \in Nat, InsertIn(u, i)'
        PROVE  connOf[m_queue_thread'[u][i].session_id] = file[m_queue_thread'[u][i].fd]
    <3>1. /\ InsertIn(u, i + Shift(u, t)) /\ i + Shift(u, t) \in Nat
          /\ m_queue_thread'[u][i] = m_queue_thread[u][i + Shift(u, t)]
      BY <1>2, <2>1 DEF InsertsKept, Shift
    <3> QED
      BY <3>1 DEF SessionsMatch
  <2>2. ASSUME NEW u \in Threads, NEW g \in Fds, Held("device", u, 0, g)'
        PROVE  connOf[m_MapDeviceInfo'[u][g]] = file[g] /\ g \in interest'[u]
    <3>1. CASE u = t /\ g = f
      <4>1. connOf[z] = file[f]
        BY <1>b DEF SessionsMatch
      <4> QED
        BY <1>1, <3>1, <4>1
    <3>2. CASE ~ (u = t /\ g = f)
      <4>1. Held("device", u, 0, g)
        BY <1>1, <1>6, <2>2, <3>2 DEF Held
      <4>2. connOf[m_MapDeviceInfo[u][g]] = file[g] /\ g \in interest[u]
        BY <4>1 DEF SessionsMatch
      <4> QED
        BY <1>1, <3>2, <4>2
    <3> QED
      BY <3>1, <3>2
  <2> QED
    BY <1>1, <2>1, <2>2 DEF SessionsMatch
<1> QED
  BY <1>5, <1>8, <1>9, <1>10

LEMMA RegisterFailureHolder ==
    ASSUME TypeOK, HolderInv, NEW t \in Threads, RegisterFailure(t), TaskAtWorker(t, "INSERT")
    PROVE  HolderInv'
<1> USE DEF HolderInv
<1>0. /\ t \in Owners /\ NoThread \in Owners /\ NoThread \notin Threads /\ QueueTypeOK
      /\ NoConn \notin Conns /\ file \in [Fds -> Conns \cup {NoConn}]
  BY ConstantAssumption DEF Owners, TypeOK, KernelTypeOK
<1>a. TaskAtWorker(t, "INSERT") /\ TakeTask(t)
  BY DEF RegisterFailure
<1>. PICK f \in Fds, z \in Sessions :
        f = Head(m_queue_thread[t]).fd /\ z = Head(m_queue_thread[t]).session_id
  BY <1>0, <1>a, TakeTaskTyped, ThreadTaskFields DEF TaskAtWorker
<1>b. Head(m_queue_thread[t]) = m_queue_thread[t][1] /\ InsertIn(t, 1)
  BY <1>0, <1>a, InsertsTaken
<1>c. Held("INSERT", t, 1, f) /\ Borne("INSERT", t, 1, z)
  BY <1>b DEF Held, Borne
<1>d. {"INSERT", "orphan"} \subseteq Kinds /\ 0 \in Nat /\ 1 \in Nat
      /\ Placed("orphan", NoThread, 0)
  BY DEF Kinds, Placed
<1>e. /\ file[f] # NoConn /\ file[f] \notin orphans /\ ~ MainFor(f)
      /\ \A u \in Threads : ~ Accepted(u, f) /\ ~ Device(u, f)
      /\ \A u \in Threads, i \in Nat :
                (InsertFor(u, i, f) => u = t /\ i = 1) /\ ~ ConnIn(u, i, f)
  BY <1>0, <1>c, <1>d, OnlyHolder
<1>f. /\ z < nextSession /\ ~ MainWith(z)
      /\ \A u \in Threads : m_MapDeviceSessionInfo[u][z] = NoFd
      /\ \A u \in Threads, i \in Nat : InsertWith(u, i, z) => u = t /\ i = 1
  BY <1>0, <1>c, <1>d, OnlyBearer
<1>1. /\ UNCHANGED <<wpc, mpc, sock, file, connOf, nextSession, m_queue_main, interest,
                     m_MapDeviceInfo, m_MapDeviceSessionInfo>>
      /\ orphans' = orphans \cup {file[f]}
  BY <1>a DEF RegisterFailure, kernelVars, workerVars, deviceVars, mainVars
<1>2. InsertsKept(t) /\ ConnsKept(NoThread)
  BY <1>0, <1>1, <1>a, InsertsTaken, QueuesUnchanged
<1>5. FilesOpen'
  <2>1. file[f] \in Conns /\ sock[file[f]] = "open"
    BY <1>0, <1>e DEF FilesOpen
  <2> QED
    BY <1>1, <2>1 DEF FilesOpen
<1>6. \A u \in Threads, g \in Fds :
        (Accepted(u, g)' <=> Accepted(u, g)) /\ (Device(u, g)' <=> Device(u, g))
  BY <1>1 DEF Accepted, Device, HasClosed
<1>7. ASSUME NEW g \in Fds \ {f} PROVE HeldKept(g, t, NoThread)
  <2>1. file[g] # file[f]
    BY <1>e DEF FilesOpen
  <2>2. /\ file'[g] = file[g] /\ ((file[g] \in orphans)' <=> file[g] \in orphans)
        /\ (MainFor(g)' <=> MainFor(g))
    BY <1>1, <2>1 DEF MainFor
  <2>3. ~ InsertFor(t, 1, g)
    BY <1>b DEF InsertFor
  <2> QED
    BY <1>0, <1>2, <1>6, <2>2, <2>3, KeptInQueues DEF HeldKept
<1>8. OnePerFd'
  <2>4. ASSUME NEW u \in Threads, NEW i \in Nat
        PROVE  ~ InsertFor(u, i, f)' /\ ~ ConnIn(u, i, f)'
    <3>1. ~ ConnIn(u, i, f)'
      BY <1>1, <1>e DEF ConnIn
    <3>2. i # 0 => i + Shift(u, t) \in Nat /\ (u = t => i + Shift(u, t) # 1)
      BY DEF Shift
    <3>3. InsertFor(u, i, f)' => i # 0 /\ InsertFor(u, i + Shift(u, t), f)
      BY <1>2 DEF InsertsKept, InsertFor
    <3> QED
      BY <1>e, <3>1, <3>2, <3>3
  <2>5. ~ MainFor(f)' /\ (file[f] \in orphans)' /\ file'[f] # NoConn
    BY <1>1, <1>e DEF MainFor
  <2>6. HeldAt(f, "orphan", NoThread, 0)
    <3>1. PartsAt(f, "orphan", NoThread, 0)
      BY <1>6, <1>e, <2>4, <2>5 DEF PartsAt
    <3> QED
      BY <1>0, <1>d, <3>1, HeldInParts
  <2>7. OthersKept(f, t, NoThread)
    BY <1>7 DEF OthersKept
  <2> QED
    BY <1>0, <1>d, <2>6, <2>7, FdPassed
<1>9. OnePerSession'
  <2>0. nextSession' \in Nat /\ nextSession <= nextSession'
    BY <1>1 DEF TypeOK, MainTypeOK
  <2>1. OthersBorne(z, t)
    <3>1. ASSUME NEW s \in Sessions \ {z}, NEW u \in Threads, NEW i \in Nat, InsertWith(u, i, s)'
          PROVE  InsertWith(u, i + Shift(u, t), s)
      BY <1>2, <3>1 DEF InsertsKept, InsertWith
    <3> QED
      BY <1>1, <3>1 DEF OthersBorne, BorneKept, MainWith
  <2>2. BorneAt(z, "orphan", NoThread, 0)
    <3>1. ASSUME NEW u \in Threads, NEW i \in Nat PROVE ~ InsertWith(u, i, z)'
      <4>1. InsertWith(u, i, z)' => i # 0 /\ InsertWith(u, i + Shift(u, t), z)
        BY <1>2 DEF InsertsKept, InsertWith
      <4>2. i # 0 => i + Shift(u, t) \in Nat /\ (u = t => i + Shift(u, t) # 1)
        BY DEF Shift
      <4> QED
        BY <1>f, <4>1, <4>2
    <3>2. \A u \in Threads : m_MapDeviceSessionInfo'[u][z] = NoFd
      BY <1>1, <1>f
    <3>3. ~ MainWith(z)'
      BY <1>1, <1>f DEF MainWith
    <3> QED
      BY <1>1, <1>f, <3>1, <3>2, <3>3 DEF BorneAt, Borne, InsertWith, MainWith
  <2> QED
    BY <1>0, <1>d, <2>0, <2>1, <2>2, SessionPassed
<1>10. SessionsMatch'
  <2>1. ASSUME NEW u \in Threads, NEW i \in Nat, InsertIn(u, i)'
        PROVE  connOf[m_queue_thread'[u][i].session_id] = file[m_queue_thread'[u][i].fd]
    <3>1. /\ InsertIn(u, i + Shift(u, t)) /\ i + Shift(u, t) \in Nat
          /\ m_queue_thread'[u][i] = m_queue_thread[u][i + Shift(u, t)]
      BY <1>2, <2>1 DEF InsertsKept, Shift
    <3> QED
      BY <3>1 DEF SessionsMatch
  <2>2. ASSUME NEW u \in Threads, NEW g \in Fds, Held("device", u, 0, g)'
        PROVE  connOf[m_MapDeviceInfo[u][g]] = file[g] /\ g \in interest[u]
    <3>1. Held("device", u, 0, g)
      BY <1>1, <2>2 DEF Held, HasClosed
    <3> QED
      BY <3>1 DEF SessionsMatch
  <2> QED
    BY <1>1, <2>1, <2>2 DEF SessionsMatch
<1> QED
  BY <1>5, <1>8, <1>9, <1>10

(* Nothing happens to the sessions. *)
LEMMA SessionsStay ==
    ASSUME TypeOK, OnePerSession, UNCHANGED nextSession, NEW a \in Owners,
           \A s \in Sessions : BorneKept(s, a)
    PROVE  OnePerSession'
<1>1. 0 \notin Sessions /\ "main" \in Kinds /\ NoThread \in Owners /\ 0 \in Nat
  BY DEF Sessions, Kinds, Owners
<1>2. OthersBorne(0, a) /\ BorneAt(0, "main", NoThread, 0)
  BY <1>1 DEF OthersBorne, BorneAt
<1>3. nextSession' \in Nat /\ nextSession <= nextSession'
  BY DEF TypeOK, MainTypeOK
<1> QED
  BY <1>1, <1>2, <1>3, SessionPassed

(* close() of the descriptor of a device, which main asked for (a is then  *)
(* the thread whose DELETE task is taken) or the thread itself decided.    *)
LEMMA CloseHolder ==
    ASSUME TypeOK, HolderInv, NEW t \in Threads, NEW f \in Fds, NEW a \in Owners,
           Held("device", t, 0, f), Close(f),
           wpc[t].at \in {"idle", "remove"},
           wpc'[t].at \in {"erase", "unregister"}, wpc'[t].fd = f,
           \A u \in Threads \ {t} : wpc'[u] = wpc[u],
           InsertsKept(a), a \in Threads => ~ InsertIn(a, 1),
           UNCHANGED <<mpc, m_MapDeviceInfo, m_MapDeviceSessionInfo, connOf, orphans,
                       nextSession, m_queue_main>>
    PROVE  HolderInv'
<1> USE DEF HolderInv
<1>0. /\ t \in Owners /\ NoThread \in Owners /\ NoThread \notin Threads /\ QueueTypeOK
      /\ NoConn \notin Conns /\ file \in [Fds -> Conns \cup {NoConn}]
      /\ "device" \in Kinds /\ 0 \in Nat /\ Placed("device", t, 0)
  BY ConstantAssumption DEF Owners, TypeOK, KernelTypeOK, Kinds, Placed
<1>1. /\ file'[f] = NoConn /\ \A g \in Fds \ {f} : file'[g] = file[g]
      /\ \A c \in Conns : sock'[c] = IF c = file[f] THEN "closed" ELSE sock[c]
      /\ \A u \in Threads : interest'[u] = interest[u] \ {f}
  BY DEF Close, TypeOK, KernelTypeOK
<1>2. ConnsKept(NoThread)
  BY <1>0, QueuesUnchanged
<1>e. /\ file[f] # NoConn /\ file[f] \notin orphans /\ ~ MainFor(f)
      /\ \A u \in Threads : ~ Accepted(u, f) /\ (Device(u, f) => u = t)
      /\ \A u \in Threads, i \in Nat : ~ InsertFor(u, i, f) /\ ~ ConnIn(u, i, f)
  BY <1>0, OnlyHolder
<1>5. FilesOpen'
  <2>1. ASSUME NEW g \in Fds, file'[g] # NoConn
        PROVE  sock'[file'[g]] = "open" /\ \A h \in Fds : file'[h] = file'[g] => h = g
    <3>1. g # f /\ file'[g] = file[g] /\ file[g] \in Conns /\ file[g] # file[f]
      BY <1>0, <1>1, <1>e, <2>1 DEF FilesOpen
    <3> QED
      BY <1>1, <2>1, <3>1 DEF FilesOpen
  <2>2. \A c \in orphans : c \in Conns /\ sock'[c] \in {"open", "closed"}
    BY <1>1 DEF FilesOpen
  <2> QED
    BY <2>1, <2>2 DEF FilesOpen
<1>6. \A u \in Threads, g \in Fds :
        /\ Accepted(u, g)' <=> Accepted(u, g)
        /\ g # f => (HasClosed(u, g)' <=> HasClosed(u, g))
        /\ u # t => (HasClosed(u, g)' <=> HasClosed(u, g))
        /\ HasClosed(t, f)'
  BY DEF Accepted, HasClosed
<1>7. ASSUME NEW g \in Fds \ {f} PROVE HeldKept(g, a, NoThread)
  <2>1. /\ file'[g] = file[g] /\ ((file[g] \in orphans)' <=> file[g] \in orphans)
        /\ (MainFor(g)' <=> MainFor(g))
    BY <1>1 DEF MainFor
  <2>2. \A u \in Threads : Device(u, g)' <=> Device(u, g)
    BY <1>6 DEF Device
  <2>3. a \in Threads => ~ InsertFor(a, 1, g)
    BY DEF InsertFor
  <2> QED
    BY <1>0, <1>2, <1>6, <2>1, <2>2, <2>3, KeptInQueues DEF HeldKept
<1>8. OnePerFd'
  <2>3. \A u \in Threads : ~ Accepted(u, f)' /\ ~ Device(u, f)'
    BY <1>6, <1>e DEF Device
  <2>4. ASSUME NEW u \in Threads, NEW i \in Nat
        PROVE  ~ InsertFor(u, i, f)' /\ ~ ConnIn(u, i, f)'
    <3>1. ~ ConnIn(u, i, f)'
      BY <1>e DEF ConnIn
    <3>2. i + Shift(u, a) \in Nat
      BY DEF Shift
    <3>3. InsertFor(u, i, f)' => InsertFor(u, i + Shift(u, a), f)
      BY DEF InsertsKept, InsertFor
    <3> QED
      BY <1>e, <3>1, <3>2, <3>3
  <2>5. ~ MainFor(f)' /\ ~ (file[f] \in orphans)'
    BY <1>0, <1>1, <1>e DEF MainFor, FilesOpen
  <2>6. HeldAt(f, "device", t, 0)
    <3>1. PartsAt(f, "device", t, 0)
      BY <1>1, <2>3, <2>4, <2>5 DEF PartsAt
    <3> QED
      BY <1>0, <3>1, HeldInParts
  <2>7. OthersKept(f, a, NoThread)
    BY <1>7 DEF OthersKept
  <2> QED
    BY <1>0, <2>6, <2>7, FdPassed
<1>9. OnePerSession'
  <2>1. ASSUME NEW s \in Sessions PROVE BorneKept(s, a)
    <3>1. \A u \in Threads, i \in Nat : InsertWith(u, i, s)' => InsertWith(u, i + Shift(u, a), s)
      BY DEF InsertsKept, InsertWith
    <3> QED
      BY <3>1 DEF BorneKept, MainWith
  <2> QED
    BY <2>1, SessionsStay
<1>10. SessionsMatch'
  <2>1. mpc'.at = "scan" => connOf'[mpc'.session] = file'[mpc'.fd]
    <3>1. mpc.at = "scan" => mpc.fd \in Fds /\ mpc.fd # f
      BY <1>e DEF MainFor, TypeOK, MainTypeOK, MainIdle, Scan
    <3> QED
      BY <1>1, <3>1 DEF SessionsMatch
  <2>2. ASSUME NEW u \in Threads, NEW i \in Nat, InsertIn(u, i)'
        PROVE  connOf[m_queue_thread'[u][i].session_id] = file'[m_queue_thread'[u][i].fd]
    <3>1. /\ InsertIn(u, i + Shift(u, a)) /\ i + Shift(u, a) \in Nat
          /\ m_queue_thread'[u][i] = m_queue_thread[u][i + Shift(u, a)]
      BY <2>2 DEF InsertsKept, Shift
    <3>2. /\ m_queue_thread[u][i + Shift(u, a)].fd \in Fds
          /\ m_queue_thread[u][i + Shift(u, a)].fd # f
      BY <1>0, <1>e, <3>1, InsertFields DEF InsertFor
    <3>3. connOf[m_queue_thread[u][i + Shift(u, a)].session_id] =
            file[m_queue_thread[u][i + Shift(u, a)].fd]
      BY <3>1 DEF SessionsMatch
    <3> QED
      BY <1>1, <3>1, <3>2, <3>3
  <2>3. ASSUME NEW u \in Threads, NEW g \in Fds, Held("device", u, 0, g)'
        PROVE  connOf[m_MapDeviceInfo[u][g]] = file'[g] /\ g \in interest'[u]
    <3>1. Device(u, g) /\ g # f
      BY <1>6, <1>e, <2>3 DEF Held, Device
    <3>2. Held("device", u, 0, g)
      BY <3>1 DEF Held, Device
    <3> QED
      BY <1>1, <3>1, <3>2 DEF SessionsMatch
  <2> QED
    BY <2>1, <2>2, <2>3 DEF SessionsMatch
<1> QED
  BY <1>5, <1>8, <1>9, <1>10

LEMMA CloseDeviceHolder ==
    ASSUME TypeOK, RemovesDevice, HolderInv, NEW t \in Threads, CloseDevice(t)
    PROVE  HolderInv'
<1>. PICK f \in Fds : f = wpc[t].fd
  BY DEF CloseDevice, TypeOK, WorkerTypeOK
<1>1. Held("device", t, 0, f)
  BY DEF CloseDevice, RemovesDevice, AtDevice, Held, HasClosed
<1>2. /\ Close(f) /\ wpc[t].at = "remove" /\ wpc'[t].at = "erase" /\ wpc'[t].fd = f
      /\ \A u \in Threads \ {t} : wpc'[u] = wpc[u]
      /\ UNCHANGED <<mpc, m_MapDeviceInfo, m_MapDeviceSessionInfo, connOf, orphans,
                     nextSession, m_queue_main, m_queue_thread>>
  BY DEF CloseDevice, TypeOK, WorkerTypeOK, deviceVars, queueVars, mainVars, ghostVars
<1>3. InsertsKept(NoThread) /\ NoThread \in Owners /\ NoThread \notin Threads
  BY <1>2, QueuesUnchanged, ConstantAssumption DEF TypeOK, Owners
<1> QED
  BY <1>1, <1>2, <1>3, CloseHolder

LEMMA DelClientConnHolder ==
    ASSUME TypeOK, MapsAgree, HolderInv, NEW t \in Threads, DelClientConn(t),
           m_MapDeviceSessionInfo[t][Head(m_queue_thread[t]).session_id] # NoFd
    PROVE  HolderInv'
<1>0. QueueTypeOK /\ t \in Owners
  BY DEF TypeOK, Owners
<1>a. TaskAtWorker(t, "DELETE") /\ TakeTask(t)
  BY DEF DelClientConn
<1>. PICK s \in Sessions : s = Head(m_queue_thread[t]).session_id
  BY <1>0, <1>a, TakeTaskTyped, ThreadTaskFields DEF TaskAtWorker
<1>. PICK f \in Fds : f = m_MapDeviceSessionInfo[t][s]
  BY DEF TypeOK, WorkerTypeOK
<1>1. Held("device", t, 0, f)
  <2>1. m_MapDeviceInfo[t][f] = s
    BY DEF MapsAgree
  <2>2. wpc[t].at = "idle" /\ s # NoSession
    BY <1>a DEF TaskAtWorker, Sessions, NoSession
  <2> QED
    BY <2>1, <2>2 DEF Held, HasClosed
<1>2. /\ Close(f) /\ wpc[t].at = "idle" /\ wpc'[t].at = "unregister" /\ wpc'[t].fd = f
      /\ \A u \in Threads \ {t} : wpc'[u] = wpc[u]
      /\ UNCHANGED <<mpc, m_MapDeviceInfo, m_MapDeviceSessionInfo, connOf, orphans,
                     nextSession, m_queue_main>>
  BY <1>a DEF DelClientConn, TaskAtWorker, TypeOK, WorkerTypeOK, deviceVars, mainVars, ghostVars
<1>3. InsertsKept(t) /\ ~ InsertIn(t, 1)
  BY <1>0, <1>a, InsertsTaken
<1> QED
  BY <1>0, <1>1, <1>2, <1>3, CloseHolder

LEMMA EraseDeviceHolder ==
    ASSUME TypeOK, MapsAgree, RemovesDevice, HolderInv, NEW t \in Threads, EraseDevice(t)
    PROVE  HolderInv'
<1> USE DEF HolderInv
<1>0. NoThread \in Owners /\ NoThread \notin Threads /\ QueueTypeOK /\ NoFd \notin Fds
  BY ConstantAssumption DEF TypeOK, Owners
<1>. PICK f \in Fds : f = wpc[t].fd
  BY DEF EraseDevice, TypeOK, WorkerTypeOK
<1>. PICK z \in Sessions : z = m_MapDeviceInfo[t][f]
  BY DEF EraseDevice, RemovesDevice, AtDevice, TypeOK, WorkerTypeOK
<1>1. /\ UNCHANGED <<mpc, sock, file, connOf, orphans, nextSession, m_queue_main, m_queue_thread>>
      /\ wpc[t].at \in {"erase", "unregister"} /\ wpc'[t] = WorkerIdle
      /\ \A u \in Threads \ {t} : wpc'[u] = wpc[u] /\ interest'[u] = interest[u]
      /\ interest[t] \ {f} \subseteq interest'[t]
      /\ \A u \in Threads, g \in Fds : m_MapDeviceInfo'[u][g] =
            IF u = t /\ g = f THEN NoSession ELSE m_MapDeviceInfo[u][g]
      /\ \A u \in Threads, s \in Sessions : m_MapDeviceSessionInfo'[u][s] =
            IF u = t /\ s = z THEN NoFd ELSE m_MapDeviceSessionInfo[u][s]
  BY DEF EraseDevice, TypeOK, KernelTypeOK, WorkerTypeOK, queueVars, mainVars, ghostVars
<1>2. InsertsKept(NoThread) /\ ConnsKept(NoThread)
  BY <1>0, <1>1, QueuesUnchanged
<1>5. FilesOpen'
  BY <1>1 DEF FilesOpen
<1>6. ASSUME NEW u \in Threads, NEW g \in Fds
      PROVE  (Accepted(u, g)' <=> Accepted(u, g)) /\ (Device(u, g)' <=> Device(u, g))
  <2>1. CASE u # t
    BY <1>1, <2>1 DEF Accepted, Device, HasClosed
  <2>2. CASE u = t /\ g # f
    BY <1>1, <2>2 DEF Accepted, Device, HasClosed, WorkerIdle
  <2>3. CASE u = t /\ g = f
    BY <1>1, <2>3 DEF Accepted, Device, HasClosed, WorkerIdle
  <2> QED
    BY <2>1, <2>2, <2>3
<1>7. ASSUME NEW g \in Fds PROVE HeldKept(g, NoThread, NoThread)
  <2>1. /\ file'[g] = file[g] /\ ((file[g] \in orphans)' <=> file[g] \in orphans)
        /\ (MainFor(g)' <=> MainFor(g))
    BY <1>1 DEF MainFor
  <2> QED
    BY <1>0, <1>2, <1>6, <2>1, KeptInQueues DEF HeldKept
<1>8. OnePerFd'
  BY <1>0, <1>7, FdsStay
<1>9. OnePerSession'
  <2>1. ASSUME NEW s \in Sessions PROVE BorneKept(s, NoThread)
    BY <1>1, <1>2, BorneInQueues DEF BorneKept, MainWith
  <2> QED
    BY <1>0, <1>1, <2>1, SessionsStay
<1>10. SessionsMatch'
  <2>1. mpc'.at = "scan" => connOf'[mpc'.session] = file'[mpc'.fd]
    BY <1>1 DEF SessionsMatch
  <2>2. ASSUME NEW u \in Threads, NEW i \in Nat, InsertIn(u, i)'
        PROVE  connOf[m_queue_thread'[u][i].session_id] = file[m_queue_thread'[u][i].fd]
    <3>1. InsertIn(u, i) /\ UNCHANGED m_queue_thread
      BY <1>1, <2>2 DEF InsertIn
    <3> QED
      BY <3>1 DEF SessionsMatch
  <2>3. ASSUME NEW u \in Threads, NEW g \in Fds, Held("device", u, 0, g)'
        PROVE  connOf[m_MapDeviceInfo'[u][g]] = file[g] /\ g \in interest'[u]
    <3>1. Device(u, g) /\ ~ (u = t /\ g = f)
      BY <1>1, <1>6, <2>3 DEF Held, Device
    <3>2. Held("device", u, 0, g)
      BY <3>1 DEF Held, Device
    <3>3. connOf[m_MapDeviceInfo[u][g]] = file[g] /\ g \in interest[u]
      BY <3>2 DEF SessionsMatch
    <3> QED
      BY <1>1, <3>1, <3>3
  <2> QED
    BY <1>1, <2>1, <2>2, <2>3 DEF SessionsMatch
<1> QED
  BY <1>5, <1>8, <1>9, <1>10

LEMMA HolderStep ==
    ASSUME TypeOK, MapsAgree, RemovesDevice, HolderInv, [Next]_vars
    PROVE  HolderInv'
<1>1. ASSUME NEW t \in Threads, WorkerStep(t) PROVE HolderInv'
  <2>1. CASE AddClientConn(t)
    BY <2>1, AddClientConnHolder
  <2>2. CASE RegisterFailure(t)
    BY <2>2, RegisterFailureHolder, QuietWorker
  <2>3. CASE DelClientConn(t)
    BY <2>3, DelClientConnHolder, QuietWorker
  <2>4. CASE CloseDevice(t)
    BY <2>4, CloseDeviceHolder
  <2>5. CASE EraseDevice(t)
    BY <2>5, EraseDeviceHolder
  <2>6. CASE Accept(t)
    BY <2>6, AcceptHolder
  <2>7. CASE PushConn(t)
    BY <2>7, PushConnHolder
  <2> QED
    BY <1>1, <2>1, <2>2, <2>3, <2>4, <2>5, <2>6, <2>7, QuietWorker DEF WorkerStep, Worker
<1>2. CASE MainTask
  BY <1>2, NewSessionHolder, PushInsertHolder, QuietElsewhere DEF MainTask
<1>3. CASE Client \/ Application \/ UNCHANGED vars
  BY <1>3, QuietElsewhere
<1> QED
  BY <1>1, <1>2, <1>3 DEF Next, WorkerStep

LEMMA HolderInit == Init => HolderInv
<1> SUFFICES ASSUME Init PROVE HolderInv
  OBVIOUS
<1>1. /\ \A fd \in Fds : file[fd] = NoConn
      /\ \A t \in Threads, fd \in Fds : m_MapDeviceInfo[t][fd] = NoSession
      /\ \A t \in Threads, s \in Sessions : m_MapDeviceSessionInfo[t][s] = NoFd
      /\ orphans = {} /\ mpc.at = "idle"
      /\ \A t \in Threads : wpc[t].at = "idle"
  BY DEF Init, MainIdle, WorkerIdle
<1>2. \A t \in Threads, i \in Nat : ~ InsertIn(t, i)
  <2>1. PICK l \in Threads :
            m_queue_thread = [t \in Threads |-> IF t = l THEN <<TaskListener>> ELSE <<>>]
    BY DEF Init
  <2>2. TaskListener.type = "LISTENER"
    BY DEF TaskListener, Task
  <2> QED
    BY <2>1, <2>2 DEF InsertIn
<1>3. \A t \in Threads, i \in Nat, fd \in Fds : ~ ConnIn(t, i, fd)
  BY DEF ConnIn, Init
<1>4. \A k \in Kinds, t \in Owners, i \in Nat, fd \in Fds : ~ Held(k, t, i, fd)
  BY <1>1, <1>2, <1>3 DEF Held
<1>5. \A k \in Kinds, t \in Owners, i \in Nat, s \in Sessions : ~ Borne(k, t, i, s)
  BY <1>1, <1>2 DEF Borne
<1>6. FilesOpen /\ OnePerFd /\ OnePerSession
  BY <1>1, <1>4, <1>5 DEF FilesOpen, OnePerFd, OnePerSession
<1>7. SessionsMatch
  BY <1>1, <1>2 DEF SessionsMatch, Held
<1> QED
  BY <1>6, <1>7 DEF HolderInv

(* The set Holders() of a descriptor, read off its one place. *)
LEMMA HoldersCounted ==
    ASSUME TypeOK, HolderInv
    PROVE  OneHolder
<1> USE DEF HolderInv
<1> SUFFICES ASSUME NEW fd \in Fds
             PROVE  Cardinality(Holders(fd)) = IF file[fd] = NoConn THEN 0 ELSE 1
  BY DEF OneHolder
<1>0. QueueTypeOK /\ \A t \in Threads :
        DOMAIN m_queue_thread[t] \subseteq Nat /\ DOMAIN m_queue_main[t] \subseteq Nat
  BY DEF TypeOK, QueueTypeOK
<1> DEFINE accepted == {<<"accepted", t>> : t \in {u \in Threads : wpc[u] = [at |-> "push", fd |-> fd]}}
           conn(t) == {<<"CLIENTCONN", t, i>> : i \in {j \in DOMAIN m_queue_main[t] :
                            m_queue_main[t][j] = TaskConn(fd)}}
           conns == UNION {conn(t) : t \in Threads}
           main == {<<"main", t>> : t \in {u \in {"main"} : mpc.at = "scan" /\ mpc.fd = fd}}
           insert(t) == {<<"INSERT", t, i>> : i \in {j \in DOMAIN m_queue_thread[t] :
                            /\ m_queue_thread[t][j].type = "INSERT"
                            /\ m_queue_thread[t][j].fd = fd}}
           inserts == UNION {insert(t) : t \in Threads}
           device == {<<"device", t>> : t \in {u \in Threads :
                            m_MapDeviceInfo[u][fd] # NoSession /\ ~ HasClosed(u, fd)}}
           orphan == {<<"orphan", c>> : c \in orphans \cap {file[fd]}}
<1>1. Holders(fd) = accepted \cup conns \cup main \cup inserts \cup device \cup orphan
  BY DEF Holders
<1>2. /\ \A x : x \in accepted <=> \E u \in Threads : Accepted(u, fd) /\ x = <<"accepted", u>>
      /\ \A x : x \in conns <=> \E u \in Threads, i \in Nat :
                                    ConnIn(u, i, fd) /\ x = <<"CLIENTCONN", u, i>>
      /\ \A x : x \in main <=> MainFor(fd) /\ x = <<"main", "main">>
      /\ \A x : x \in inserts <=> \E u \in Threads, i \in Nat :
                                    InsertFor(u, i, fd) /\ x = <<"INSERT", u, i>>
      /\ \A x : x \in device <=> \E u \in Threads : Device(u, fd) /\ x = <<"device", u>>
      /\ \A x : x \in orphan <=> file[fd] \in orphans /\ x = <<"orphan", file[fd]>>
  <2>1. \A x : x \in accepted <=> \E u \in Threads : Accepted(u, fd) /\ x = <<"accepted", u>>
    BY DEF Accepted
  <2>2. \A x : x \in conns <=> \E u \in Threads, i \in Nat :
                                    ConnIn(u, i, fd) /\ x = <<"CLIENTCONN", u, i>>
    BY <1>0 DEF ConnIn
  <2>3. \A x : x \in main <=> MainFor(fd) /\ x = <<"main", "main">>
    BY DEF MainFor
  <2>4. \A x : x \in inserts <=> \E u \in Threads, i \in Nat :
                                    InsertFor(u, i, fd) /\ x = <<"INSERT", u, i>>
    BY <1>0 DEF InsertFor, InsertIn
  <2>5. \A x : x \in device <=> \E u \in Threads : Device(u, fd) /\ x = <<"device", u>>
    BY DEF Device
  <2>6. \A x : x \in orphan <=> file[fd] \in orphans /\ x = <<"orphan", file[fd]>>
    OBVIOUS
  <2> QED
    BY <2>1, <2>2, <2>3, <2>4, <2>5, <2>6
<1> HIDE DEF accepted, conns, main, inserts, device, orphan
<1>3. CASE file[fd] = NoConn
  <2>1. Holders(fd) = {}
    BY <1>1, <1>2, <1>3, NoHolder
  <2> QED
    BY <1>3, <2>1, FS_EmptySet
<1>4. CASE file[fd] # NoConn
  <2>1. PICK k \in Kinds, t \in Owners, i \in Nat : Held(k, t, i, fd)
    BY <1>4 DEF OnePerFd
  <2>2. /\ \A u \in Threads :
            /\ Accepted(u, fd) => k = "accepted" /\ u = t
            /\ Device(u, fd) => k = "device" /\ u = t
        /\ \A u \in Threads, j \in Nat :
            /\ ConnIn(u, j, fd) => k = "CLIENTCONN" /\ u = t /\ j = i
            /\ InsertFor(u, j, fd) => k = "INSERT" /\ u = t /\ j = i
        /\ MainFor(fd) => k = "main"
        /\ file[fd] \in orphans => k = "orphan"
    BY <2>1, OnlyHolder
  <2>3. \E x : Holders(fd) = {x}
    <3>1. CASE k = "accepted"
      <4>1. t \in Threads /\ Accepted(t, fd)
        BY <2>1, <3>1 DEF Held, Accepted
      <4>2. Holders(fd) = {<<"accepted", t>>}
        BY <1>1, <1>2, <2>2, <3>1, <4>1
      <4> QED
        BY <4>2
    <3>2. CASE k = "CLIENTCONN"
      <4>1. t \in Threads /\ ConnIn(t, i, fd)
        BY <2>1, <3>2 DEF Held
      <4>2. Holders(fd) = {<<"CLIENTCONN", t, i>>}
        BY <1>1, <1>2, <2>2, <3>2, <4>1
      <4> QED
        BY <4>2
    <3>3. CASE k = "main"
      <4>1. MainFor(fd)
        BY <2>1, <3>3 DEF Held, MainFor
      <4>2. Holders(fd) = {<<"main", "main">>}
        BY <1>1, <1>2, <2>2, <3>3, <4>1
      <4> QED
        BY <4>2
    <3>4. CASE k = "INSERT"
      <4>1. t \in Threads /\ InsertFor(t, i, fd)
        BY <2>1, <3>4 DEF Held, InsertFor
      <4>2. Holders(fd) = {<<"INSERT", t, i>>}
        BY <1>1, <1>2, <2>2, <3>4, <4>1
      <4> QED
        BY <4>2
    <3>5. CASE k = "device"
      <4>1. t \in Threads /\ Device(t, fd)
        BY <2>1, <3>5 DEF Held, Device
      <4>2. Holders(fd) = {<<"device", t>>}
        BY <1>1, <1>2, <2>2, <3>5, <4>1
      <4> QED
        BY <4>2
    <3>6. CASE k = "orphan"
      <4>1. file[fd] \in orphans
        BY <2>1, <3>6 DEF Held
      <4>2. Holders(fd) = {<<"orphan", file[fd]>>}
        BY <1>1, <1>2, <2>2, <3>6, <4>1
      <4> QED
        BY <4>2
    <3> QED
      BY <3>1, <3>2, <3>3, <3>4, <3>5, <3>6 DEF Kinds
  <2> QED
    BY <1>4, <2>3, FS_Singleton
<1> QED
  BY <1>3, <1>4

IInv == TypeOK /\ MapsAgree /\ RemovesDevice /\ HolderInv

(* No descriptor leaks on its way from accept() on one thread over main to *)
(* the device on another, none is closed twice, and no task or device      *)
(* outlives its descriptor (EpollHandler.cpp:181-274, 341-365).            *)
THEOREM HoldersCorrect == Spec => []OneHolder
<1>1. Init => IInv
  BY PressureInit, HolderInit DEF PressureInv, IInv
<1>2. IInv /\ [Next]_vars => IInv'
  BY NextTyped, MapsStep, HolderStep DEF IInv
<1>3. IInv => OneHolder
  BY HoldersCounted DEF IInv
<1> QED
  BY <1>1, <1>2, <1>3, PTL DEF Spec

(* A worker that finds a device for a session reads and writes the socket  *)
(* that session was made for, however descriptor numbers are reused        *)
(* (EpollHandler.cpp:251-255).                                             *)
THEOREM DevicesCorrect == Spec => []DeviceIsItsSocket
<1>1. Init => IInv
  BY PressureInit, HolderInit DEF PressureInv, IInv
<1>2. IInv /\ [Next]_vars => IInv'
  BY NextTyped, MapsStep, HolderStep DEF IInv
<1>3. ASSUME IInv PROVE DeviceIsItsSocket
  <2>1. \A t \in Threads, fd \in Fds : m_MapDeviceInfo[t][fd] # NoSession =>
            m_MapDeviceSessionInfo[t][m_MapDeviceInfo[t][fd]] = fd
    BY <1>3 DEF IInv, MapsAgree
  <2>2. \A t \in Threads, fd \in Fds :
            m_MapDeviceInfo[t][fd] # NoSession /\ ~ HasClosed(t, fd) => Held("device", t, 0, fd)
    BY DEF Held
  <2>3. \A t \in Threads, fd \in Fds : Held("device", t, 0, fd) =>
            connOf[m_MapDeviceInfo[t][fd]] = file[fd] /\ fd \in interest[t]
    BY <1>3 DEF IInv, HolderInv, SessionsMatch
  <2> QED
    BY <2>1, <2>2, <2>3 DEF DeviceIsItsSocket
<1> QED
  BY <1>1, <1>2, <1>3, PTL DEF Spec

-----------------------------------------------------------------------------
(* Sessions.  SessionHasDevice, DeviceHasSession, TaskFindsSession and     *)
(* OneNotification are not inductive: they say nothing of the order of the *)
(* tasks of a session, of main between its two steps of closeConn(), or of *)
(* two threads that had the same session.  SessionInv says that as well.   *)

(* What a thread has of a session. *)
Inserting(t, s) == Queued(m_queue_thread[t], "INSERT", s)
Deleting(t, s)  == Queued(m_queue_thread[t], "DELETE", s)
Sending(t, s)   == Queued(m_queue_thread[t], "SEND", s)
Ending(t, s)    == Queued(m_queue_main[t], "ONCLOSE", s)
Reading(t, s)   == Queued(m_queue_main[t], "PACKET", s)
HasDevice(t, s) == m_MapDeviceSessionInfo[t][s] # NoFd
Leaving(t, s)   == Removing(t, m_MapDeviceSessionInfo[t][s])

(* What main has of it: the thread it is entered for, the one it is about  *)
(* to be entered for, and closeConn() between its two steps.               *)
Scanning(s)   == mpc.at = "scan" /\ mpc.session = s
Known(t, s)   == \/ m_MapSessionConnInfo[s] = t
                 \/ mpc.at = "add" /\ mpc.session = s /\ mpc.thread = t
Dropping(s)   == mpc.at = "remove" /\ mpc.session = s

(* Orders that a queue must not have. *)
InsertAfterDelete(t, s) ==
    \E i, j \in DOMAIN m_queue_thread[t] :
        /\ i < j
        /\ i \in Positions(m_queue_thread[t], "DELETE", s)
        /\ j \in Positions(m_queue_thread[t], "INSERT", s)
TaskAfterEnd(t, s) ==
    \E i, j \in DOMAIN m_queue_main[t] :
        /\ i < j
        /\ i \in Positions(m_queue_main[t], "ONCLOSE", s)
        /\ m_queue_main[t][j].session_id = s

Linked(t, s) ==
    \/ Inserting(t, s) \/ Deleting(t, s) \/ Sending(t, s)
    \/ Ending(t, s) \/ Reading(t, s) \/ HasDevice(t, s) \/ Known(t, s)

(* A session stays with the thread it was given to, and has nothing        *)
(* anywhere before it is given to one.                                     *)
OneThread ==
    \A t \in Threads, s \in Sessions : Linked(t, s) =>
        /\ s < nextSession
        /\ ~ Scanning(s)
        /\ \A u \in Threads : Linked(u, s) => u = t

(* main enters a session only once. *)
NotYetEntered == \A s \in Sessions : Adding(s) => m_MapSessionConnInfo[s] = NoThread

KnownHasDevice ==
    \A t \in Threads, s \in Sessions : Known(t, s) =>
        Inserting(t, s) \/ HasDevice(t, s) \/ Ending(t, s) \/ Dropping(s) \/ connOf[s] \in orphans

LeavingTold ==
    \A t \in Threads, s \in Sessions :
        Known(t, s) /\ HasDevice(t, s) /\ Leaving(t, s) => Ending(t, s) \/ Dropping(s)

DeleteTold ==
    /\ \A t \in Threads, s \in Sessions : Deleting(t, s) =>
        /\ s \in serverClosed
        /\ Known(t, s) => Dropping(s)
        /\ ~ InsertAfterDelete(t, s)
    /\ \A s \in Sessions : Dropping(s) => s \in serverClosed

LiveKnown ==
    \A t \in Threads, s \in Sessions :
        Inserting(t, s) \/ (HasDevice(t, s) /\ ~ Leaving(t, s)) =>
            \/ m_MapSessionConnInfo[s] = t /\ ~ Dropping(s)
            \/ Adding(s)
            \/ Deleting(t, s)

EndIsLast ==
    \A t \in Threads, s \in Sessions : Ending(t, s) =>
        /\ ~ TaskAfterEnd(t, s)
        /\ ~ Inserting(t, s)
        /\ HasDevice(t, s) => Leaving(t, s)

TasksKnown ==
    \A t \in Threads, s \in Sessions : Ending(t, s) \/ Reading(t, s) =>
        m_MapSessionConnInfo[s] = t \/ Adding(s) \/ s \in serverClosed

SessionInv ==
    /\ OneThread /\ NotYetEntered
    /\ KnownHasDevice /\ LeavingTold /\ DeleteTold /\ LiveKnown
    /\ EndIsLast /\ TasksKnown

-----------------------------------------------------------------------------
(* What taking a task and pushing one do to what a thread has of a         *)
(* session.                                                                *)

LEMMA QueuedAt ==
    ASSUME NEW q, NEW y, NEW s
    PROVE  Queued(q, y, s) <=> \E i \in DOMAIN q : q[i].type = y /\ q[i].session_id = s
BY DEF Queued, Positions

(* t has taken a task of type y for session z from main. *)
ThreadTaken(t, y, z) ==
    \A u \in Threads, s \in Sessions :
        /\ Inserting(u, s)' => Inserting(u, s)
        /\ Deleting(u, s)' => Deleting(u, s)
        /\ Sending(u, s)' => Sending(u, s)
        /\ Inserting(u, s) => Inserting(u, s)' \/ (u = t /\ s = z /\ y = "INSERT")
        /\ Deleting(u, s) => Deleting(u, s)' \/ (u = t /\ s = z /\ y = "DELETE")
        /\ InsertAfterDelete(u, s)' => InsertAfterDelete(u, s)

(* main has pushed a task of type y for session z to t. *)
ThreadPushed(t, y, z) ==
    \A u \in Threads, s \in Sessions :
        /\ Inserting(u, s)' <=> Inserting(u, s) \/ (u = t /\ s = z /\ y = "INSERT")
        /\ Deleting(u, s)' <=> Deleting(u, s) \/ (u = t /\ s = z /\ y = "DELETE")
        /\ Sending(u, s)' <=> Sending(u, s) \/ (u = t /\ s = z /\ y = "SEND")
        /\ InsertAfterDelete(u, s)' =>
                \/ InsertAfterDelete(u, s)
                \/ u = t /\ s = z /\ y = "INSERT" /\ Deleting(t, z)

(* main has taken a task of type y for session z from t. *)
MainTaken(t, y, z) ==
    \A u \in Threads, s \in Sessions :
        /\ Ending(u, s)' => Ending(u, s)
        /\ Reading(u, s)' => Reading(u, s)
        /\ Ending(u, s) => Ending(u, s)' \/ (u = t /\ s = z /\ y = "ONCLOSE")
        /\ TaskAfterEnd(u, s)' => TaskAfterEnd(u, s)

(* t has pushed a task of type y for session z to main. *)
MainPushed(t, y, z) ==
    \A u \in Threads, s \in Sessions :
        /\ Ending(u, s)' <=> Ending(u, s) \/ (u = t /\ s = z /\ y = "ONCLOSE")
        /\ Reading(u, s)' <=> Reading(u, s) \/ (u = t /\ s = z /\ y = "PACKET")
        /\ TaskAfterEnd(u, s)' =>
                \/ TaskAfterEnd(u, s)
                \/ u = t /\ s = z /\ Ending(t, z)

LEMMA TakenByThread ==
    ASSUME QueueTypeOK, NEW t \in Threads, NEW y, TaskAtWorker(t, y), TakeTask(t),
           NEW z, z = Head(m_queue_thread[t]).session_id
    PROVE  /\ ThreadTaken(t, y, z)
           /\ Queued(m_queue_thread[t], y, z)
           /\ y = "DELETE" /\ ~ InsertAfterDelete(t, z) => ~ Inserting(t, z)'
<1>1. /\ 1 \in DOMAIN m_queue_thread[t]
      /\ m_queue_thread[t][1].type = y /\ m_queue_thread[t][1].session_id = z
      /\ \A u \in Threads, i \in Nat :
           /\ i \in DOMAIN m_queue_thread'[u] <=>
                   IF u = t THEN i # 0 /\ i + 1 \in DOMAIN m_queue_thread[t]
                   ELSE i \in DOMAIN m_queue_thread[u]
           /\ i \in DOMAIN m_queue_thread'[u] => m_queue_thread'[u][i] =
                   m_queue_thread[u][IF u = t THEN i + 1 ELSE i]
  BY TakenFromThread
<1>2. \A u \in Threads : DOMAIN m_queue_thread[u] \subseteq Nat \ {0}
  BY DEF QueueTypeOK
<1>3. \A u \in Threads : DOMAIN m_queue_thread'[u] \subseteq Nat
  BY TakeTaskTyped
<1>4. Queued(m_queue_thread[t], y, z)
  BY <1>1, QueuedAt
<1>5. ASSUME NEW u \in Threads, NEW s, NEW x, Queued(m_queue_thread'[u], x, s)
      PROVE  Queued(m_queue_thread[u], x, s)
  <2>1. PICK i \in DOMAIN m_queue_thread'[u] :
            m_queue_thread'[u][i].type = x /\ m_queue_thread'[u][i].session_id = s
    BY <1>5, QueuedAt
  <2>2. PICK j \in DOMAIN m_queue_thread[u] : m_queue_thread'[u][i] = m_queue_thread[u][j]
    BY <1>1, <1>3, <2>1
  <2> QED
    BY <2>1, <2>2, QueuedAt
<1>6. ASSUME NEW u \in Threads, NEW s, NEW x, Queued(m_queue_thread[u], x, s),
             ~ Queued(m_queue_thread'[u], x, s)
      PROVE  u = t /\ s = z /\ x = y
  <2>1. PICK i \in DOMAIN m_queue_thread[u] :
            m_queue_thread[u][i].type = x /\ m_queue_thread[u][i].session_id = s
    BY <1>6, QueuedAt
  <2>2. i \in Nat /\ i # 0
    BY <1>2
  <2>3. CASE u # t
    <3>1. i \in DOMAIN m_queue_thread'[u] /\ m_queue_thread'[u][i] = m_queue_thread[u][i]
      BY <1>1, <2>2, <2>3
    <3> QED
      BY <1>6, <2>1, <3>1, QueuedAt
  <2>4. CASE u = t /\ i # 1
    <3>1. PICK j \in Nat : i = j + 1 /\ j # 0
      <4>1. i - 1 \in Nat /\ i = (i - 1) + 1 /\ i - 1 # 0
        BY <2>2, <2>4
      <4> QED
        BY <4>1
    <3>2. j \in DOMAIN m_queue_thread'[u] /\ m_queue_thread'[u][j] = m_queue_thread[u][i]
      BY <1>1, <2>4, <3>1
    <3> QED
      BY <1>6, <2>1, <3>2, QueuedAt
  <2> QED
    BY <1>1, <2>1, <2>3, <2>4
<1>7. ASSUME NEW u \in Threads, NEW s, InsertAfterDelete(u, s)'
      PROVE  InsertAfterDelete(u, s)
  <2>1. PICK i, j \in DOMAIN m_queue_thread'[u] :
            /\ i < j
            /\ m_queue_thread'[u][i].type = "DELETE" /\ m_queue_thread'[u][i].session_id = s
            /\ m_queue_thread'[u][j].type = "INSERT" /\ m_queue_thread'[u][j].session_id = s
    BY <1>7 DEF InsertAfterDelete, Positions
  <2>2. i \in Nat /\ j \in Nat
    BY <1>3
  <2>3. PICK d \in {0, 1} :
            /\ i + d \in DOMAIN m_queue_thread[u] /\ j + d \in DOMAIN m_queue_thread[u]
            /\ m_queue_thread'[u][i] = m_queue_thread[u][i + d]
            /\ m_queue_thread'[u][j] = m_queue_thread[u][j + d]
    <3>1. CASE u = t
      BY <1>1, <2>2, <3>1
    <3>2. CASE u # t
      BY <1>1, <2>2, <3>2
    <3> QED
      BY <3>1, <3>2
  <2>4. i + d < j + d
    BY <2>1, <2>2
  <2> QED
    BY <2>1, <2>3, <2>4 DEF InsertAfterDelete, Positions
<1>8. ASSUME y = "DELETE", Inserting(t, z)' PROVE InsertAfterDelete(t, z)
  <2>1. PICK j \in DOMAIN m_queue_thread'[t] :
            m_queue_thread'[t][j].type = "INSERT" /\ m_queue_thread'[t][j].session_id = z
    BY <1>8, QueuedAt DEF Inserting
  <2>2. /\ j \in Nat /\ j # 0
        /\ j + 1 \in DOMAIN m_queue_thread[t]
        /\ m_queue_thread'[t][j] = m_queue_thread[t][j + 1]
    BY <1>1, <1>3
  <2>3. 1 < j + 1
    BY <2>2
  <2> QED
    BY <1>1, <1>8, <2>1, <2>2, <2>3 DEF InsertAfterDelete, Positions
<1>9. ThreadTaken(t, y, z)
  BY <1>5, <1>6, <1>7 DEF ThreadTaken, Inserting, Deleting, Sending
<1> QED
  BY <1>4, <1>8, <1>9

LEMMA PushedByMain ==
    ASSUME QueueTypeOK, NEW t \in Threads, NEW k \in ToThreadTasks, push_task(t, k)
    PROVE  ThreadPushed(t, k.type, k.session_id)
<1> DEFINE n == Len(m_queue_thread[t]) + 1
<1>1. /\ n \in Nat /\ n \notin DOMAIN m_queue_thread[t]
      /\ m_queue_thread'[t][n] = k
      /\ \A u \in Threads, i \in Nat :
           /\ i \in DOMAIN m_queue_thread'[u] <=>
                   i \in DOMAIN m_queue_thread[u] \/ (u = t /\ i = n)
           /\ i \in DOMAIN m_queue_thread[u] =>
                   m_queue_thread'[u][i] = m_queue_thread[u][i]
  BY PushedToThread
<1>2. DOMAIN m_queue_thread[t] = 1 .. n - 1
  BY DEF QueueTypeOK
<1> HIDE DEF n
<1>3. \A u \in Threads : DOMAIN m_queue_thread[u] \subseteq Nat
  BY DEF QueueTypeOK
<1>4. \A u \in Threads : DOMAIN m_queue_thread'[u] \subseteq Nat
  BY PushThreadTyped
<1>5. ASSUME NEW u \in Threads, NEW s, NEW x
      PROVE  Queued(m_queue_thread'[u], x, s) <=>
                Queued(m_queue_thread[u], x, s) \/ (u = t /\ s = k.session_id /\ x = k.type)
  <2>1. ASSUME Queued(m_queue_thread'[u], x, s)
        PROVE  Queued(m_queue_thread[u], x, s) \/ (u = t /\ s = k.session_id /\ x = k.type)
    <3>1. PICK i \in DOMAIN m_queue_thread'[u] :
              m_queue_thread'[u][i].type = x /\ m_queue_thread'[u][i].session_id = s
      BY <2>1, QueuedAt
    <3>2. i \in Nat
      BY <1>4
    <3>3. CASE i \in DOMAIN m_queue_thread[u]
      BY <1>1, <3>1, <3>2, <3>3, QueuedAt
    <3>4. CASE u = t /\ i = n
      BY <1>1, <3>1, <3>4
    <3> QED
      BY <1>1, <3>2, <3>3, <3>4
  <2>2. ASSUME Queued(m_queue_thread[u], x, s) PROVE Queued(m_queue_thread'[u], x, s)
    <3>1. PICK i \in DOMAIN m_queue_thread[u] :
              m_queue_thread[u][i].type = x /\ m_queue_thread[u][i].session_id = s
      BY <2>2, QueuedAt
    <3>2. i \in DOMAIN m_queue_thread'[u] /\ m_queue_thread'[u][i] = m_queue_thread[u][i]
      BY <1>1, <1>3
    <3> QED
      BY <3>1, <3>2, QueuedAt
  <2>3. Queued(m_queue_thread'[t], k.type, k.session_id)
    BY <1>1, QueuedAt
  <2> QED
    BY <2>1, <2>2, <2>3
<1>6. ASSUME NEW u \in Threads, NEW s, InsertAfterDelete(u, s)'
      PROVE  \/ InsertAfterDelete(u, s)
             \/ u = t /\ s = k.session_id /\ k.type = "INSERT" /\ Deleting(t, s)
  <2>1. PICK i, j \in DOMAIN m_queue_thread'[u] :
            /\ i < j
            /\ m_queue_thread'[u][i].type = "DELETE" /\ m_queue_thread'[u][i].session_id = s
            /\ m_queue_thread'[u][j].type = "INSERT" /\ m_queue_thread'[u][j].session_id = s
    BY <1>6 DEF InsertAfterDelete, Positions
  <2>2. i \in Nat /\ j \in Nat
    BY <1>4
  <2>3. i \in DOMAIN m_queue_thread[u] /\ m_queue_thread'[u][i] = m_queue_thread[u][i]
    BY <1>1, <1>2, <2>1, <2>2
  <2>4. CASE j \in DOMAIN m_queue_thread[u]
    <3>1. m_queue_thread'[u][j] = m_queue_thread[u][j]
      BY <1>1, <2>2, <2>4
    <3> QED
      BY <2>1, <2>3, <2>4, <3>1 DEF InsertAfterDelete, Positions
  <2>5. CASE u = t /\ j = n
    BY <1>1, <2>1, <2>3, <2>5, QueuedAt DEF Deleting
  <2> QED
    BY <1>1, <2>2, <2>4, <2>5
<1> QED
  BY <1>5, <1>6 DEF ThreadPushed, Inserting, Deleting, Sending

LEMMA TakenByMain ==
    ASSUME QueueTypeOK, NEW t \in Threads, NEW y, TaskAtMain(t, y), TakeMainTask(t),
           NEW z, z = Head(m_queue_main[t]).session_id
    PROVE  /\ MainTaken(t, y, z)
           /\ Queued(m_queue_main[t], y, z)
           /\ y = "ONCLOSE" /\ ~ TaskAfterEnd(t, z) => ~ Ending(t, z)' /\ ~ Reading(t, z)'
<1>1. /\ 1 \in DOMAIN m_queue_main[t]
      /\ m_queue_main[t][1].type = y /\ m_queue_main[t][1].session_id = z
      /\ \A u \in Threads, i \in Nat :
           /\ i \in DOMAIN m_queue_main'[u] <=>
                   IF u = t THEN i # 0 /\ i + 1 \in DOMAIN m_queue_main[t]
                   ELSE i \in DOMAIN m_queue_main[u]
           /\ i \in DOMAIN m_queue_main'[u] => m_queue_main'[u][i] =
                   m_queue_main[u][IF u = t THEN i + 1 ELSE i]
  BY TakenFromMain
<1>2. \A u \in Threads : DOMAIN m_queue_main[u] \subseteq Nat \ {0}
  BY DEF QueueTypeOK
<1>3. \A u \in Threads : DOMAIN m_queue_main'[u] \subseteq Nat
  BY TakeMainTaskTyped
<1>4. Queued(m_queue_main[t], y, z)
  BY <1>1, QueuedAt
<1>5. ASSUME NEW u \in Threads, NEW s, NEW x, Queued(m_queue_main'[u], x, s)
      PROVE  Queued(m_queue_main[u], x, s)
  <2>1. PICK i \in DOMAIN m_queue_main'[u] :
            m_queue_main'[u][i].type = x /\ m_queue_main'[u][i].session_id = s
    BY <1>5, QueuedAt
  <2>2. PICK j \in DOMAIN m_queue_main[u] : m_queue_main'[u][i] = m_queue_main[u][j]
    BY <1>1, <1>3, <2>1
  <2> QED
    BY <2>1, <2>2, QueuedAt
<1>6. ASSUME NEW u \in Threads, NEW s, NEW x, Queued(m_queue_main[u], x, s),
             ~ Queued(m_queue_main'[u], x, s)
      PROVE  u = t /\ s = z /\ x = y
  <2>1. PICK i \in DOMAIN m_queue_main[u] :
            m_queue_main[u][i].type = x /\ m_queue_main[u][i].session_id = s
    BY <1>6, QueuedAt
  <2>2. i \in Nat /\ i # 0
    BY <1>2
  <2>3. CASE u # t
    <3>1. i \in DOMAIN m_queue_main'[u] /\ m_queue_main'[u][i] = m_queue_main[u][i]
      BY <1>1, <2>2, <2>3
    <3> QED
      BY <1>6, <2>1, <3>1, QueuedAt
  <2>4. CASE u = t /\ i # 1
    <3>1. PICK j \in Nat : i = j + 1 /\ j # 0
      <4>1. i - 1 \in Nat /\ i = (i - 1) + 1 /\ i - 1 # 0
        BY <2>2, <2>4
      <4> QED
        BY <4>1
    <3>2. j \in DOMAIN m_queue_main'[u] /\ m_queue_main'[u][j] = m_queue_main[u][i]
      BY <1>1, <2>4, <3>1
    <3> QED
      BY <1>6, <2>1, <3>2, QueuedAt
  <2> QED
    BY <1>1, <2>1, <2>3, <2>4
<1>7. ASSUME NEW u \in Threads, NEW s, TaskAfterEnd(u, s)'
      PROVE  TaskAfterEnd(u, s)
  <2>1. PICK i, j \in DOMAIN m_queue_main'[u] :
            /\ i < j
            /\ m_queue_main'[u][i].type = "ONCLOSE" /\ m_queue_main'[u][i].session_id = s
            /\ m_queue_main'[u][j].session_id = s
    BY <1>7 DEF TaskAfterEnd, Positions
  <2>2. i \in Nat /\ j \in Nat
    BY <1>3
  <2>3. PICK d \in {0, 1} :
            /\ i + d \in DOMAIN m_queue_main[u] /\ j + d \in DOMAIN m_queue_main[u]
            /\ m_queue_main'[u][i] = m_queue_main[u][i + d]
            /\ m_queue_main'[u][j] = m_queue_main[u][j + d]
    <3>1. CASE u = t
      BY <1>1, <2>2, <3>1
    <3>2. CASE u # t
      BY <1>1, <2>2, <3>2
    <3> QED
      BY <3>1, <3>2
  <2>4. i + d < j + d
    BY <2>1, <2>2
  <2> QED
    BY <2>1, <2>3, <2>4 DEF TaskAfterEnd, Positions
<1>8. ASSUME y = "ONCLOSE", NEW x, Queued(m_queue_main'[t], x, z) PROVE TaskAfterEnd(t, z)
  <2>1. PICK j \in DOMAIN m_queue_main'[t] : m_queue_main'[t][j].session_id = z
    BY <1>8, QueuedAt
  <2>2. /\ j \in Nat /\ j # 0
        /\ j + 1 \in DOMAIN m_queue_main[t]
        /\ m_queue_main'[t][j] = m_queue_main[t][j + 1]
    BY <1>1, <1>3
  <2>3. 1 < j + 1
    BY <2>2
  <2> QED
    BY <1>1, <1>8, <2>1, <2>2, <2>3 DEF TaskAfterEnd, Positions
<1>9. MainTaken(t, y, z)
  BY <1>5, <1>6, <1>7 DEF MainTaken, Ending, Reading
<1> QED
  BY <1>4, <1>8, <1>9 DEF Ending, Reading

LEMMA PushedByThread ==
    ASSUME QueueTypeOK, NEW t \in Threads, NEW k \in ToMainTasks, push_task_main(t, k)
    PROVE  MainPushed(t, k.type, k.session_id)
<1> DEFINE n == Len(m_queue_main[t]) + 1
<1>1. /\ n \in Nat /\ n \notin DOMAIN m_queue_main[t]
      /\ m_queue_main'[t][n] = k
      /\ \A u \in Threads, i \in Nat :
           /\ i \in DOMAIN m_queue_main'[u] <=>
                   i \in DOMAIN m_queue_main[u] \/ (u = t /\ i = n)
           /\ i \in DOMAIN m_queue_main[u] =>
                   m_queue_main'[u][i] = m_queue_main[u][i]
  BY PushedToMain
<1>2. DOMAIN m_queue_main[t] = 1 .. n - 1
  BY DEF QueueTypeOK
<1> HIDE DEF n
<1>3. \A u \in Threads : DOMAIN m_queue_main[u] \subseteq Nat
  BY DEF QueueTypeOK
<1>4. \A u \in Threads : DOMAIN m_queue_main'[u] \subseteq Nat
  BY PushMainTyped
<1>5. ASSUME NEW u \in Threads, NEW s, NEW x
      PROVE  Queued(m_queue_main'[u], x, s) <=>
                Queued(m_queue_main[u], x, s) \/ (u = t /\ s = k.session_id /\ x = k.type)
  <2>1. ASSUME Queued(m_queue_main'[u], x, s)
        PROVE  Queued(m_queue_main[u], x, s) \/ (u = t /\ s = k.session_id /\ x = k.type)
    <3>1. PICK i \in DOMAIN m_queue_main'[u] :
              m_queue_main'[u][i].type = x /\ m_queue_main'[u][i].session_id = s
      BY <2>1, QueuedAt
    <3>2. i \in Nat
      BY <1>4
    <3>3. CASE i \in DOMAIN m_queue_main[u]
      BY <1>1, <3>1, <3>2, <3>3, QueuedAt
    <3>4. CASE u = t /\ i = n
      BY <1>1, <3>1, <3>4
    <3> QED
      BY <1>1, <3>2, <3>3, <3>4
  <2>2. ASSUME Queued(m_queue_main[u], x, s) PROVE Queued(m_queue_main'[u], x, s)
    <3>1. PICK i \in DOMAIN m_queue_main[u] :
              m_queue_main[u][i].type = x /\ m_queue_main[u][i].session_id = s
      BY <2>2, QueuedAt
    <3>2. i \in DOMAIN m_queue_main'[u] /\ m_queue_main'[u][i] = m_queue_main[u][i]
      BY <1>1, <1>3
    <3> QED
      BY <3>1, <3>2, QueuedAt
  <2>3. Queued(m_queue_main'[t], k.type, k.session_id)
    BY <1>1, QueuedAt
  <2> QED
    BY <2>1, <2>2, <2>3
<1>6. ASSUME NEW u \in Threads, NEW s, TaskAfterEnd(u, s)'
      PROVE  TaskAfterEnd(u, s) \/ (u = t /\ s = k.session_id /\ Ending(t, s))
  <2>1. PICK i, j \in DOMAIN m_queue_main'[u] :
            /\ i < j
            /\ m_queue_main'[u][i].type = "ONCLOSE" /\ m_queue_main'[u][i].session_id = s
            /\ m_queue_main'[u][j].session_id = s
    BY <1>6 DEF TaskAfterEnd, Positions
  <2>2. i \in Nat /\ j \in Nat
    BY <1>4
  <2>3. i \in DOMAIN m_queue_main[u] /\ m_queue_main'[u][i] = m_queue_main[u][i]
    BY <1>1, <1>2, <2>1, <2>2
  <2>4. CASE j \in DOMAIN m_queue_main[u]
    <3>1. m_queue_main'[u][j] = m_queue_main[u][j]
      BY <1>1, <2>2, <2>4
    <3> QED
      BY <2>1, <2>3, <2>4, <3>1 DEF TaskAfterEnd, Positions
  <2>5. CASE u = t /\ j = n
    BY <1>1, <2>1, <2>3, <2>5, QueuedAt DEF Ending
  <2> QED
    BY <1>1, <2>2, <2>4, <2>5
<1> QED
  BY <1>5, <1>6 DEF MainPushed, Ending, Reading

-----------------------------------------------------------------------------
(* Steps that change nothing of what SessionInv speaks of, but for SEND    *)
(* and PACKET tasks.                                                       *)

DevicesSame ==
    \A t \in Threads, s \in Sessions :
        /\ HasDevice(t, s)' <=> HasDevice(t, s)
        /\ HasDevice(t, s) => (Leaving(t, s)' <=> Leaving(t, s))

MainSame ==
    /\ nextSession' = nextSession
    /\ \A s \in Sessions :
        /\ m_MapSessionConnInfo'[s] = m_MapSessionConnInfo[s]
        /\ Adding(s)' <=> Adding(s)
        /\ Scanning(s)' <=> Scanning(s)
        /\ Dropping(s)' <=> Dropping(s)
        /\ \A t \in Threads : Known(t, s)' <=> Known(t, s)

HistorySame == UNCHANGED <<connOf, serverClosed, orphans>>

QuietAtThread ==
    \A t \in Threads, s \in Sessions :
        /\ Inserting(t, s)' <=> Inserting(t, s)
        /\ Deleting(t, s)' <=> Deleting(t, s)
        /\ Sending(t, s)' => Sending(t, s) \/ Known(t, s)
        /\ InsertAfterDelete(t, s)' => InsertAfterDelete(t, s)

QuietAtMain ==
    \A t \in Threads, s \in Sessions :
        /\ Ending(t, s)' <=> Ending(t, s)
        /\ Reading(t, s)' => Reading(t, s) \/ (HasDevice(t, s) /\ ~ Leaving(t, s))
        /\ TaskAfterEnd(t, s)' => TaskAfterEnd(t, s)

Calm == DevicesSame /\ MainSame /\ HistorySame /\ QuietAtThread /\ QuietAtMain

LEMMA CalmStep ==
    ASSUME SessionInv, Calm
    PROVE  SessionInv'
<1> USE DEF Calm
<1>1. OneThread'
  <2>1. ASSUME NEW t \in Threads, NEW s \in Sessions, Linked(t, s)'
        PROVE  Linked(t, s)
    BY <2>1 DEF Linked, QuietAtThread, QuietAtMain, DevicesSame, MainSame
  <2> QED
    BY <2>1 DEF SessionInv, OneThread, MainSame
<1>2. NotYetEntered'
  BY DEF SessionInv, NotYetEntered, MainSame
<1>3. KnownHasDevice'
  BY DEF SessionInv, KnownHasDevice, DevicesSame, MainSame, HistorySame,
         QuietAtThread, QuietAtMain
<1>4. LeavingTold'
  BY DEF SessionInv, LeavingTold, DevicesSame, MainSame, QuietAtMain
<1>5. DeleteTold'
  BY DEF SessionInv, DeleteTold, MainSame, HistorySame, QuietAtThread
<1>6. LiveKnown'
  BY DEF SessionInv, LiveKnown, DevicesSame, MainSame, QuietAtThread
<1>7. EndIsLast'
  BY DEF SessionInv, EndIsLast, DevicesSame, QuietAtThread, QuietAtMain
<1>8. TasksKnown'
  <2> SUFFICES ASSUME NEW t \in Threads, NEW s \in Sessions, Ending(t, s)' \/ Reading(t, s)'
               PROVE  m_MapSessionConnInfo'[s] = t \/ Adding(s)' \/ s \in serverClosed'
    BY DEF TasksKnown
  <2>1. CASE Ending(t, s) \/ Reading(t, s)
    BY <2>1 DEF SessionInv, TasksKnown, MainSame, HistorySame
  <2>2. CASE HasDevice(t, s) /\ ~ Leaving(t, s)
    BY <2>2 DEF SessionInv, LiveKnown, DeleteTold, MainSame, HistorySame
  <2> QED
    BY <2>1, <2>2 DEF QuietAtMain
<1> QED
  BY <1>1, <1>2, <1>3, <1>4, <1>5, <1>6, <1>7, <1>8 DEF SessionInv

(* What unchanged variables give. *)
LEMMA SameQueues ==
    /\ UNCHANGED m_queue_thread => QuietAtThread
    /\ UNCHANGED m_queue_main => QuietAtMain
BY DEF QuietAtThread, QuietAtMain, Inserting, Deleting, Sending, Ending, Reading,
       InsertAfterDelete, TaskAfterEnd

LEMMA SameDevices ==
    ASSUME TypeOK, UNCHANGED m_MapDeviceSessionInfo,
           \A t \in Threads, fd \in Fds : Removing(t, fd)' <=> Removing(t, fd)
    PROVE  DevicesSame
<1>1. \A t \in Threads, s \in Sessions : HasDevice(t, s) => m_MapDeviceSessionInfo[t][s] \in Fds
  BY DEF HasDevice, TypeOK, WorkerTypeOK
<1> QED
  BY <1>1 DEF DevicesSame, HasDevice, Leaving

LEMMA SameMain ==
    ASSUME UNCHANGED <<m_MapSessionConnInfo, nextSession>>,
           mpc'.at = mpc.at, mpc'.session = mpc.session,
           mpc.at = "add" => mpc'.thread = mpc.thread
    PROVE  MainSame
BY DEF MainSame, Adding, Scanning, Dropping, Known

(* Events and tasks are about a device that is not being removed: its      *)
(* thread is idle or reads.                                                *)
LEMMA IdleIsLive ==
    ASSUME NEW t \in Threads, wpc[t].at \in {"idle", "read"}, NEW s
    PROVE  ~ Leaving(t, s)
BY DEF Leaving, Removing

LEMMA ThreadCalm ==
    ASSUME NEW t \in Threads, NEW y, NEW z, ThreadTaken(t, y, z),
           y \notin {"INSERT", "DELETE"}
    PROVE  QuietAtThread
BY DEF ThreadTaken, QuietAtThread

LEMMA MainCalm ==
    ASSUME NEW t \in Threads, NEW y, NEW z, MainTaken(t, y, z), y # "ONCLOSE"
    PROVE  QuietAtMain
BY DEF MainTaken, QuietAtMain

LEMMA CalmWorker ==
    ASSUME TypeOK, MapsAgree, RemovesDevice, SessionInv, NEW t \in Threads,
           \/ AddListener(t) \/ WritePacket(t) \/ ReadFrame(t) \/ ReadStops(t)
           \/ \E fd \in Fds : ClientEvent(t, fd) \/ FlushSendBuffer(t, fd)
           \/ CloseDevice(t) \/ AcceptEvent(t) \/ Accept(t) \/ PushConn(t) \/ AcceptStops(t)
    PROVE  SessionInv'
<1> USE DEF TypeOK
<1>1. CASE AddListener(t)
  <2>1. QuietAtThread
    BY <1>1, TakenByThread, ThreadCalm DEF AddListener
  <2>2. DevicesSame
    BY <1>1, SameDevices DEF AddListener, Removing
  <2>3. QuietAtMain /\ MainSame /\ HistorySame
    BY <1>1, SameQueues, SameMain DEF AddListener, mainVars, ghostVars, HistorySame
  <2> QED
    BY <2>1, <2>2, <2>3, CalmStep DEF Calm
<1>2. CASE WritePacket(t)
  <2>1. QuietAtThread
    BY <1>2, TakenByThread, ThreadCalm DEF WritePacket
  <2>2. DevicesSame
    BY <1>2, SameDevices DEF WritePacket, Removing, deviceVars
  <2>3. QuietAtMain /\ MainSame /\ HistorySame
    BY <1>2, SameQueues, SameMain DEF WritePacket, mainVars, ghostVars, HistorySame
  <2> QED
    BY <2>1, <2>2, <2>3, CalmStep DEF Calm
<1>3. CASE ReadFrame(t)
  <2> DEFINE z == m_MapDeviceInfo[t][wpc[t].fd]
  <2>a. /\ wpc[t].at = "read" /\ wpc[t].fd \in Fds /\ z \in Sessions
        /\ push_task_main(t, TaskPacket(z))
        /\ UNCHANGED <<workerVars, m_queue_thread, mainVars, ghostVars>>
    BY <1>3, FrameRead
  <2>1. HasDevice(t, z) /\ ~ Leaving(t, z)
    <3>1. m_MapDeviceSessionInfo[t][z] = wpc[t].fd
      BY <2>a DEF MapsAgree, Sessions, NoSession
    <3> QED
      BY <2>a, <3>1, IdleIsLive, ConstantAssumption DEF HasDevice
  <2> HIDE DEF z
  <2>2. QuietAtMain
    <3>1. MainPushed(t, "PACKET", z)
      <4>1. TaskPacket(z).type = "PACKET" /\ TaskPacket(z).session_id = z
        BY DEF TaskPacket, Task
      <4> QED
        BY <2>a, <4>1, TaskShapes, PushedByThread
    <3>2. ~ Ending(t, z)
      BY <2>a, <2>1 DEF SessionInv, EndIsLast
    <3> QED
      BY <2>1, <3>1, <3>2 DEF MainPushed, QuietAtMain
  <2>3. DevicesSame
    BY <2>a, SameDevices DEF Removing, workerVars, deviceVars
  <2>4. QuietAtThread /\ MainSame /\ HistorySame
    BY <2>a, SameQueues, SameMain DEF mainVars, ghostVars, HistorySame
  <2> QED
    BY <2>2, <2>3, <2>4, CalmStep DEF Calm
<1>4. CASE ReadStops(t) \/ \E fd \in Fds : ClientEvent(t, fd) \/ FlushSendBuffer(t, fd)
  <2>1. DeviceLeft /\ UNCHANGED queueVars /\ wpc[t].at \in {"idle", "read"}
    BY <1>4, EventReported
  <2>2. /\ wpc'[t].at \in {"idle", "read"}
        /\ \A u \in Threads : u # t => wpc'[u] = wpc[u]
    <3>1. \/ wpc' = [wpc EXCEPT ![t] = WorkerIdle]
          \/ \E fd \in Fds : wpc' = [wpc EXCEPT ![t] = [at |-> "read", fd |-> fd]]
      BY <1>4, EventReported
    <3> QED
      BY <3>1 DEF WorkerTypeOK, WorkerIdle
  <2>3. DevicesSame
    BY <2>1, <2>2, SameDevices DEF Removing, DeviceLeft, deviceVars
  <2>4. QuietAtThread /\ QuietAtMain /\ MainSame /\ HistorySame
    BY <2>1, SameQueues, SameMain DEF DeviceLeft, queueVars, mainVars, ghostVars, HistorySame
  <2> QED
    BY <2>3, <2>4, CalmStep DEF Calm
<1>5. CASE CloseDevice(t)
  <2>1. DevicesSame
    <3>1. \A u \in Threads : wpc'[u] = IF u = t THEN [wpc[t] EXCEPT !.at = "erase"] ELSE wpc[u]
      BY <1>5 DEF CloseDevice, WorkerTypeOK
    <3>2. wpc[t].at = "remove" /\ wpc'[t].at = "erase" /\ wpc'[t].fd = wpc[t].fd
      <4>1. wpc[t] \in [at: {"push", "read", "remove", "erase", "unregister"}, fd: Fds]
        BY <1>5 DEF CloseDevice, WorkerTypeOK
      <4> QED
        BY <1>5, <3>1, <4>1 DEF CloseDevice
    <3>3. \A u \in Threads, fd \in Fds : Removing(u, fd)' <=> Removing(u, fd)
      BY <3>1, <3>2 DEF Removing
    <3> QED
      BY <1>5, <3>3, SameDevices DEF CloseDevice, deviceVars
  <2>2. QuietAtThread /\ QuietAtMain /\ MainSame /\ HistorySame
    BY <1>5, SameQueues, SameMain DEF CloseDevice, queueVars, mainVars, ghostVars, HistorySame
  <2> QED
    BY <2>1, <2>2, CalmStep DEF Calm
<1>6. CASE AcceptEvent(t) \/ Accept(t) \/ PushConn(t) \/ AcceptStops(t)
  <2>1. DevicesSame
    <3>1. /\ wpc[t].at \in {"idle", "accept", "push"} /\ wpc'[t].at \in {"idle", "accept", "push"}
          /\ \A u \in Threads : u # t => wpc'[u] = wpc[u]
      <4>1. CASE AcceptEvent(t)
        <5>1. wpc'[t] = [wpc[t] EXCEPT !.at = "accept"]
          BY <4>1 DEF AcceptEvent, WorkerTypeOK
        <5>2. wpc[t] \in [at: {"idle", "accept"}, fd: {NoFd}]
          BY <4>1 DEF AcceptEvent, WorkerTypeOK
        <5> QED
          BY <4>1, <5>1, <5>2 DEF AcceptEvent, WorkerTypeOK
      <4>2. CASE Accept(t)
        BY <4>2 DEF Accept, WorkerTypeOK
      <4>3. CASE PushConn(t)
        BY <4>3 DEF PushConn, WorkerTypeOK
      <4>4. CASE AcceptStops(t)
        BY <4>4 DEF AcceptStops, WorkerTypeOK, WorkerIdle
      <4> QED
        BY <1>6, <4>1, <4>2, <4>3, <4>4
    <3>2. \A u \in Threads, fd \in Fds : Removing(u, fd)' <=> Removing(u, fd)
      BY <3>1 DEF Removing
    <3>3. UNCHANGED m_MapDeviceSessionInfo
      BY <1>6 DEF AcceptEvent, Accept, PushConn, AcceptStops, deviceVars
    <3> QED
      BY <3>2, <3>3, SameDevices
  <2>2. QuietAtThread /\ MainSame /\ HistorySame
    BY <1>6, SameQueues, SameMain
       DEF AcceptEvent, Accept, PushConn, AcceptStops, queueVars, mainVars, ghostVars, HistorySame
  <2>3. QuietAtMain
    <3>1. CASE PushConn(t)
      <4>1. wpc[t].fd \in Fds /\ TaskConn(wpc[t].fd).type = "CLIENTCONN"
        BY <3>1 DEF PushConn, WorkerTypeOK, TaskConn, Task
      <4>2. TaskConn(wpc[t].fd).session_id \notin Sessions
        BY DEF TaskConn, Task, NoSession, Sessions
      <4>3. MainPushed(t, "CLIENTCONN", TaskConn(wpc[t].fd).session_id)
        BY <3>1, <4>1, TaskShapes, PushedByThread DEF PushConn
      <4> QED
        BY <4>2, <4>3 DEF MainPushed, QuietAtMain
    <3>2. CASE ~ PushConn(t)
      BY <1>6, <3>2, SameQueues DEF AcceptEvent, Accept, AcceptStops, queueVars
    <3> QED
      BY <3>1, <3>2
  <2> QED
    BY <2>1, <2>2, <2>3, CalmStep DEF Calm
<1> QED
  BY <1>1, <1>2, <1>3, <1>4, <1>5, <1>6

LEMMA CalmElsewhere ==
    ASSUME TypeOK, SessionInv,
           \/ Client \/ UNCHANGED vars
           \/ \E t \in Threads : ReadPressure(t) \/ ComparePressure(t) \/ HandlePacket(t)
           \/ \E s \in Sessions : SendMsgToConn(s)
    PROVE  SessionInv'
<1> USE DEF TypeOK
<1>0. DevicesSame
  <2>1. UNCHANGED workerVars
    BY DEF Client, Connect, ClientSend, ClientMore, ClientGone, vars, ReadPressure,
           ComparePressure, HandlePacket, SendMsgToConn
  <2> QED
    BY <2>1, SameDevices DEF workerVars, deviceVars, Removing
<1>1. CASE Client \/ UNCHANGED vars
  <2>1. QuietAtThread /\ QuietAtMain /\ MainSame /\ HistorySame
    BY <1>1, SameQueues, SameMain DEF Client, Connect, ClientSend, ClientMore, ClientGone,
       vars, queueVars, mainVars, ghostVars, HistorySame
  <2> QED
    BY <1>0, <2>1, CalmStep DEF Calm
<1>2. ASSUME NEW t \in Threads, ReadPressure(t) \/ ComparePressure(t) PROVE SessionInv'
  <2>1. ScanGoesOn
    BY <1>2, Scanned
  <2>2. QuietAtThread /\ QuietAtMain /\ MainSame /\ HistorySame
    BY <2>1, SameQueues, SameMain DEF ScanGoesOn, queueVars, ghostVars, HistorySame
  <2> QED
    BY <1>0, <2>2, CalmStep DEF Calm
<1>3. ASSUME NEW t \in Threads, HandlePacket(t) PROVE SessionInv'
  <2>1. QuietAtMain
    BY <1>3, TakenByMain, MainCalm DEF HandlePacket
  <2>2. QuietAtThread /\ MainSame /\ HistorySame
    BY <1>3, SameQueues, SameMain DEF HandlePacket, mainVars, HistorySame
  <2> QED
    BY <1>0, <2>1, <2>2, CalmStep DEF Calm
<1>4. ASSUME NEW s \in Sessions, SendMsgToConn(s) PROVE SessionInv'
  <2> DEFINE t == m_MapSessionConnInfo[s]
  <2>1. t \in Threads /\ push_task(t, TaskSend(s)) /\ Known(t, s)
    BY <1>4 DEF SendMsgToConn, MainTypeOK, Known
  <2> HIDE DEF t
  <2>2. ThreadPushed(t, "SEND", s)
    <3>1. TaskSend(s).type = "SEND" /\ TaskSend(s).session_id = s
      BY DEF TaskSend, Task
    <3> QED
      BY <2>1, <3>1, TaskShapes, PushedByMain
  <2>3. QuietAtThread
    BY <2>1, <2>2 DEF ThreadPushed, QuietAtThread
  <2>4. QuietAtMain /\ MainSame /\ HistorySame
    BY <1>4, SameQueues, SameMain DEF SendMsgToConn, ghostVars, HistorySame
  <2> QED
    BY <1>0, <2>3, <2>4, CalmStep DEF Calm
<1> QED
  BY <1>1, <1>2, <1>3, <1>4

-----------------------------------------------------------------------------
(* The steps of a worker that change what SessionInv speaks of.            *)

(* A session that is on its way to a thread has no device anywhere. *)
LEMMA InsertingAlone ==
    ASSUME TypeOK, OnePerSession, NEW t \in Threads, NEW s \in Sessions, Inserting(t, s),
           NEW u \in Threads
    PROVE  ~ HasDevice(u, s)
<1>1. PICK i \in DOMAIN m_queue_thread[t] :
          m_queue_thread[t][i].type = "INSERT" /\ m_queue_thread[t][i].session_id = s
  BY QueuedAt DEF Inserting
<1>2. i \in Nat /\ Borne("INSERT", t, i, s)
  BY <1>1 DEF TypeOK, QueueTypeOK, Borne, InsertIn
<1>3. SUFFICES ASSUME HasDevice(u, s) PROVE FALSE
  OBVIOUS
<1>4. Borne("device", u, 0, s)
  BY <1>3 DEF HasDevice, Borne
<1>5. {"INSERT", "device"} \subseteq Kinds /\ t \in Owners /\ u \in Owners /\ 0 \in Nat
  BY DEF Kinds, Owners
<1>6. "INSERT" # "device"
  OBVIOUS
<1> QED
  BY <1>2, <1>4, <1>5, <1>6 DEF OnePerSession

LEMMA EndBefore ==
    ASSUME NEW t \in Threads, NEW s \in Sessions, TaskAfterEnd(t, s)
    PROVE  Ending(t, s)
BY DEF TaskAfterEnd, Ending, Queued

LEMMA DeleteBefore ==
    ASSUME NEW t \in Threads, NEW s \in Sessions, InsertAfterDelete(t, s)
    PROVE  Deleting(t, s)
BY DEF InsertAfterDelete, Deleting, Queued

(* addDevice() never finds the session or the descriptor taken. *)
LEMMA DeviceIsNew ==
    ASSUME TypeOK, OnePerFd, OnePerSession, NEW t \in Threads, AddClientConn(t)
    PROVE  LET fd == Head(m_queue_thread[t]).fd
               s  == Head(m_queue_thread[t]).session_id
           IN  /\ fd \in Fds /\ s \in Sessions /\ Inserting(t, s)
               /\ m_MapDeviceSessionInfo[t][s] = NoFd
               /\ m_MapDeviceInfo[t][fd] = NoSession
<1> DEFINE fd == Head(m_queue_thread[t]).fd
           s  == Head(m_queue_thread[t]).session_id
<1>1. fd \in Fds /\ s \in Sessions
  BY TakeTaskTyped, ThreadTaskFields DEF AddClientConn, TypeOK
<1>2. Inserting(t, s)
  BY TakenByThread DEF AddClientConn, TypeOK, Inserting
<1>3. m_MapDeviceSessionInfo[t][s] = NoFd
  BY <1>1, <1>2, InsertingAlone DEF HasDevice
<1>4. /\ 1 \in DOMAIN m_queue_thread[t] /\ m_queue_thread[t][1].type = "INSERT"
      /\ m_queue_thread[t][1].fd = fd
  BY TakenFromThread DEF AddClientConn, TypeOK
<1> HIDE DEF fd, s
<1>5. m_MapDeviceInfo[t][fd] = NoSession
  <2>1. Held("INSERT", t, 1, fd)
    BY <1>4 DEF Held, InsertIn
  <2>2. ~ HasClosed(t, fd)
    BY DEF AddClientConn, TaskAtWorker, HasClosed
  <2>3. m_MapDeviceInfo[t][fd] # NoSession => Held("device", t, 0, fd)
    BY <2>2 DEF Held
  <2>4. {"INSERT", "device"} \subseteq Kinds /\ t \in Owners /\ 0 \in Nat /\ 1 \in Nat
    BY DEF Kinds, Owners
  <2>5. "INSERT" # "device"
    OBVIOUS
  <2> QED
    BY <1>1, <2>1, <2>3, <2>4, <2>5 DEF OnePerFd
<1> QED
  BY <1>1, <1>2, <1>3, <1>5 DEF fd, s

LEMMA AddClientConnSession ==
    ASSUME TypeOK, OnePerFd, OnePerSession, SessionInv, NEW t \in Threads, AddClientConn(t)
    PROVE  SessionInv'
<1> DEFINE fd == Head(m_queue_thread[t]).fd
           z  == Head(m_queue_thread[t]).session_id
<1>1. /\ fd \in Fds /\ z \in Sessions /\ Inserting(t, z)
      /\ m_MapDeviceSessionInfo[t][z] = NoFd
      /\ m_MapDeviceInfo[t][fd] = NoSession
  BY DeviceIsNew
<1>2. ThreadTaken(t, "INSERT", z)
  BY TakenByThread DEF AddClientConn, TypeOK
<1>3. m_MapDeviceSessionInfo' = [m_MapDeviceSessionInfo EXCEPT ![t][z] = fd]
  BY <1>1 DEF AddClientConn
<1>4. wpc' = wpc /\ wpc[t].at = "idle"
  BY DEF AddClientConn, TaskAtWorker
<1>5. QuietAtMain /\ MainSame /\ HistorySame
  BY SameQueues, SameMain DEF AddClientConn, mainVars, ghostVars, HistorySame
<1> HIDE DEF fd, z
<1>6. \A u \in Threads, s \in Sessions :
        /\ HasDevice(u, s)' <=> HasDevice(u, s) \/ (u = t /\ s = z)
        /\ HasDevice(u, s) => (Leaving(u, s)' <=> Leaving(u, s))
        /\ u = t => ~ Leaving(u, s)'
  <2> TAKE u \in Threads, s \in Sessions
  <2>1. m_MapDeviceSessionInfo'[u][s] =
          IF u = t /\ s = z THEN fd ELSE m_MapDeviceSessionInfo[u][s]
    BY <1>1, <1>3 DEF TypeOK, WorkerTypeOK
  <2>2. HasDevice(u, s)' <=> HasDevice(u, s) \/ (u = t /\ s = z)
    BY <1>1, <2>1, ConstantAssumption DEF HasDevice
  <2>3. HasDevice(u, s) => (Leaving(u, s)' <=> Leaving(u, s))
    BY <1>1, <1>4, <2>1 DEF HasDevice, Leaving, Removing
  <2>4. u = t => ~ Leaving(u, s)'
    BY <1>4 DEF Leaving, Removing
  <2> QED
    BY <2>2, <2>3, <2>4
<1>7. OneThread'
  <2>1. ASSUME NEW u \in Threads, NEW s \in Sessions, Linked(u, s)' PROVE Linked(u, s)
    BY <1>1, <1>2, <1>5, <1>6, <2>1 DEF Linked, ThreadTaken, QuietAtMain, MainSame
  <2> QED
    BY <1>5, <2>1 DEF SessionInv, OneThread, MainSame
<1>8. NotYetEntered'
  BY <1>5 DEF SessionInv, NotYetEntered, MainSame
<1>9. KnownHasDevice'
  BY <1>2, <1>5, <1>6 DEF SessionInv, KnownHasDevice, ThreadTaken, QuietAtMain, MainSame, HistorySame
<1>10. LeavingTold'
  BY <1>5, <1>6 DEF SessionInv, LeavingTold, QuietAtMain, MainSame
<1>11. DeleteTold'
  BY <1>2, <1>5 DEF SessionInv, DeleteTold, ThreadTaken, MainSame, HistorySame
<1>12. LiveKnown'
  <2> SUFFICES ASSUME NEW u \in Threads, NEW s \in Sessions,
                      Inserting(u, s)' \/ (HasDevice(u, s)' /\ ~ Leaving(u, s)')
               PROVE  \/ m_MapSessionConnInfo[s] = u /\ ~ Dropping(s)
                      \/ Adding(s)
                      \/ Deleting(u, s)
    BY <1>2, <1>5 DEF LiveKnown, ThreadTaken, MainSame
  <2>1. Inserting(u, s) \/ (HasDevice(u, s) /\ ~ Leaving(u, s))
    BY <1>1, <1>2, <1>6 DEF ThreadTaken
  <2> QED
    BY <2>1 DEF SessionInv, LiveKnown
<1>13. EndIsLast'
  BY <1>1, <1>2, <1>5, <1>6 DEF SessionInv, EndIsLast, ThreadTaken, QuietAtMain
<1>14. TasksKnown'
  <2> SUFFICES ASSUME NEW u \in Threads, NEW s \in Sessions, Ending(u, s)' \/ Reading(u, s)'
               PROVE  m_MapSessionConnInfo[s] = u \/ Adding(s) \/ s \in serverClosed
    BY <1>5 DEF TasksKnown, MainSame, HistorySame
  <2> QED
    BY <1>5 DEF SessionInv, TasksKnown, QuietAtMain, LiveKnown, DeleteTold
<1> QED
  BY <1>7, <1>8, <1>9, <1>10, <1>11, <1>12, <1>13, <1>14 DEF SessionInv

LEMMA RegisterFailureSession ==
    ASSUME TypeOK, SessionsMatch, SessionInv, NEW t \in Threads, RegisterFailure(t)
    PROVE  SessionInv'
<1> USE DEF TypeOK
<1>1. DevicesSame /\ MainSame /\ QuietAtMain
  BY SameDevices, SameMain, SameQueues
     DEF RegisterFailure, workerVars, deviceVars, mainVars, Removing
<1>2. CASE TaskAtWorker(t, "LISTENER")
  <2>1. QuietAtThread
    BY <1>2, TakenByThread, ThreadCalm DEF RegisterFailure
  <2>2. HistorySame
    BY <1>2 DEF RegisterFailure, TaskAtWorker, HistorySame
  <2> QED
    BY <1>1, <2>1, <2>2, CalmStep DEF Calm
<1>3. CASE TaskAtWorker(t, "INSERT")
  <2> DEFINE z == Head(m_queue_thread[t]).session_id
  <2>1. ThreadTaken(t, "INSERT", z)
    BY <1>3, TakenByThread DEF RegisterFailure
  <2>2. orphans \subseteq orphans' /\ connOf[z] \in orphans' /\ UNCHANGED <<connOf, serverClosed>>
    <3>1. /\ 1 \in DOMAIN m_queue_thread[t] /\ Head(m_queue_thread[t]) = m_queue_thread[t][1]
          /\ m_queue_thread[t][1].type = "INSERT"
      BY <1>3, TakenFromThread DEF RegisterFailure
    <3>2. connOf[z] = file[Head(m_queue_thread[t]).fd]
      BY <3>1 DEF SessionsMatch, InsertIn
    <3> QED
      BY <1>3, <3>2 DEF RegisterFailure
  <2> HIDE DEF z
  <2>3. OneThread'
    <3>1. ASSUME NEW u \in Threads, NEW s \in Sessions, Linked(u, s)'
          PROVE  Linked(u, s)
      BY <1>1, <2>1, <3>1 DEF Linked, ThreadTaken, QuietAtMain, MainSame, DevicesSame
    <3> QED
      BY <1>1, <3>1 DEF SessionInv, OneThread, MainSame
  <2>4. NotYetEntered'
    BY <1>1 DEF SessionInv, NotYetEntered, MainSame
  <2>5. KnownHasDevice'
    BY <1>1, <2>1, <2>2 DEF SessionInv, KnownHasDevice, ThreadTaken, QuietAtMain,
       DevicesSame, MainSame
  <2>6. LeavingTold'
    BY <1>1 DEF SessionInv, LeavingTold, QuietAtMain, DevicesSame, MainSame
  <2>7. DeleteTold'
    BY <1>1, <2>1, <2>2 DEF SessionInv, DeleteTold, ThreadTaken, MainSame
  <2>8. LiveKnown'
    BY <1>1, <2>1 DEF SessionInv, LiveKnown, ThreadTaken, MainSame, DevicesSame
  <2>9. EndIsLast'
    BY <1>1, <2>1 DEF SessionInv, EndIsLast, ThreadTaken, QuietAtMain, DevicesSame
  <2>10. TasksKnown'
    <3> SUFFICES ASSUME NEW u \in Threads, NEW s \in Sessions, Ending(u, s)' \/ Reading(u, s)'
                 PROVE  m_MapSessionConnInfo[s] = u \/ Adding(s) \/ s \in serverClosed
      BY <1>1, <2>2 DEF TasksKnown, MainSame
    <3> QED
      BY <1>1 DEF SessionInv, TasksKnown, QuietAtMain, LiveKnown, DeleteTold
  <2> QED
    BY <2>3, <2>4, <2>5, <2>6, <2>7, <2>8, <2>9, <2>10 DEF SessionInv
<1> QED
  BY <1>2, <1>3 DEF RegisterFailure

LEMMA DelClientConnSession ==
    ASSUME TypeOK, MapsAgree, SessionInv, NEW t \in Threads, DelClientConn(t)
    PROVE  SessionInv'
<1> USE DEF TypeOK
<1>0. PICK z \in Sessions : z = Head(m_queue_thread[t]).session_id
  BY TakeTaskTyped, ThreadTaskFields DEF DelClientConn
<1>1. /\ z \in Sessions /\ Deleting(t, z) /\ ThreadTaken(t, "DELETE", z)
      /\ ~ InsertAfterDelete(t, z) => ~ Inserting(t, z)'
  BY <1>0, TakenByThread DEF DelClientConn, Deleting
<1>2. ~ Inserting(t, z)'
  BY <1>1 DEF SessionInv, DeleteTold
<1>3. QuietAtMain /\ MainSame /\ HistorySame
  BY SameQueues, SameMain DEF DelClientConn, mainVars, ghostVars, HistorySame
<1>4. /\ wpc[t].at = "idle" /\ m_MapDeviceSessionInfo' = m_MapDeviceSessionInfo
      /\ IF m_MapDeviceSessionInfo[t][z] = NoFd THEN wpc' = wpc
         ELSE wpc' = [wpc EXCEPT ![t] = [at |-> "unregister", fd |-> m_MapDeviceSessionInfo[t][z]]]
  BY <1>0 DEF DelClientConn, TaskAtWorker, deviceVars
<1>5. \A u \in Threads, s \in Sessions :
        /\ HasDevice(u, s)' <=> HasDevice(u, s)
        /\ HasDevice(u, s) => (Leaving(u, s)' <=> Leaving(u, s) \/ (u = t /\ s = z))
  <2> TAKE u \in Threads, s \in Sessions
  <2>1. HasDevice(u, s)' <=> HasDevice(u, s)
    BY <1>4 DEF HasDevice
  <2>2. ASSUME HasDevice(u, s), u # t PROVE Leaving(u, s)' <=> Leaving(u, s)
    <3>1. wpc'[u] = wpc[u]
      BY <1>4, <2>2 DEF WorkerTypeOK
    <3> QED
      BY <1>4, <3>1 DEF Leaving, Removing
  <2>3. ASSUME HasDevice(t, s) PROVE Leaving(t, s)' <=> s = z
    <3>1. CASE m_MapDeviceSessionInfo[t][z] = NoFd
      BY <1>4, <2>3, <3>1 DEF Leaving, Removing, HasDevice
    <3>2. CASE m_MapDeviceSessionInfo[t][z] # NoFd
      <4>1. wpc'[t] = [at |-> "unregister", fd |-> m_MapDeviceSessionInfo[t][z]]
        BY <1>4, <3>2 DEF WorkerTypeOK
      <4>2. m_MapDeviceSessionInfo[t][s] = m_MapDeviceSessionInfo[t][z] => s = z
        BY <1>1, <2>3, <3>2 DEF MapsAgree, HasDevice
      <4> QED
        BY <1>4, <4>1, <4>2 DEF Leaving, Removing
    <3> QED
      BY <3>1, <3>2
  <2>4. ~ Leaving(t, s)
    BY <1>4, IdleIsLive
  <2> QED
    BY <2>1, <2>2, <2>3, <2>4
<1>6. OneThread'
  <2>1. ASSUME NEW u \in Threads, NEW s \in Sessions, Linked(u, s)' PROVE Linked(u, s)
    BY <1>1, <1>3, <1>5, <2>1 DEF Linked, ThreadTaken, QuietAtMain, MainSame
  <2> QED
    BY <1>3, <2>1 DEF SessionInv, OneThread, MainSame
<1>7. NotYetEntered'
  BY <1>3 DEF SessionInv, NotYetEntered, MainSame
<1>8. KnownHasDevice'
  BY <1>1, <1>3, <1>5 DEF SessionInv, KnownHasDevice, ThreadTaken, QuietAtMain, MainSame, HistorySame
<1>9. LeavingTold'
  BY <1>1, <1>3, <1>5 DEF SessionInv, LeavingTold, DeleteTold, QuietAtMain, MainSame
<1>10. DeleteTold'
  BY <1>1, <1>3 DEF SessionInv, DeleteTold, ThreadTaken, MainSame, HistorySame
<1>11. LiveKnown'
  <2> SUFFICES ASSUME NEW u \in Threads, NEW s \in Sessions,
                      Inserting(u, s)' \/ (HasDevice(u, s)' /\ ~ Leaving(u, s)')
               PROVE  \/ m_MapSessionConnInfo[s] = u /\ ~ Dropping(s)
                      \/ Adding(s)
                      \/ Deleting(u, s)'
    BY <1>3 DEF LiveKnown, MainSame
  <2>1. Inserting(u, s) \/ (HasDevice(u, s) /\ ~ Leaving(u, s))
    BY <1>1, <1>5 DEF ThreadTaken
  <2>2. ~ (u = t /\ s = z)
    BY <1>2, <1>5
  <2> QED
    BY <1>1, <2>1, <2>2 DEF SessionInv, LiveKnown, ThreadTaken
<1>12. EndIsLast'
  BY <1>1, <1>3, <1>5 DEF SessionInv, EndIsLast, ThreadTaken, QuietAtMain
<1>13. TasksKnown'
  <2> SUFFICES ASSUME NEW u \in Threads, NEW s \in Sessions, Ending(u, s)' \/ Reading(u, s)'
               PROVE  m_MapSessionConnInfo[s] = u \/ Adding(s) \/ s \in serverClosed
    BY <1>3 DEF TasksKnown, MainSame, HistorySame
  <2> QED
    BY <1>3 DEF SessionInv, TasksKnown, QuietAtMain, LiveKnown, DeleteTold
<1> QED
  BY <1>6, <1>7, <1>8, <1>9, <1>10, <1>11, <1>12, <1>13 DEF SessionInv

(* A thread tells main of the end of a session and goes on to remove its   *)
(* device: doEpollEvents and WritePacketToConn have this in common.        *)
LEMMA EndSession ==
    ASSUME TypeOK, MapsAgree, OnePerSession, SessionInv, NEW t \in Threads, NEW z \in Sessions,
           HasDevice(t, z), wpc[t].at \in {"idle", "read"},
           push_task_main(t, TaskOnClose(z)),
           m_MapDeviceSessionInfo' = m_MapDeviceSessionInfo,
           wpc' = [wpc EXCEPT ![t] = [at |-> "remove", fd |-> m_MapDeviceSessionInfo[t][z]]],
           QuietAtThread, MainSame, HistorySame
    PROVE  SessionInv'
<1> USE DEF TypeOK
<1>1. MainPushed(t, "ONCLOSE", z)
  <2>1. TaskOnClose(z).type = "ONCLOSE" /\ TaskOnClose(z).session_id = z
    BY DEF TaskOnClose, Task
  <2> QED
    BY <2>1, TaskShapes, PushedByThread
<1>2. ~ Leaving(t, z) /\ ~ Ending(t, z) /\ ~ TaskAfterEnd(t, z)
  BY IdleIsLive, EndBefore DEF SessionInv, EndIsLast
<1>3. ~ Inserting(t, z)
  BY InsertingAlone
<1>4. \A u \in Threads, s \in Sessions :
        /\ HasDevice(u, s)' <=> HasDevice(u, s)
        /\ HasDevice(u, s) => (Leaving(u, s)' <=> Leaving(u, s) \/ (u = t /\ s = z))
  <2> TAKE u \in Threads, s \in Sessions
  <2>1. HasDevice(u, s)' <=> HasDevice(u, s)
    BY DEF HasDevice
  <2>2. ASSUME HasDevice(u, s), u # t PROVE Leaving(u, s)' <=> Leaving(u, s)
    <3>1. wpc'[u] = wpc[u]
      BY <2>2 DEF WorkerTypeOK
    <3> QED
      BY <3>1 DEF Leaving, Removing
  <2>3. ASSUME HasDevice(t, s) PROVE Leaving(t, s)' <=> s = z
    <3>1. wpc'[t] = [at |-> "remove", fd |-> m_MapDeviceSessionInfo[t][z]]
      BY DEF WorkerTypeOK
    <3>2. m_MapDeviceSessionInfo[t][s] = m_MapDeviceSessionInfo[t][z] => s = z
      BY <2>3 DEF MapsAgree, HasDevice
    <3> QED
      BY <3>1, <3>2 DEF Leaving, Removing
  <2>4. ~ Leaving(t, s)
    BY IdleIsLive
  <2> QED
    BY <2>1, <2>2, <2>3, <2>4
<1>5. OneThread'
  <2>1. ASSUME NEW u \in Threads, NEW s \in Sessions, Linked(u, s)' PROVE Linked(u, s)
    BY <1>1, <1>4, <2>1 DEF Linked, MainPushed, QuietAtThread, MainSame
  <2> QED
    BY <2>1 DEF SessionInv, OneThread, MainSame
<1>6. NotYetEntered'
  BY DEF SessionInv, NotYetEntered, MainSame
<1>7. KnownHasDevice'
  BY <1>1, <1>4 DEF SessionInv, KnownHasDevice, QuietAtThread, MainPushed, MainSame, HistorySame
<1>8. LeavingTold'
  BY <1>1, <1>4 DEF SessionInv, LeavingTold, MainPushed, MainSame
<1>9. DeleteTold'
  BY DEF SessionInv, DeleteTold, QuietAtThread, MainSame, HistorySame
<1>10. LiveKnown'
  BY <1>4 DEF SessionInv, LiveKnown, QuietAtThread, MainSame
<1>11. EndIsLast'
  BY <1>1, <1>2, <1>3, <1>4 DEF SessionInv, EndIsLast, QuietAtThread, MainPushed
<1>12. TasksKnown'
  <2> SUFFICES ASSUME NEW u \in Threads, NEW s \in Sessions, Ending(u, s)' \/ Reading(u, s)'
               PROVE  m_MapSessionConnInfo[s] = u \/ Adding(s) \/ s \in serverClosed
    BY DEF TasksKnown, MainSame, HistorySame
  <2>1. CASE Ending(u, s) \/ Reading(u, s)
    BY <2>1 DEF SessionInv, TasksKnown
  <2>2. CASE u = t /\ s = z
    BY <1>2, <2>2 DEF SessionInv, LiveKnown, DeleteTold
  <2> QED
    BY <1>1, <2>1, <2>2 DEF MainPushed
<1> QED
  BY <1>5, <1>6, <1>7, <1>8, <1>9, <1>10, <1>11, <1>12 DEF SessionInv

LEMMA EndSessionWorker ==
    ASSUME TypeOK, MapsAgree, RemovesDevice, OnePerSession, SessionInv, NEW t \in Threads,
           WritePacketFails(t) \/ ReadFails(t) \/ \E fd \in Fds : FlushFails(t, fd)
    PROVE  SessionInv'
<1> USE DEF TypeOK
<1>1. CASE WritePacketFails(t)
  <2> DEFINE z == Head(m_queue_thread[t]).session_id
  <2>1. z \in Sessions
    BY <1>1, TakeTaskTyped, ThreadTaskFields DEF WritePacketFails
  <2>2. QuietAtThread
    BY <1>1, TakenByThread, ThreadCalm DEF WritePacketFails
  <2>3. MainSame /\ HistorySame
    BY <1>1, SameMain DEF WritePacketFails, mainVars, ghostVars, HistorySame
  <2>4. /\ HasDevice(t, z) /\ wpc[t].at = "idle" /\ push_task_main(t, TaskOnClose(z))
        /\ m_MapDeviceSessionInfo' = m_MapDeviceSessionInfo
        /\ wpc' = [wpc EXCEPT ![t] = [at |-> "remove", fd |-> m_MapDeviceSessionInfo[t][z]]]
    BY <1>1 DEF WritePacketFails, TaskAtWorker, HasDevice, deviceVars
  <2> HIDE DEF z
  <2> QED
    BY <2>1, <2>2, <2>3, <2>4, EndSession
<1>2. CASE ReadFails(t) \/ \E fd \in Fds : FlushFails(t, fd)
  <2>0. PICK fd \in Fds : m_MapDeviceInfo[t][fd] \in Sessions /\ EventFails(t, fd)
    BY <1>2, EventFailed
  <2> DEFINE z == m_MapDeviceInfo[t][fd]
  <2>1. z \in Sessions /\ z # NoSession
    BY <2>0 DEF Sessions, NoSession
  <2>2. m_MapDeviceSessionInfo[t][z] = fd /\ fd # NoFd
    BY <2>1, ConstantAssumption DEF MapsAgree
  <2>a. DeviceLeft /\ UNCHANGED m_queue_thread /\ wpc[t].at \in {"idle", "read"}
    BY <1>2, EventFailed
  <2>3. QuietAtThread /\ MainSame /\ HistorySame
    BY <2>a, SameMain, SameQueues DEF DeviceLeft, mainVars, ghostVars, HistorySame
  <2>4. /\ HasDevice(t, z) /\ wpc[t].at \in {"idle", "read"}
        /\ push_task_main(t, TaskOnClose(z))
        /\ m_MapDeviceSessionInfo' = m_MapDeviceSessionInfo
        /\ wpc' = [wpc EXCEPT ![t] = [at |-> "remove", fd |-> m_MapDeviceSessionInfo[t][z]]]
    BY <2>0, <2>2, <2>a DEF EventFails, HasDevice, DeviceLeft, deviceVars
  <2> HIDE DEF z
  <2> QED
    BY <2>1, <2>3, <2>4, EndSession
<1> QED
  BY <1>1, <1>2

LEMMA EraseDeviceSession ==
    ASSUME TypeOK, MapsAgree, RemovesDevice, SessionInv, NEW t \in Threads, EraseDevice(t)
    PROVE  SessionInv'
<1> USE DEF TypeOK
<1> DEFINE fd == wpc[t].fd
           z  == m_MapDeviceInfo[t][fd]
<1>1. /\ z \in Sessions /\ m_MapDeviceSessionInfo[t][z] = fd /\ fd \in Fds
      /\ m_MapDeviceSessionInfo' = [m_MapDeviceSessionInfo EXCEPT ![t][z] = NoFd]
      /\ wpc' = [wpc EXCEPT ![t] = WorkerIdle]
  <2>1. fd \in Fds /\ z # NoSession
    BY DEF EraseDevice, WorkerTypeOK, RemovesDevice, AtDevice
  <2>2. z \in Sessions
    BY <2>1 DEF WorkerTypeOK
  <2> QED
    BY <2>1, <2>2 DEF EraseDevice, MapsAgree
<1>2. HasDevice(t, z) /\ Leaving(t, z)
  BY <1>1, ConstantAssumption DEF EraseDevice, HasDevice, Leaving, Removing
<1>3. QuietAtThread /\ QuietAtMain /\ MainSame /\ HistorySame
  BY SameQueues, SameMain DEF EraseDevice, queueVars, mainVars, ghostVars, HistorySame
<1>4. \A u \in Threads, s \in Sessions :
        /\ HasDevice(u, s)' <=> HasDevice(u, s) /\ ~ (u = t /\ s = z)
        /\ HasDevice(u, s)' => (Leaving(u, s)' <=> Leaving(u, s))
  <2> TAKE u \in Threads, s \in Sessions
  <2>1. m_MapDeviceSessionInfo'[u][s] =
            IF u = t /\ s = z THEN NoFd ELSE m_MapDeviceSessionInfo[u][s]
    BY <1>1 DEF WorkerTypeOK
  <2>2. HasDevice(u, s)' <=> HasDevice(u, s) /\ ~ (u = t /\ s = z)
    BY <2>1 DEF HasDevice
  <2>3. ASSUME HasDevice(u, s)', u # t PROVE Leaving(u, s)' <=> Leaving(u, s)
    <3>1. wpc'[u] = wpc[u] /\ m_MapDeviceSessionInfo'[u][s] = m_MapDeviceSessionInfo[u][s]
      BY <1>1, <2>1, <2>3 DEF WorkerTypeOK
    <3> QED
      BY <3>1 DEF Leaving, Removing
  <2>4. ASSUME HasDevice(u, s)', u = t PROVE ~ Leaving(u, s)' /\ ~ Leaving(u, s)
    <3>1. wpc'[t] = WorkerIdle
      BY <1>1 DEF WorkerTypeOK
    <3>2. ~ Leaving(u, s)'
      BY <2>4, <3>1 DEF Leaving, Removing, WorkerIdle
    <3>3. HasDevice(t, s) /\ s # z
      BY <2>2, <2>4
    <3>4. m_MapDeviceSessionInfo[t][s] # fd
      BY <1>1, <3>3 DEF MapsAgree, HasDevice
    <3>5. ~ Leaving(u, s)
      BY <2>4, <3>4 DEF Leaving, Removing
    <3> QED
      BY <3>2, <3>5
  <2> QED
    BY <2>2, <2>3, <2>4
<1> HIDE DEF z, fd
<1>5. OneThread'
  <2>1. ASSUME NEW u \in Threads, NEW s \in Sessions, Linked(u, s)' PROVE Linked(u, s)
    BY <1>1, <1>2, <1>3, <1>4, <2>1 DEF Linked, QuietAtThread, QuietAtMain, MainSame
  <2> QED
    BY <1>3, <2>1 DEF SessionInv, OneThread, MainSame
<1>6. NotYetEntered'
  BY <1>3 DEF SessionInv, NotYetEntered, MainSame
<1>7. KnownHasDevice'
  BY <1>2, <1>3, <1>4 DEF SessionInv, KnownHasDevice, LeavingTold, QuietAtThread,
     QuietAtMain, MainSame, HistorySame
<1>8. LeavingTold'
  BY <1>3, <1>4 DEF SessionInv, LeavingTold, QuietAtMain, MainSame
<1>9. DeleteTold'
  BY <1>3 DEF SessionInv, DeleteTold, QuietAtThread, MainSame, HistorySame
<1>10. LiveKnown'
  BY <1>3, <1>4 DEF SessionInv, LiveKnown, QuietAtThread, MainSame
<1>11. EndIsLast'
  BY <1>3, <1>4 DEF SessionInv, EndIsLast, QuietAtThread, QuietAtMain
<1>12. TasksKnown'
  <2> SUFFICES ASSUME NEW u \in Threads, NEW s \in Sessions, Ending(u, s)' \/ Reading(u, s)'
               PROVE  m_MapSessionConnInfo[s] = u \/ Adding(s) \/ s \in serverClosed
    BY <1>3 DEF TasksKnown, MainSame, HistorySame
  <2> QED
    BY <1>3 DEF SessionInv, TasksKnown, QuietAtMain, LiveKnown, DeleteTold
<1> QED
  BY <1>5, <1>6, <1>7, <1>8, <1>9, <1>10, <1>11, <1>12 DEF SessionInv

-----------------------------------------------------------------------------
(* The steps of main that change what SessionInv speaks of.                *)

LEMMA DevicesUntouched ==
    ASSUME TypeOK, UNCHANGED workerVars
    PROVE  DevicesSame
BY SameDevices DEF workerVars, deviceVars, Removing

LEMMA KnownLinked ==
    ASSUME OneThread, NEW t \in Threads, NEW s \in Sessions, Known(t, s)
    PROVE  Linked(t, s) /\ s < nextSession /\ ~ Scanning(s)
BY DEF OneThread, Linked

LEMMA NewSessionSession ==
    ASSUME TypeOK, SessionInv, NEW t \in Threads, NewSession(t)
    PROVE  SessionInv'
<1> USE DEF TypeOK
<1>1. PICK z \in Sessions : z = nextSession
  BY DEF NewSession
<1>2. /\ mpc.at = "idle" /\ mpc'.at = "scan" /\ mpc'.session = z
      /\ nextSession' = z + 1 /\ m_MapSessionConnInfo' = m_MapSessionConnInfo
      /\ UNCHANGED <<serverClosed, orphans>>
      /\ \A s \in Sessions : s # z => connOf'[s] = connOf[s]
  BY <1>1 DEF NewSession, TaskAtMain, MainIdle, GhostTypeOK
<1>3. QuietAtMain /\ QuietAtThread /\ DevicesSame
  BY TakenByMain, MainCalm, SameQueues, DevicesUntouched DEF NewSession
<1>4. \A s \in Sessions :
        /\ Adding(s)' <=> s = z
        /\ Scanning(s)' <=> s = z
        /\ ~ Dropping(s)' /\ ~ Dropping(s) /\ ~ Adding(s)
        /\ \A u \in Threads : Known(u, s)' <=> Known(u, s)
  BY <1>2 DEF Adding, Scanning, Dropping, Known
<1>5. \A u \in Threads, s \in Sessions : Linked(u, s) => s < z /\ s # z
  BY <1>1 DEF SessionInv, OneThread, Sessions
<1>6. OneThread'
  <2>1. ASSUME NEW u \in Threads, NEW s \in Sessions, Linked(u, s)' PROVE Linked(u, s)
    BY <1>3, <1>4, <2>1 DEF Linked, QuietAtThread, QuietAtMain, DevicesSame
  <2>2. \A s \in Sessions : s < z => s < z + 1
    BY DEF Sessions
  <2>3. ASSUME NEW u \in Threads, NEW s \in Sessions, Linked(u, s)'
        PROVE  s < nextSession' /\ ~ Scanning(s)'
    BY <1>2, <1>4, <1>5, <2>1, <2>2, <2>3
  <2> QED
    BY <2>1, <2>3 DEF SessionInv, OneThread
<1>7. NotYetEntered'
  <2>1. m_MapSessionConnInfo[z] \in Threads => Known(m_MapSessionConnInfo[z], z)
    BY DEF Known
  <2>2. m_MapSessionConnInfo[z] \in Threads \cup {NoThread}
    BY DEF MainTypeOK
  <2>3. m_MapSessionConnInfo[z] = NoThread
    BY <1>5, <2>1, <2>2 DEF Linked
  <2> QED
    BY <1>2, <1>4, <2>3 DEF NotYetEntered
<1>8. KnownHasDevice'
  <2> SUFFICES ASSUME NEW u \in Threads, NEW s \in Sessions, Known(u, s)
               PROVE  Inserting(u, s) \/ HasDevice(u, s) \/ Ending(u, s) \/ connOf'[s] \in orphans
    BY <1>2, <1>3, <1>4 DEF KnownHasDevice, QuietAtThread, QuietAtMain, DevicesSame
  <2>1. connOf'[s] = connOf[s]
    BY <1>2, <1>5 DEF Linked
  <2> QED
    BY <1>4, <2>1 DEF SessionInv, KnownHasDevice
<1>9. LeavingTold'
  BY <1>3, <1>4 DEF SessionInv, LeavingTold, QuietAtMain, DevicesSame
<1>10. DeleteTold'
  BY <1>2, <1>3, <1>4 DEF SessionInv, DeleteTold, QuietAtThread
<1>11. LiveKnown'
  BY <1>2, <1>3, <1>4 DEF SessionInv, LiveKnown, QuietAtThread, DevicesSame
<1>12. EndIsLast'
  BY <1>3 DEF SessionInv, EndIsLast, DevicesSame, QuietAtThread, QuietAtMain
<1>13. TasksKnown'
  <2> SUFFICES ASSUME NEW u \in Threads, NEW s \in Sessions, Ending(u, s)' \/ Reading(u, s)'
               PROVE  m_MapSessionConnInfo[s] = u \/ s \in serverClosed
    BY <1>2 DEF TasksKnown
  <2> QED
    BY <1>3, <1>4 DEF SessionInv, TasksKnown, QuietAtMain, LiveKnown, DeleteTold
<1> QED
  BY <1>6, <1>7, <1>8, <1>9, <1>10, <1>11, <1>12, <1>13 DEF SessionInv

LEMMA PushInsertSession ==
    ASSUME TypeOK, OnePerSession, SessionInv, NEW t \in Threads, PushInsert(t)
    PROVE  SessionInv'
<1> USE DEF TypeOK
<1>1. PICK z \in Sessions, fd \in Fds : z = mpc.session /\ fd = mpc.fd
  BY DEF PushInsert, MainTypeOK, MainIdle, Scan
<1>2. /\ mpc.at = "scan" /\ mpc'.at = "add" /\ mpc'.session = z /\ mpc'.thread = t
      /\ nextSession' = nextSession /\ m_MapSessionConnInfo' = m_MapSessionConnInfo
      /\ HistorySame
  BY <1>1 DEF PushInsert, MainIdle, ghostVars, HistorySame
<1>3. ThreadPushed(t, "INSERT", z)
  <2>1. /\ TaskInsert(fd, z).type = "INSERT" /\ TaskInsert(fd, z).session_id = z
        /\ push_task(t, TaskInsert(fd, z))
    BY <1>1 DEF TaskInsert, Task, PushInsert
  <2> QED
    BY <2>1, TaskShapes, PushedByMain
<1>4. QuietAtMain /\ DevicesSame
  BY SameQueues, DevicesUntouched DEF PushInsert
<1>5. \A s \in Sessions :
        /\ Adding(s)' <=> s = z
        /\ Adding(s) <=> s = z
        /\ Scanning(s) <=> s = z
        /\ ~ Scanning(s)' /\ ~ Dropping(s)' /\ ~ Dropping(s)
        /\ \A u \in Threads : Known(u, s)' <=> Known(u, s) \/ (u = t /\ s = z)
  BY <1>1, <1>2 DEF Adding, Scanning, Dropping, Known
<1>6. \A u \in Threads : ~ Linked(u, z)
  BY <1>5 DEF SessionInv, OneThread
<1>7. \A u \in Threads :
        /\ ~ Inserting(u, z) /\ ~ Deleting(u, z) /\ ~ Ending(u, z) /\ ~ Reading(u, z)
        /\ ~ HasDevice(u, z) /\ ~ Known(u, z) /\ ~ InsertAfterDelete(u, z)
  BY <1>6, DeleteBefore DEF Linked
<1>8. z < nextSession
  <2>1. Borne("main", NoThread, 0, z)
    BY <1>1, <1>2 DEF Borne
  <2>2. "main" \in Kinds /\ NoThread \in Owners /\ 0 \in Nat
    BY DEF Kinds, Owners
  <2> QED
    BY <2>1, <2>2 DEF OnePerSession
<1>9. OneThread'
  <2>1. ASSUME NEW u \in Threads, NEW s \in Sessions, Linked(u, s)'
        PROVE  Linked(u, s) \/ (u = t /\ s = z)
    BY <1>3, <1>4, <1>5, <2>1 DEF Linked, ThreadPushed, QuietAtMain, DevicesSame
  <2> QED
    BY <1>2, <1>5, <1>6, <1>8, <2>1 DEF SessionInv, OneThread
<1>10. NotYetEntered'
  BY <1>2, <1>5 DEF SessionInv, NotYetEntered
<1>11. KnownHasDevice'
  BY <1>2, <1>3, <1>4, <1>5 DEF SessionInv, KnownHasDevice, ThreadPushed,
     QuietAtMain, DevicesSame, HistorySame
<1>12. LeavingTold'
  BY <1>4, <1>5, <1>7 DEF SessionInv, LeavingTold, QuietAtMain, DevicesSame
<1>13. DeleteTold'
  BY <1>2, <1>3, <1>5, <1>7 DEF SessionInv, DeleteTold, ThreadPushed, HistorySame
<1>14. LiveKnown'
  BY <1>2, <1>3, <1>4, <1>5 DEF SessionInv, LiveKnown, ThreadPushed, DevicesSame
<1>15. EndIsLast'
  BY <1>3, <1>4, <1>7 DEF SessionInv, EndIsLast, DevicesSame, ThreadPushed, QuietAtMain
<1>16. TasksKnown'
  <2> SUFFICES ASSUME NEW u \in Threads, NEW s \in Sessions, Ending(u, s)' \/ Reading(u, s)'
               PROVE  m_MapSessionConnInfo[s] = u \/ Adding(s) \/ s \in serverClosed
    BY <1>2, <1>5 DEF TasksKnown, HistorySame
  <2> QED
    BY <1>4 DEF SessionInv, TasksKnown, QuietAtMain, LiveKnown, DeleteTold
<1> QED
  BY <1>9, <1>10, <1>11, <1>12, <1>13, <1>14, <1>15, <1>16 DEF SessionInv

LEMMA AddNewConnSession ==
    ASSUME TypeOK, SessionInv, AddNewConn
    PROVE  SessionInv'
<1> USE DEF TypeOK
<1>1. PICK z \in Sessions, v \in Threads : z = mpc.session /\ v = mpc.thread
  BY DEF AddNewConn, MainTypeOK, MainIdle, Scan
<1>2. mpc.at = "add" /\ mpc'.at = "idle" /\ nextSession' = nextSession /\ HistorySame
  BY DEF AddNewConn, MainIdle, ghostVars, HistorySame
<1>3. m_MapSessionConnInfo[z] = NoThread
  BY <1>1, <1>2 DEF SessionInv, NotYetEntered, Adding
<1>4. \A s \in Sessions :
        m_MapSessionConnInfo'[s] = IF s = z THEN v ELSE m_MapSessionConnInfo[s]
  BY <1>1, <1>3 DEF AddNewConn, MainTypeOK
<1>5. QuietAtMain /\ QuietAtThread /\ DevicesSame
  BY SameQueues, DevicesUntouched DEF AddNewConn, queueVars
<1>6. \A s \in Sessions :
        /\ Adding(s) <=> s = z
        /\ ~ Adding(s)' /\ ~ Scanning(s)' /\ ~ Dropping(s)' /\ ~ Dropping(s)
        /\ \A u \in Threads : Known(u, s)' <=> Known(u, s)
  BY <1>1, <1>2, <1>3, <1>4, ConstantAssumption DEF Adding, Scanning, Dropping, Known
<1>7. \A u \in Threads : Linked(u, z) => u = v
  <2>1. Linked(v, z)
    BY <1>1, <1>2 DEF Linked, Known
  <2> QED
    BY <2>1 DEF SessionInv, OneThread
<1>8. OneThread'
  <2>1. ASSUME NEW u \in Threads, NEW s \in Sessions, Linked(u, s)' PROVE Linked(u, s)
    BY <1>5, <1>6, <2>1 DEF Linked, QuietAtThread, QuietAtMain, DevicesSame
  <2> QED
    BY <1>2, <1>6, <2>1 DEF SessionInv, OneThread
<1>9. NotYetEntered'
  BY <1>6 DEF NotYetEntered
<1>10. KnownHasDevice'
  BY <1>2, <1>5, <1>6 DEF SessionInv, KnownHasDevice, QuietAtThread, QuietAtMain,
     DevicesSame, HistorySame
<1>11. LeavingTold'
  BY <1>5, <1>6 DEF SessionInv, LeavingTold, QuietAtMain, DevicesSame
<1>12. DeleteTold'
  BY <1>2, <1>5, <1>6 DEF SessionInv, DeleteTold, QuietAtThread, HistorySame
<1>13. LiveKnown'
  <2> SUFFICES ASSUME NEW u \in Threads, NEW s \in Sessions,
                      Inserting(u, s) \/ (HasDevice(u, s) /\ ~ Leaving(u, s))
               PROVE  m_MapSessionConnInfo'[s] = u \/ Deleting(u, s)
    BY <1>5, <1>6 DEF LiveKnown, QuietAtThread, DevicesSame
  <2>1. CASE s = z
    BY <1>4, <1>7, <2>1 DEF Linked
  <2>2. CASE s # z
    BY <1>4, <1>6, <2>2 DEF SessionInv, LiveKnown
  <2> QED
    BY <2>1, <2>2
<1>14. EndIsLast'
  BY <1>5 DEF SessionInv, EndIsLast, DevicesSame, QuietAtThread, QuietAtMain
<1>15. TasksKnown'
  <2> SUFFICES ASSUME NEW u \in Threads, NEW s \in Sessions, Ending(u, s)' \/ Reading(u, s)'
               PROVE  m_MapSessionConnInfo'[s] = u \/ s \in serverClosed
    BY <1>2 DEF TasksKnown, HistorySame
  <2>1. Linked(u, s) /\ (m_MapSessionConnInfo[s] = u \/ Adding(s) \/ s \in serverClosed)
    BY <1>5 DEF SessionInv, TasksKnown, QuietAtMain, LiveKnown, DeleteTold, Linked
  <2> QED
    BY <1>3, <1>4, <1>6, <1>7, <2>1, ConstantAssumption
<1> QED
  BY <1>8, <1>9, <1>10, <1>11, <1>12, <1>13, <1>14, <1>15 DEF SessionInv

LEMMA OnCloseSession ==
    ASSUME TypeOK, SessionInv, NEW t \in Threads, OnClose(t)
    PROVE  SessionInv'
<1> USE DEF TypeOK
<1>1. PICK z \in Sessions : z = Head(m_queue_main[t]).session_id
  BY TakeMainTaskTyped, MainTaskFields DEF OnClose
<1>2. /\ MainTaken(t, "ONCLOSE", z) /\ Ending(t, z)
      /\ ~ TaskAfterEnd(t, z) => ~ Ending(t, z)' /\ ~ Reading(t, z)'
  BY <1>1, TakenByMain DEF OnClose, Ending
<1>3. ~ Ending(t, z)' /\ ~ Reading(t, z)'
  BY <1>2 DEF SessionInv, EndIsLast
<1>4. /\ mpc.at = "idle" /\ mpc' = mpc /\ nextSession' = nextSession /\ HistorySame
      /\ \A s \in Sessions :
            m_MapSessionConnInfo'[s] = IF s = z THEN NoThread ELSE m_MapSessionConnInfo[s]
  BY <1>1 DEF OnClose, TaskAtMain, ghostVars, HistorySame, MainTypeOK
<1>5. QuietAtThread /\ DevicesSame
  BY SameQueues, DevicesUntouched DEF OnClose
<1>6. \A s \in Sessions :
        /\ ~ Adding(s)' /\ ~ Adding(s) /\ ~ Scanning(s)' /\ ~ Dropping(s)' /\ ~ Dropping(s)
        /\ \A u \in Threads : Known(u, s)' <=> Known(u, s) /\ s # z
  BY <1>4, ConstantAssumption DEF Adding, Scanning, Dropping, Known
<1>7. \A u \in Threads : Linked(u, z) => u = t
  <2>1. Linked(t, z)
    BY <1>2 DEF Linked
  <2> QED
    BY <2>1 DEF SessionInv, OneThread
<1>8. OneThread'
  <2>1. ASSUME NEW u \in Threads, NEW s \in Sessions, Linked(u, s)' PROVE Linked(u, s)
    BY <1>2, <1>5, <1>6, <2>1 DEF Linked, QuietAtThread, MainTaken, DevicesSame
  <2> QED
    BY <1>4, <1>6, <2>1 DEF SessionInv, OneThread
<1>9. NotYetEntered'
  BY <1>6 DEF NotYetEntered
<1>10. KnownHasDevice'
  BY <1>2, <1>4, <1>5, <1>6 DEF SessionInv, KnownHasDevice, QuietAtThread, MainTaken,
     DevicesSame, HistorySame
<1>11. LeavingTold'
  BY <1>2, <1>5, <1>6 DEF SessionInv, LeavingTold, MainTaken, DevicesSame
<1>12. DeleteTold'
  BY <1>4, <1>5, <1>6 DEF SessionInv, DeleteTold, QuietAtThread, HistorySame
<1>13. LiveKnown'
  <2> SUFFICES ASSUME NEW u \in Threads, NEW s \in Sessions,
                      Inserting(u, s) \/ (HasDevice(u, s) /\ ~ Leaving(u, s))
               PROVE  m_MapSessionConnInfo'[s] = u \/ Deleting(u, s)
    BY <1>5, <1>6 DEF LiveKnown, QuietAtThread, DevicesSame
  <2>1. s # z
    BY <1>2, <1>7 DEF Linked, SessionInv, EndIsLast
  <2> QED
    BY <1>4, <1>6, <2>1 DEF SessionInv, LiveKnown
<1>14. EndIsLast'
  BY <1>2, <1>5 DEF SessionInv, EndIsLast, DevicesSame, QuietAtThread, MainTaken
<1>15. TasksKnown'
  <2> SUFFICES ASSUME NEW u \in Threads, NEW s \in Sessions, Ending(u, s)' \/ Reading(u, s)'
               PROVE  m_MapSessionConnInfo'[s] = u \/ s \in serverClosed
    BY <1>4 DEF TasksKnown, HistorySame
  <2>1. Ending(u, s) \/ Reading(u, s)
    BY <1>2 DEF MainTaken
  <2>2. s # z
    BY <1>3, <1>7, <2>1 DEF Linked
  <2> QED
    BY <1>4, <1>6, <2>1, <2>2 DEF SessionInv, TasksKnown
<1> QED
  BY <1>8, <1>9, <1>10, <1>11, <1>12, <1>13, <1>14, <1>15 DEF SessionInv

LEMMA CloseConnSession ==
    ASSUME TypeOK, SessionInv, NEW z \in Sessions, CloseConn(z)
    PROVE  SessionInv'
<1> USE DEF TypeOK
<1>1. PICK v \in Threads : v = m_MapSessionConnInfo[z]
  BY DEF CloseConn, MainTypeOK
<1>2. /\ mpc.at = "idle" /\ mpc'.at = "remove" /\ mpc'.session = z
      /\ nextSession' = nextSession /\ m_MapSessionConnInfo' = m_MapSessionConnInfo
      /\ serverClosed' = serverClosed \cup {z} /\ UNCHANGED <<connOf, orphans>>
  BY DEF CloseConn, MainIdle
<1>3. ThreadPushed(v, "DELETE", z)
  <2>1. /\ TaskDelete(z).type = "DELETE" /\ TaskDelete(z).session_id = z
        /\ push_task(v, TaskDelete(z))
    BY <1>1 DEF TaskDelete, Task, CloseConn
  <2> QED
    BY <2>1, TaskShapes, PushedByMain
<1>4. QuietAtMain /\ DevicesSame
  BY SameQueues, DevicesUntouched DEF CloseConn
<1>5. \A s \in Sessions :
        /\ ~ Adding(s)' /\ ~ Adding(s) /\ ~ Scanning(s)' /\ ~ Dropping(s)
        /\ Dropping(s)' <=> s = z
        /\ \A u \in Threads : Known(u, s)' <=> Known(u, s)
  BY <1>2 DEF Adding, Scanning, Dropping, Known
<1>6. Known(v, z) /\ \A u \in Threads : Linked(u, z) => u = v
  <2>1. Known(v, z)
    BY <1>1 DEF Known
  <2>2. Linked(v, z)
    BY <2>1 DEF Linked
  <2> QED
    BY <2>1, <2>2 DEF SessionInv, OneThread
<1>7. OneThread'
  <2>1. ASSUME NEW u \in Threads, NEW s \in Sessions, Linked(u, s)' PROVE Linked(u, s)
    BY <1>3, <1>4, <1>5, <1>6, <2>1 DEF Linked, ThreadPushed, QuietAtMain, DevicesSame
  <2> QED
    BY <1>2, <1>5, <2>1 DEF SessionInv, OneThread
<1>8. NotYetEntered'
  BY <1>5 DEF NotYetEntered
<1>9. KnownHasDevice'
  BY <1>2, <1>3, <1>4, <1>5 DEF SessionInv, KnownHasDevice, ThreadPushed, QuietAtMain,
     DevicesSame
<1>10. LeavingTold'
  BY <1>4, <1>5 DEF SessionInv, LeavingTold, QuietAtMain, DevicesSame
<1>11. DeleteTold'
  <2>1. \A u \in Threads, s \in Sessions : ~ InsertAfterDelete(u, s)
    BY DeleteBefore DEF SessionInv, DeleteTold
  <2>2. \A u \in Threads, s \in Sessions : ~ InsertAfterDelete(u, s)'
    BY <1>3, <2>1 DEF ThreadPushed
  <2>3. ASSUME NEW u \in Threads, NEW s \in Sessions, Deleting(u, s)'
        PROVE  s \in serverClosed' /\ (Known(u, s)' => Dropping(s)')
    <3>1. CASE Deleting(u, s)
      BY <1>2, <1>5, <3>1 DEF SessionInv, DeleteTold
    <3>2. CASE s = z
      BY <1>2, <1>5, <3>2
    <3> QED
      BY <1>3, <2>3, <3>1, <3>2 DEF ThreadPushed
  <2>4. \A s \in Sessions : Dropping(s)' => s \in serverClosed'
    BY <1>2, <1>5
  <2> QED
    BY <2>2, <2>3, <2>4 DEF DeleteTold
<1>12. LiveKnown'
  <2> SUFFICES ASSUME NEW u \in Threads, NEW s \in Sessions,
                      Inserting(u, s) \/ (HasDevice(u, s) /\ ~ Leaving(u, s))
               PROVE  (m_MapSessionConnInfo[s] = u /\ s # z) \/ Deleting(u, s)'
    BY <1>2, <1>3, <1>4, <1>5 DEF LiveKnown, ThreadPushed, DevicesSame
  <2>1. CASE s = z
    BY <1>3, <1>6, <2>1 DEF Linked, ThreadPushed
  <2>2. CASE s # z
    BY <1>3, <1>5, <2>2 DEF SessionInv, LiveKnown, ThreadPushed
  <2> QED
    BY <2>1, <2>2
<1>13. EndIsLast'
  BY <1>3, <1>4 DEF SessionInv, EndIsLast, DevicesSame, ThreadPushed, QuietAtMain
<1>14. TasksKnown'
  <2> SUFFICES ASSUME NEW u \in Threads, NEW s \in Sessions, Ending(u, s)' \/ Reading(u, s)'
               PROVE  m_MapSessionConnInfo[s] = u \/ s \in serverClosed
    BY <1>2 DEF TasksKnown
  <2> QED
    BY <1>4, <1>5 DEF SessionInv, TasksKnown, QuietAtMain, LiveKnown, DeleteTold
<1> QED
  BY <1>7, <1>8, <1>9, <1>10, <1>11, <1>12, <1>13, <1>14 DEF SessionInv

LEMMA RemoveSessionConnSession ==
    ASSUME TypeOK, SessionInv, RemoveSessionConn
    PROVE  SessionInv'
<1> USE DEF TypeOK
<1>1. PICK z \in Sessions : z = mpc.session
  BY DEF RemoveSessionConn, MainTypeOK, MainIdle, Scan
<1>2. /\ mpc.at = "remove" /\ mpc'.at = "idle" /\ nextSession' = nextSession /\ HistorySame
      /\ \A s \in Sessions :
            m_MapSessionConnInfo'[s] = IF s = z THEN NoThread ELSE m_MapSessionConnInfo[s]
  BY <1>1 DEF RemoveSessionConn, MainIdle, ghostVars, HistorySame, MainTypeOK
<1>3. QuietAtMain /\ QuietAtThread /\ DevicesSame
  BY SameQueues, DevicesUntouched DEF RemoveSessionConn, queueVars
<1>4. \A s \in Sessions :
        /\ ~ Adding(s)' /\ ~ Adding(s) /\ ~ Scanning(s)' /\ ~ Dropping(s)'
        /\ Dropping(s) <=> s = z
        /\ \A u \in Threads : Known(u, s)' <=> Known(u, s) /\ s # z
  BY <1>1, <1>2, ConstantAssumption DEF Adding, Scanning, Dropping, Known
<1>5. OneThread'
  <2>1. ASSUME NEW u \in Threads, NEW s \in Sessions, Linked(u, s)' PROVE Linked(u, s)
    BY <1>3, <1>4, <2>1 DEF Linked, QuietAtThread, QuietAtMain, DevicesSame
  <2> QED
    BY <1>2, <1>4, <2>1 DEF SessionInv, OneThread
<1>6. NotYetEntered'
  BY <1>4 DEF NotYetEntered
<1>7. KnownHasDevice'
  BY <1>2, <1>3, <1>4 DEF SessionInv, KnownHasDevice, QuietAtThread, QuietAtMain,
     DevicesSame, HistorySame
<1>8. LeavingTold'
  BY <1>3, <1>4 DEF SessionInv, LeavingTold, QuietAtMain, DevicesSame
<1>9. DeleteTold'
  BY <1>2, <1>3, <1>4 DEF SessionInv, DeleteTold, QuietAtThread, HistorySame
<1>10. LiveKnown'
  BY <1>2, <1>3, <1>4 DEF SessionInv, LiveKnown, QuietAtThread, DevicesSame
<1>11. EndIsLast'
  BY <1>3 DEF SessionInv, EndIsLast, DevicesSame, QuietAtThread, QuietAtMain
<1>12. TasksKnown'
  <2> SUFFICES ASSUME NEW u \in Threads, NEW s \in Sessions, Ending(u, s)' \/ Reading(u, s)'
               PROVE  m_MapSessionConnInfo'[s] = u \/ s \in serverClosed
    BY <1>2 DEF TasksKnown, HistorySame
  <2>1. m_MapSessionConnInfo[s] = u \/ s \in serverClosed
    BY <1>3, <1>4 DEF SessionInv, TasksKnown, QuietAtMain, LiveKnown, DeleteTold
  <2>2. s = z => s \in serverClosed
    BY <1>4 DEF SessionInv, DeleteTold
  <2> QED
    BY <1>2, <2>1, <2>2
<1> QED
  BY <1>5, <1>6, <1>7, <1>8, <1>9, <1>10, <1>11, <1>12 DEF SessionInv

-----------------------------------------------------------------------------
(* All steps, and the theorems. *)

LEMMA SessionStep ==
    ASSUME TypeOK, MapsAgree, RemovesDevice, HolderInv, SessionInv, [Next]_vars
    PROVE  SessionInv'
<1>0. OnePerFd /\ OnePerSession /\ SessionsMatch
  BY DEF HolderInv
<1>1. ASSUME NEW t \in Threads, WorkerStep(t) PROVE SessionInv'
  <2>1. CASE AddClientConn(t)
    BY <1>0, <2>1, AddClientConnSession
  <2>2. CASE RegisterFailure(t)
    BY <1>0, <2>2, RegisterFailureSession
  <2>3. CASE DelClientConn(t)
    BY <2>3, DelClientConnSession
  <2>4. CASE WritePacketFails(t) \/ ReadFails(t) \/ \E fd \in Fds : FlushFails(t, fd)
    BY <1>0, <2>4, EndSessionWorker
  <2>5. CASE EraseDevice(t)
    BY <2>5, EraseDeviceSession
  <2>6. CASE \/ AddListener(t) \/ WritePacket(t) \/ ReadFrame(t) \/ ReadStops(t)
             \/ \E fd \in Fds : ClientEvent(t, fd) \/ FlushSendBuffer(t, fd)
             \/ CloseDevice(t) \/ AcceptEvent(t) \/ Accept(t) \/ PushConn(t)
             \/ AcceptStops(t)
    BY <2>6, CalmWorker
  <2> QED
    BY <1>1, <2>1, <2>2, <2>3, <2>4, <2>5, <2>6 DEF WorkerStep, Worker
<1>2. CASE MainTask
  <2>1. ASSUME NEW t \in Threads, ReadPressure(t) \/ ComparePressure(t) \/ HandlePacket(t)
        PROVE  SessionInv'
    BY <2>1, CalmElsewhere
  <2>2. ASSUME NEW t \in Threads, NewSession(t) PROVE SessionInv'
    BY <2>2, NewSessionSession
  <2>3. ASSUME NEW t \in Threads, PushInsert(t) PROVE SessionInv'
    BY <1>0, <2>3, PushInsertSession
  <2>4. ASSUME NEW t \in Threads, OnClose(t) PROVE SessionInv'
    BY <2>4, OnCloseSession
  <2>5. CASE AddNewConn
    BY <1>0, <2>5, AddNewConnSession
  <2>6. CASE RemoveSessionConn
    BY <2>6, RemoveSessionConnSession
  <2> QED
    BY <1>2, <2>1, <2>2, <2>3, <2>4, <2>5, <2>6 DEF MainTask
<1>3. ASSUME NEW s \in Sessions, CloseConn(s) PROVE SessionInv'
  BY <1>3, CloseConnSession
<1>4. ASSUME NEW s \in Sessions, SendMsgToConn(s) PROVE SessionInv'
  BY <1>4, CalmElsewhere
<1>5. CASE Client \/ UNCHANGED vars
  BY <1>5, CalmElsewhere
<1> QED
  BY <1>1, <1>2, <1>3, <1>4, <1>5 DEF Next, Application, WorkerStep

LEMMA SessionInit == Init => SessionInv
<1> SUFFICES ASSUME Init PROVE SessionInv
  OBVIOUS
<1>1. /\ mpc.at = "idle" /\ orphans = {}
      /\ \A s \in Sessions : m_MapSessionConnInfo[s] = NoThread
      /\ \A t \in Threads, s \in Sessions : m_MapDeviceSessionInfo[t][s] = NoFd
  BY DEF Init, MainIdle
<1>2. \A t \in Threads : \A i \in DOMAIN m_queue_thread[t] :
        m_queue_thread[t][i].type = "LISTENER"
  <2>1. PICK l \in Threads :
            m_queue_thread = [t \in Threads |-> IF t = l THEN <<TaskListener>> ELSE <<>>]
    BY DEF Init
  <2>2. TaskListener.type = "LISTENER"
    BY DEF TaskListener, Task
  <2> QED
    BY <2>1, <2>2
<1>3. \A t \in Threads : m_queue_main[t] = << >>
  BY DEF Init
<1>4. \A t \in Threads, s \in Sessions :
        ~ Inserting(t, s) /\ ~ Deleting(t, s) /\ ~ Sending(t, s)
  BY <1>2, QueuedAt DEF Inserting, Deleting, Sending
<1>5. \A t \in Threads, s \in Sessions : ~ Ending(t, s) /\ ~ Reading(t, s)
  BY <1>3, QueuedAt DEF Ending, Reading
<1>6. \A t \in Threads, s \in Sessions : ~ HasDevice(t, s) /\ ~ Known(t, s)
  BY <1>1, ConstantAssumption DEF HasDevice, Known
<1>7. \A t \in Threads, s \in Sessions : ~ Linked(t, s)
  BY <1>4, <1>5, <1>6 DEF Linked
<1>8. \A s \in Sessions : ~ Adding(s) /\ ~ Dropping(s)
  BY <1>1 DEF Adding, Dropping
<1> QED
  BY <1>4, <1>5, <1>6, <1>7, <1>8
     DEF SessionInv, OneThread, NotYetEntered, KnownHasDevice, LeavingTold, DeleteTold,
         LiveKnown, EndIsLast, TasksKnown

FullInv == IInv /\ SessionInv

LEMMA FullInvariant == Spec => []FullInv
<1>1. Init => FullInv
  BY PressureInit, HolderInit, SessionInit DEF PressureInv, IInv, FullInv
<1>2. FullInv /\ [Next]_vars => FullInv'
  BY NextTyped, MapsStep, HolderStep, SessionStep DEF IInv, FullInv
<1> QED
  BY <1>1, <1>2, PTL DEF Spec

(* Whatever main knows of a session, something will end it or can be told  *)
(* to: no session stays in m_MapSessionConnInfo with its device gone and   *)
(* no notification under way (EpollHandler.cpp:209-216, 313-321).          *)
THEOREM SessionsCorrect == Spec => []SessionHasDevice
<1>1. FullInv => SessionHasDevice
  <2> SUFFICES ASSUME FullInv, NEW s \in Sessions, m_MapSessionConnInfo[s] # NoThread
               PROVE  LET t == m_MapSessionConnInfo[s] IN
                        \/ Inserting(t, s) \/ HasDevice(t, s) \/ Ending(t, s)
                        \/ Dropping(s) \/ connOf[s] \in orphans
    BY DEF SessionHasDevice, Inserting, HasDevice, Ending, Dropping
  <2>1. m_MapSessionConnInfo[s] \in Threads
    BY DEF FullInv, IInv, TypeOK, MainTypeOK
  <2> QED
    BY <2>1 DEF FullInv, SessionInv, KnownHasDevice, Known
<1> QED
  BY <1>1, FullInvariant, PTL

(* A device, or one on its way, stays within reach of main: main has or is *)
(* adding its session, or has told its thread to remove it                 *)
(* (ClientConnManager.cpp:29-40, EpollHandler.cpp:181-192).                *)
THEOREM DevicesReachable == Spec => []DeviceHasSession
<1>1. FullInv => DeviceHasSession
  BY DEF FullInv, SessionInv, LiveKnown, DeviceHasSession, Inserting, Deleting, HasDevice, Leaving
<1> QED
  BY <1>1, FullInvariant, PTL

(* A packet or a notification never comes to main before the session it is *)
(* for, although the worker hears of the session first                     *)
(* (task_clientConn.cpp:10-13).                                            *)
THEOREM TasksCorrect == Spec => []TaskFindsSession
<1>1. FullInv => TaskFindsSession
  BY DEF FullInv, SessionInv, TasksKnown, TaskFindsSession, Ending, Reading
<1> QED
  BY <1>1, FullInvariant, PTL

(* The end of a connection is notified at most once, after everything else *)
(* its device had to say, although reading, writing and EPOLLOUT all       *)
(* notify it (EpollHandler.cpp:209-216, 313-321).                          *)
THEOREM NotificationCorrect == Spec => []OneNotification
<1>1. FullInv => OneNotification
  <2> SUFFICES ASSUME FullInv, NEW t \in Threads, NEW s \in Sessions,
                      NEW i \in Positions(m_queue_main[t], "ONCLOSE", s)
               PROVE  /\ \A j \in (i + 1)..Len(m_queue_main[t]) :
                            m_queue_main[t][j].session_id # s
                      /\ HasDevice(t, s) => Leaving(t, s)
    BY DEF OneNotification, HasDevice, Leaving
  <2>1. Ending(t, s)
    BY DEF Ending, Queued
  <2>2. ~ TaskAfterEnd(t, s) /\ (HasDevice(t, s) => Leaving(t, s))
    BY <2>1 DEF FullInv, SessionInv, EndIsLast
  <2>3. DOMAIN m_queue_main[t] = 1..Len(m_queue_main[t]) /\ Len(m_queue_main[t]) \in Nat
    BY DEF FullInv, IInv, TypeOK, QueueTypeOK
  <2>4. i \in DOMAIN m_queue_main[t]
    BY DEF Positions
  <2> QED
    BY <2>2, <2>3, <2>4 DEF TaskAfterEnd
<1> QED
  BY <1>1, FullInvariant, PTL

-----------------------------------------------------------------------------
(* The service of module SessionService.  A step of it that begins or ends *)
(* a session needs that a connection has one session, and one that handles *)
(* a frame that the frame was sent.                                        *)

(* PACKET tasks of session s on their way from t. *)
Frames(t, s) == Cardinality(Positions(m_queue_main[t], "PACKET", s))

(* fd was accepted and has no session yet. *)
NoSessionYet(fd) ==
    \/ \E t \in Threads : wpc[t] = [at |-> "push", fd |-> fd]
    \/ \E t \in Threads, i \in Nat : ConnIn(t, i, fd)

OneSession ==
    /\ \A s \in Sessions : connOf[s] \in Conns <=> s < nextSession
    /\ \A r, s \in Sessions :
        connOf[r] \in Conns /\ connOf[r] = connOf[s] => r = s
    /\ \A s \in Sessions : connOf[s] \in Conns =>
        /\ sock[connOf[s]] \in {"open", "closed"}
        /\ \A fd \in Fds : NoSessionYet(fd) => file[fd] # connOf[s]

(* Frames of connection c that are in its socket. *)
Waiting(c) == inbound[c] + HeldFrames(c)

(* No frame is in two places: in the socket, in a task, or handled. *)
Counted ==
    /\ \A c \in Conns : handled[c] + Waiting(c) <= sent[c]
    /\ \A t \in Threads, s \in Sessions : connOf[s] \in Conns =>
        handled[connOf[s]] + Frames(t, s) + Waiting(connOf[s]) <= sent[connOf[s]]

ServiceInv == OneSession /\ Counted

LEMMA WaitingTyped ==
    ASSUME KernelTypeOK, NEW c \in Conns
    PROVE  Waiting(c) \in Nat
BY DEF Waiting, HeldFrames, KernelTypeOK

(* close() drops what waits, nothing else does but doRead(). *)
LEMMA WaitingStays ==
    ASSUME KernelTypeOK, UNCHANGED <<inbound, bare>> \/ \E fd : Close(fd)
    PROVE  \A c \in Conns : Waiting(c)' \in Nat /\ Waiting(c)' <= Waiting(c)
<1>1. ASSUME NEW c \in Conns
      PROVE  inbound'[c] \in {0, inbound[c]} /\ (c \in bare' => c \in bare)
  BY <1>1 DEF Close
<1>2. ASSUME NEW c \in Conns PROVE Waiting(c)' \in Nat /\ Waiting(c)' <= Waiting(c)
  BY <1>1, <1>2 DEF Waiting, HeldFrames, KernelTypeOK
<1> QED
  BY <1>2

(* The steps in which a thread reads, writes or fails to, and what they    *)
(* leave alone.                                                            *)
Attends(t) ==
    \/ ReadFrame(t) \/ ReadStops(t) \/ ReadFails(t)
    \/ \E fd \in Fds :
        ClientEvent(t, fd) \/ FlushSendBuffer(t, fd) \/ FlushFails(t, fd)

LEMMA Attended ==
    ASSUME TypeOK, RemovesDevice, NEW t \in Threads, Attends(t)
    PROVE  /\ UNCHANGED <<sock, bare, file, mainVars, ghostVars>>
           /\ ~ ReadFrame(t) => UNCHANGED inbound
           /\ \A u \in Threads : wpc'[u].at = "push" => wpc'[u] = wpc[u]
           /\ \/ UNCHANGED m_queue_main
              \/ \E z \in Sessions : push_task_main(t, TaskOnClose(z))
              \/ /\ ReadFrame(t)
                 /\ \E z \in Sessions : push_task_main(t, TaskPacket(z))
<1>0. wpc \in [Threads -> [at: {"idle", "accept"}, fd: {NoFd}]
                   \cup [at: {"push", "read", "remove", "erase", "unregister"}, fd: Fds]]
  BY DEF TypeOK, WorkerTypeOK
<1>1. CASE ReadFrame(t)
  BY <1>1, FrameRead DEF workerVars
<1>2. CASE (ReadFails(t) \/ \E fd \in Fds : FlushFails(t, fd)) /\ ~ ReadFrame(t)
  <2>1. DeviceLeft
    BY <1>2, EventFailed
  <2>2. PICK fd \in Fds : m_MapDeviceInfo[t][fd] \in Sessions /\ EventFails(t, fd)
    BY <1>2, EventFailed
  <2>3. \A u \in Threads : wpc'[u].at = "push" => wpc'[u] = wpc[u]
    BY <1>0, <2>2 DEF EventFails
  <2> QED
    BY <1>2, <2>1, <2>2, <2>3 DEF DeviceLeft, EventFails
<1>3. CASE /\ ReadStops(t) \/ \E fd \in Fds : ClientEvent(t, fd) \/ FlushSendBuffer(t, fd)
           /\ ~ ReadFrame(t)
  <2>1. DeviceLeft /\ UNCHANGED queueVars
    BY <1>3, EventReported
  <2>2. \/ wpc' = [wpc EXCEPT ![t] = WorkerIdle]
        \/ \E fd \in Fds : wpc' = [wpc EXCEPT ![t] = [at |-> "read", fd |-> fd]]
    BY <1>3, EventReported
  <2>3. \A u \in Threads : wpc'[u].at = "push" => wpc'[u] = wpc[u]
    BY <1>0, <2>2 DEF WorkerIdle
  <2> QED
    BY <1>3, <2>1, <2>3 DEF DeviceLeft, queueVars
<1> QED
  BY <1>1, <1>2, <1>3 DEF Attends

LEMMA FramesFinite ==
    ASSUME QueueTypeOK, NEW t \in Threads, NEW s
    PROVE  /\ Positions(m_queue_main[t], "PACKET", s) \subseteq Nat \ {0}
           /\ IsFiniteSet(Positions(m_queue_main[t], "PACKET", s))
           /\ Frames(t, s) \in Nat
<1>1. PICK n \in Nat : DOMAIN m_queue_main[t] = 1..n
  BY DEF QueueTypeOK
<1>2. Positions(m_queue_main[t], "PACKET", s) \in SUBSET (1..n)
  BY <1>1 DEF Positions
<1>3. IsFiniteSet(Positions(m_queue_main[t], "PACKET", s))
  <2>1. IsFiniteSet(1..n)
    BY FS_Interval
  <2> QED
    BY <1>2, <2>1, FS_Subset
<1> QED
  BY <1>2, <1>3, FS_CardinalityType DEF Frames

LEMMA FramesNone ==
    ASSUME QueueTypeOK, NEW t \in Threads, NEW s
    PROVE  /\ ~ Reading(t, s) => Frames(t, s) = 0
           /\ Reading(t, s) => Frames(t, s) >= 1
<1>1. IsFiniteSet(Positions(m_queue_main[t], "PACKET", s)) /\ Frames(t, s) \in Nat
  BY FramesFinite
<1>2. Frames(t, s) = 0 <=> Positions(m_queue_main[t], "PACKET", s) = {}
  BY <1>1, FS_EmptySet DEF Frames
<1> QED
  BY <1>1, <1>2 DEF Reading, Queued

LEMMA FramesTaken ==
    ASSUME QueueTypeOK, NEW t \in Threads, NEW y, TaskAtMain(t, y), TakeMainTask(t),
           NEW z, z = Head(m_queue_main[t]).session_id
    PROVE  \A u \in Threads, s \in Sessions :
            /\ Frames(u, s)' \in Nat
            /\ Frames(u, s)' <= Frames(u, s)
            /\ u = t /\ s = z /\ y = "PACKET" => Frames(u, s)' + 1 <= Frames(u, s)
<1>1. /\ 1 \in DOMAIN m_queue_main[t]
      /\ m_queue_main[t][1].type = y /\ m_queue_main[t][1].session_id = z
      /\ \A u \in Threads, i \in Nat :
           /\ i \in DOMAIN m_queue_main'[u] <=>
                   IF u = t THEN i # 0 /\ i + 1 \in DOMAIN m_queue_main[t]
                   ELSE i \in DOMAIN m_queue_main[u]
           /\ i \in DOMAIN m_queue_main'[u] => m_queue_main'[u][i] =
                   m_queue_main[u][IF u = t THEN i + 1 ELSE i]
  BY TakenFromMain
<1>2. m_queue_main' \in [Threads -> Seq(ToMainTasks)]
  BY TakeMainTaskTyped
<1>3. ASSUME NEW u \in Threads, NEW s \in Sessions, u # t
      PROVE  Frames(u, s)' = Frames(u, s)
  BY <1>3 DEF Frames, TakeMainTask, QueueTypeOK
<1>4. ASSUME NEW s \in Sessions
      PROVE  /\ Frames(t, s)' \in Nat
             /\ Frames(t, s)' <= Frames(t, s)
             /\ s = z /\ y = "PACKET" => Frames(t, s)' + 1 <= Frames(t, s)
  <2>1. PICK P : P = Positions(m_queue_main[t], "PACKET", s)
    OBVIOUS
  <2>2. PICK Q : Q = Positions(m_queue_main'[t], "PACKET", s)
    OBVIOUS
  <2>3. IsFiniteSet(P) /\ Frames(t, s) = Cardinality(P) /\ Frames(t, s)' = Cardinality(Q)
    BY <2>1, <2>2, FramesFinite DEF Frames
  <2>4. Q \subseteq Nat \ {0}
    BY <1>1, <1>2, <2>2 DEF Positions
  <2>5. \A i \in Q : i + 1 \in P \ {1}
    BY <1>1, <2>1, <2>2, <2>4 DEF Positions
  <2>6. s = z /\ y = "PACKET" => 1 \in P
    BY <1>1, <2>1 DEF Positions
  <2>7. /\ IsFiniteSet(P \ {1})
        /\ Cardinality(P \ {1}) = IF 1 \in P THEN Cardinality(P) - 1 ELSE Cardinality(P)
    BY <2>3, FS_RemoveElement
  <2>8. [i \in Q |-> i + 1] \in Injection(Q, P \ {1})
    BY <2>4, <2>5 DEF Injection, IsInjective
  <2>9. IsFiniteSet(Q) /\ Cardinality(Q) <= Cardinality(P \ {1})
    BY <2>7, <2>8, FS_Injection
  <2>10. Cardinality(Q) \in Nat /\ Cardinality(P) \in Nat
    BY <2>3, <2>9, FS_CardinalityType
  <2> QED
    BY <2>3, <2>6, <2>7, <2>9, <2>10
<1>5. \A u \in Threads, s \in Sessions : Frames(u, s) \in Nat
  BY FramesFinite
<1> QED
  BY <1>3, <1>4, <1>5

LEMMA FramesPushed ==
    ASSUME QueueTypeOK, NEW t \in Threads, NEW k \in ToMainTasks, push_task_main(t, k)
    PROVE  \A u \in Threads, s \in Sessions :
            Frames(u, s)' = IF u = t /\ k.type = "PACKET" /\ s = k.session_id
                            THEN Frames(u, s) + 1 ELSE Frames(u, s)
<1> DEFINE n == Len(m_queue_main[t]) + 1
<1>1. /\ n \in Nat /\ n \notin DOMAIN m_queue_main[t]
      /\ m_queue_main'[t][n] = k
      /\ \A u \in Threads, i \in Nat :
           /\ i \in DOMAIN m_queue_main'[u] <=>
                   i \in DOMAIN m_queue_main[u] \/ (u = t /\ i = n)
           /\ i \in DOMAIN m_queue_main[u] =>
                   m_queue_main'[u][i] = m_queue_main[u][i]
  BY PushedToMain
<1> HIDE DEF n
<1>2. m_queue_main' \in [Threads -> Seq(ToMainTasks)]
  BY PushMainTyped
<1>3. ASSUME NEW u \in Threads, NEW s \in Sessions, u # t
      PROVE  Frames(u, s)' = Frames(u, s)
  BY <1>3 DEF Frames, push_task_main, QueueTypeOK
<1>4. ASSUME NEW s \in Sessions
      PROVE  Frames(t, s)' = IF k.type = "PACKET" /\ s = k.session_id
                             THEN Frames(t, s) + 1 ELSE Frames(t, s)
  <2>1. PICK P : P = Positions(m_queue_main[t], "PACKET", s)
    OBVIOUS
  <2>2. PICK Q : Q = Positions(m_queue_main'[t], "PACKET", s)
    OBVIOUS
  <2>3. IsFiniteSet(P) /\ Frames(t, s) = Cardinality(P) /\ Frames(t, s)' = Cardinality(Q)
    BY <2>1, <2>2, FramesFinite DEF Frames
  <2>4. DOMAIN m_queue_main[t] \subseteq Nat /\ DOMAIN m_queue_main'[t] \subseteq Nat
    BY <1>2 DEF QueueTypeOK
  <2>5. DOMAIN m_queue_main'[t] = DOMAIN m_queue_main[t] \cup {n}
    BY <1>1, <2>4
  <2>6. n \notin P
    BY <1>1, <2>1 DEF Positions
  <2>7. Q = IF k.type = "PACKET" /\ s = k.session_id THEN P \cup {n} ELSE P
    BY <1>1, <2>1, <2>2, <2>4, <2>5 DEF Positions
  <2> QED
    BY <2>3, <2>6, <2>7, FS_AddElement
<1> QED
  BY <1>3, <1>4

(* A step that gives no connection a session: descriptors that wait for    *)
(* one have been waiting, or accept() has just returned them.              *)
SocksAge == \A c \in Conns :
    sock[c] \in {"open", "closed"} => sock'[c] \in {"open", "closed"}

StillWaiting == \A fd \in Fds : NoSessionYet(fd)' =>
    \/ NoSessionYet(fd) /\ file'[fd] = file[fd]
    \/ file'[fd] = NoConn
    \/ sock[file'[fd]] = "backlog"

LEMMA SessionsKept ==
    ASSUME OneSession, UNCHANGED <<connOf, nextSession>>, SocksAge, StillWaiting
    PROVE  OneSession'
<1>1. \A s \in Sessions : connOf[s] \in Conns =>
        /\ sock'[connOf[s]] \in {"open", "closed"}
        /\ \A fd \in Fds : NoSessionYet(fd)' => file'[fd] # connOf[s]
  BY ConstantAssumption DEF OneSession, SocksAge, StillWaiting
<1> QED
  BY <1>1 DEF OneSession

(* The same with the queues: a task with a descriptor may have been taken  *)
(* from the head of queue b, and no thread has accepted one.               *)
LEMMA NoneAccepted ==
    ASSUME OneSession, UNCHANGED <<connOf, nextSession>>, SocksAge,
           NEW b \in Owners, ConnsKept(b),
           \A t \in Threads : wpc'[t].at = "push" => wpc'[t] = wpc[t],
           \A fd \in Fds : file'[fd] \in {file[fd], NoConn}
    PROVE  OneSession'
<1>1. ASSUME NEW fd \in Fds, NoSessionYet(fd)' PROVE NoSessionYet(fd)
  <2>1. CASE \E t \in Threads : wpc'[t] = [at |-> "push", fd |-> fd]
    BY <2>1 DEF NoSessionYet
  <2>2. ASSUME NEW t \in Threads, NEW i \in Nat, ConnIn(t, i, fd)' PROVE NoSessionYet(fd)
    <3>1. ConnIn(t, i + Shift(t, b), fd) /\ i + Shift(t, b) \in Nat
      BY <2>2 DEF ConnsKept, Shift
    <3> QED
      BY <3>1 DEF NoSessionYet
  <2> QED
    BY <1>1, <2>1, <2>2 DEF NoSessionYet
<1>2. StillWaiting
  BY <1>1 DEF StillWaiting
<1> QED
  BY <1>2, SessionsKept

LEMMA WorkerOneSession ==
    ASSUME TypeOK, RemovesDevice, OneSession, NEW t \in Threads, WorkerStep(t)
    PROVE  OneSession'
<1> USE DEF TypeOK
<1>0. UNCHANGED <<connOf, nextSession>> /\ NoThread \in Owners /\ NoConn \notin Conns
  <2>1. CASE Attends(t)
    BY <2>1, Attended, ConstantAssumption DEF ghostVars, mainVars, Owners
  <2>2. CASE ~ Attends(t)
    BY <2>2, ConstantAssumption
       DEF WorkerStep, Attends, Worker, AddListener, AddClientConn, RegisterFailure,
           DelClientConn, WritePacket, WritePacketFails, CloseDevice, EraseDevice,
           AcceptEvent, Accept, PushConn, AcceptStops, ghostVars, mainVars, Owners
  <2> QED
    BY <2>1, <2>2
<1>1. CASE Accept(t)
  <2>1. PICK c \in Backlog, fd \in FreeFds :
            /\ sock' = [sock EXCEPT ![c] = "open"]
            /\ file' = [file EXCEPT ![fd] = c]
            /\ wpc' = [wpc EXCEPT ![t] = [at |-> "push", fd |-> fd]]
    BY <1>1 DEF Accept
  <2>2. c \in Conns /\ sock[c] = "backlog" /\ fd \in Fds
    BY DEF Backlog, FreeFds
  <2>3. SocksAge
    BY <2>1, <2>2 DEF SocksAge, KernelTypeOK
  <2>4. m_queue_main' = m_queue_main
    BY <1>1 DEF Accept, queueVars
  <2>5. ASSUME NEW g \in Fds, NoSessionYet(g)', g # fd PROVE NoSessionYet(g) /\ file'[g] = file[g]
    <3>1. \A u \in Threads : wpc'[u] = [at |-> "push", fd |-> g] =>
                wpc[u] = [at |-> "push", fd |-> g]
      BY <2>1, <2>5 DEF WorkerTypeOK
    <3> QED
      BY <2>1, <2>2, <2>4, <2>5, <3>1 DEF NoSessionYet, ConnIn, KernelTypeOK
  <2>6. file'[fd] = c
    BY <2>1, <2>2 DEF KernelTypeOK
  <2>7. StillWaiting
    BY <2>2, <2>5, <2>6 DEF StillWaiting
  <2> QED
    BY <1>0, <2>3, <2>7, SessionsKept
<1>2. CASE PushConn(t)
  <2>1. PICK f \in Fds : f = wpc[t].fd
    BY <1>2 DEF PushConn, WorkerTypeOK
  <2>2. /\ wpc[t] = [at |-> "push", fd |-> f]
        /\ push_task_main(t, TaskConn(f))
        /\ wpc' = [wpc EXCEPT ![t] = [at |-> "accept", fd |-> NoFd]]
        /\ UNCHANGED <<sock, file>>
    BY <1>2, <2>1 DEF PushConn, WorkerTypeOK, kernelVars
  <2>3. ASSUME NEW g \in Fds, NoSessionYet(g)' PROVE NoSessionYet(g)
    <3>1. CASE \E u \in Threads : wpc'[u] = [at |-> "push", fd |-> g]
      BY <2>2, <3>1 DEF NoSessionYet, WorkerTypeOK
    <3>2. ASSUME NEW u \in Threads, NEW i \in Nat, ConnIn(u, i, g)' PROVE NoSessionYet(g)
      <4>1. CASE i \in DOMAIN m_queue_main[u]
        <5>1. ConnIn(u, i, g)
          BY <2>2, <3>2, <4>1, TaskShapes, PushedToMain DEF ConnIn
        <5> QED
          BY <5>1 DEF NoSessionYet
      <4>2. CASE i \notin DOMAIN m_queue_main[u]
        <5>1. TaskConn(g) = TaskConn(f)
          BY <2>2, <3>2, <4>2, TaskShapes, PushedToMain DEF ConnIn
        <5>2. g = f
          BY <5>1 DEF TaskConn, Task
        <5> QED
          BY <2>2, <5>2 DEF NoSessionYet
      <4> QED
        BY <4>1, <4>2
    <3> QED
      BY <2>3, <3>1, <3>2 DEF NoSessionYet
  <2>4. SocksAge /\ StillWaiting
    BY <2>2, <2>3 DEF SocksAge, StillWaiting
  <2> QED
    BY <1>0, <2>4, SessionsKept
<1>3. CASE ~ Accept(t) /\ ~ PushConn(t)
  <2>1. ConnsKept(NoThread)
    <3>1. CASE WritePacketFails(t)
      <4> DEFINE s == Head(m_queue_thread[t]).session_id
      <4>1. s \in Sessions
        BY <3>1, TakeTaskTyped, ThreadTaskFields DEF WritePacketFails
      <4>2. TaskOnClose(s).type # "CLIENTCONN" /\ push_task_main(t, TaskOnClose(s))
        BY <3>1 DEF WritePacketFails, TaskOnClose, Task
      <4> QED
        BY <4>1, <4>2, TaskShapes, ConnsPushed
    <3>2. CASE Attends(t)
      <4>1. CASE UNCHANGED m_queue_main
        BY <4>1, QueuesUnchanged
      <4>2. ASSUME NEW z \in Sessions,
                   push_task_main(t, TaskOnClose(z)) \/ push_task_main(t, TaskPacket(z))
            PROVE  ConnsKept(NoThread)
        BY <4>2, TaskShapes, ConnsPushed DEF TaskOnClose, TaskPacket, Task
      <4> QED
        BY <3>2, <4>1, <4>2, Attended
    <3>3. CASE ~ WritePacketFails(t) /\ ~ Attends(t)
      <4>1. m_queue_main' = m_queue_main
        BY <1>3, <3>3
           DEF WorkerStep, Attends, Worker, AddListener, AddClientConn, RegisterFailure,
               DelClientConn, WritePacket, CloseDevice, EraseDevice, AcceptEvent,
               AcceptStops, queueVars
      <4> QED
        BY <4>1, QueuesUnchanged
    <3> QED
      BY <3>1, <3>2, <3>3
  <2>2. \A u \in Threads : wpc'[u].at = "push" => wpc'[u] = wpc[u]
    <3>1. CASE Attends(t)
      BY <3>1, Attended
    <3>2. CASE ~ Attends(t)
      <4>1. \/ wpc' = wpc
            \/ \E x : x.at # "push" /\ wpc' = [wpc EXCEPT ![t] = x]
            \/ wpc[t].at = "remove" /\ wpc' = [wpc EXCEPT ![t].at = "erase"]
            \/ wpc[t].at = "idle" /\ wpc' = [wpc EXCEPT ![t].at = "accept"]
        BY <1>3, <3>2
           DEF WorkerStep, Attends, Worker, AddListener, AddClientConn, RegisterFailure,
               DelClientConn, WritePacket, WritePacketFails, CloseDevice, EraseDevice,
               AcceptEvent, AcceptStops, workerVars, WorkerIdle
      <4> QED
        BY <4>1 DEF WorkerTypeOK
    <3> QED
      BY <3>1, <3>2
  <2>3. SocksAge /\ \A fd \in Fds : file'[fd] \in {file[fd], NoConn}
    <3>1. CASE Attends(t)
      BY <3>1, Attended DEF SocksAge
    <3>2. CASE ~ Attends(t)
      <4>1. UNCHANGED <<sock, file>> \/ \E fd : Close(fd)
        BY <1>3, <3>2
           DEF WorkerStep, Attends, Worker, AddListener, AddClientConn, RegisterFailure,
               DelClientConn, WritePacket, WritePacketFails, CloseDevice, EraseDevice,
               AcceptEvent, AcceptStops, kernelVars
      <4> QED
        BY <4>1 DEF Close, SocksAge, KernelTypeOK
    <3> QED
      BY <3>1, <3>2
  <2> QED
    BY <1>0, <2>1, <2>2, <2>3, NoneAccepted
<1> QED
  BY <1>1, <1>2, <1>3

LEMMA NewSessionOneSession ==
    ASSUME TypeOK, FilesOpen, OnePerFd, OneSession, NEW t \in Threads, NewSession(t)
    PROVE  OneSession'
<1> USE DEF TypeOK
<1>1. PICK f \in Fds : f = Head(m_queue_main[t]).fd
  BY TakeMainTaskTyped, MainTaskFields DEF NewSession
<1>2. /\ nextSession \in Sessions /\ nextSession' = nextSession + 1
      /\ connOf' = [connOf EXCEPT ![nextSession] = file[f]]
      /\ UNCHANGED <<sock, file, wpc>>
      /\ TaskAtMain(t, "CLIENTCONN") /\ TakeMainTask(t)
  BY <1>1 DEF NewSession, kernelVars, workerVars
<1>3. ConnsKept(t) /\ ConnIn(t, 1, f)
  BY <1>1, <1>2, ConnsTaken
<1>4. Held("CLIENTCONN", t, 1, f)
  BY <1>3 DEF Held
<1>5. file[f] # NoConn /\ file[f] \in Conns /\ sock[file[f]] = "open"
  BY <1>4 DEF OnePerFd, Kinds, Owners, FilesOpen, KernelTypeOK
<1>6. \A s \in Sessions : connOf[s] # file[f]
  BY <1>3, <1>5 DEF OneSession, NoSessionYet
<1>7. ASSUME NEW g \in Fds, NoSessionYet(g)' PROVE NoSessionYet(g) /\ g # f
  <2>1. ASSUME NEW u \in Threads, wpc[u] = [at |-> "push", fd |-> g] PROVE g # f
    BY <1>4, <2>1 DEF OnePerFd, Held, Kinds, Owners
  <2>2. ASSUME NEW u \in Threads, NEW i \in Nat, ConnIn(u, i, g)' PROVE NoSessionYet(g) /\ g # f
    <3>1. i # 0 /\ ConnIn(u, i + Shift(u, t), g) /\ i + Shift(u, t) \in Nat
      BY <1>3, <2>2 DEF ConnsKept, Shift
    <3>2. Held("CLIENTCONN", u, i + Shift(u, t), g)
      BY <3>1 DEF Held
    <3>3. g = f => u = t /\ i + Shift(u, t) = 1
      BY <1>4, <3>1, <3>2 DEF OnePerFd, Kinds, Owners
    <3> QED
      BY <3>1, <3>3 DEF NoSessionYet, Shift
  <2> QED
    BY <1>2, <1>7, <2>1, <2>2 DEF NoSessionYet
<1>8. \A g \in Fds : NoSessionYet(g)' => file[g] # file[f]
  BY <1>5, <1>7 DEF FilesOpen
<1>9. \A s \in Sessions : connOf'[s] = IF s = nextSession THEN file[f] ELSE connOf[s]
  BY <1>2 DEF GhostTypeOK
<1>10. \A s \in Sessions : connOf'[s] \in Conns <=> s < nextSession'
  <2>1. \A s \in Sessions : connOf[s] \in Conns <=> s < nextSession
    BY DEF OneSession
  <2> QED
    BY <1>2, <1>5, <1>9, <2>1 DEF Sessions
<1>11. \A r, s \in Sessions : connOf'[r] \in Conns /\ connOf'[r] = connOf'[s] => r = s
  BY <1>6, <1>9 DEF OneSession
<1>12. \A s \in Sessions : connOf'[s] \in Conns =>
        /\ sock'[connOf'[s]] \in {"open", "closed"}
        /\ \A g \in Fds : NoSessionYet(g)' => file'[g] # connOf'[s]
  BY <1>2, <1>5, <1>7, <1>8, <1>9 DEF OneSession
<1> QED
  BY <1>10, <1>11, <1>12 DEF OneSession

LEMMA OneSessionStep ==
    ASSUME TypeOK, RemovesDevice, HolderInv, OneSession, [Next]_vars
    PROVE  OneSession'
<1> USE DEF TypeOK
<1>1. ASSUME NEW t \in Threads, WorkerStep(t) PROVE OneSession'
  BY <1>1, WorkerOneSession
<1>2. ASSUME NEW t \in Threads, NewSession(t) PROVE OneSession'
  BY <1>2, NewSessionOneSession DEF HolderInv
<1>3. ASSUME UNCHANGED <<connOf, nextSession, file, wpc>>, SocksAge,
             NEW b \in Owners, ConnsKept(b)
      PROVE  OneSession'
  BY <1>3, NoneAccepted
<1>4. NoThread \in Owners /\ Threads \subseteq Owners
  BY DEF Owners
<1>5. CASE Client
  <2>1. SocksAge
    BY <1>5 DEF Client, Connect, ClientSend, ClientMore, ClientGone, SocksAge, KernelTypeOK
  <2>2. UNCHANGED <<connOf, nextSession, file, wpc, m_queue_main>>
    BY <1>5 DEF Client, Connect, ClientSend, ClientMore, ClientGone, kernelVars, workerVars,
                queueVars, mainVars, ghostVars
  <2> QED
    BY <1>3, <1>4, <2>1, <2>2, QueuesUnchanged
<1>6. ASSUME NEW t \in Threads, HandlePacket(t) \/ OnClose(t) PROVE OneSession'
  <2>1. UNCHANGED <<connOf, nextSession, file, wpc, sock>>
    BY <1>6 DEF HandlePacket, OnClose, kernelVars, workerVars, mainVars, ghostVars
  <2>2. ConnsKept(t)
    BY <1>6, ConnsTaken DEF HandlePacket, OnClose
  <2> QED
    BY <1>3, <1>4, <2>1, <2>2 DEF SocksAge
<1>7. CASE \/ \E t \in Threads : PushInsert(t)
           \/ AddNewConn \/ RemoveSessionConn \/ Application \/ UNCHANGED vars
  <2>1. UNCHANGED <<connOf, nextSession, file, wpc, sock, m_queue_main>>
    BY <1>7 DEF PushInsert, AddNewConn, RemoveSessionConn, Application, CloseConn,
       SendMsgToConn, vars, kernelVars, workerVars, queueVars, mainVars, ghostVars
  <2> QED
    BY <1>3, <1>4, <2>1, QueuesUnchanged DEF SocksAge
<1>8. ASSUME NEW t \in Threads, ReadPressure(t) \/ ComparePressure(t) PROVE OneSession'
  <2>1. UNCHANGED <<connOf, nextSession, file, wpc, sock, m_queue_main>>
    BY <1>8, Scanned DEF ScanGoesOn, kernelVars, workerVars, queueVars, ghostVars
  <2> QED
    BY <1>3, <1>4, <2>1, QueuesUnchanged DEF SocksAge
<1> QED
  BY <1>1, <1>2, <1>5, <1>6, <1>7, <1>8 DEF Next, MainTask, WorkerStep

(* A step that moves no frame but out of a task, or drops some. *)
LEMMA CountsStay ==
    ASSUME TypeOK, Counted, UNCHANGED <<handled, sent, connOf>>,
           UNCHANGED <<inbound, bare>> \/ \E fd : Close(fd),
           \A t \in Threads, s \in Sessions :
                Frames(t, s)' \in Nat /\ Frames(t, s)' <= Frames(t, s)
    PROVE  Counted'
<1>1. \A t \in Threads, s \in Sessions : Frames(t, s) \in Nat
  BY FramesFinite DEF TypeOK
<1>2. \A c \in Conns :
        /\ handled[c] \in Nat /\ sent[c] \in Nat
        /\ Waiting(c) \in Nat /\ Waiting(c)' \in Nat /\ Waiting(c)' <= Waiting(c)
  BY WaitingTyped, WaitingStays DEF TypeOK, GhostTypeOK
<1>3. ASSUME NEW t \in Threads, NEW s \in Sessions, NEW c \in Conns, c = connOf[s]
      PROVE  handled[c] + Frames(t, s)' + Waiting(c)' <= sent[c]
  <2>1. handled[c] + Frames(t, s) + Waiting(c) <= sent[c]
    BY <1>3 DEF Counted
  <2> QED
    BY <1>1, <1>2, <1>3, <2>1
<1>4. ASSUME NEW c \in Conns PROVE handled[c] + Waiting(c)' <= sent[c]
  <2>1. handled[c] + Waiting(c) <= sent[c]
    BY DEF Counted
  <2> QED
    BY <1>2, <2>1
<1> QED
  BY <1>3, <1>4 DEF Counted

LEMMA FramesSame ==
    ASSUME TypeOK, UNCHANGED m_queue_main
    PROVE  \A t \in Threads, s \in Sessions :
            /\ Frames(t, s)' \in Nat /\ Frames(t, s)' <= Frames(t, s)
            /\ Frames(t, s)' = Frames(t, s)
<1>1. \A t \in Threads, s \in Sessions : Frames(t, s) \in Nat
  BY FramesFinite DEF TypeOK
<1> QED
  BY <1>1 DEF Frames

LEMMA ReadFrameCounted ==
    ASSUME TypeOK, RemovesDevice, OnePerFd, SessionsMatch, OneSession, Counted,
           NEW t \in Threads, ReadFrame(t)
    PROVE  Counted'
<1> USE DEF TypeOK
<1>1. PICK fd \in Fds, z \in Sessions :
        /\ fd = wpc[t].fd /\ z = m_MapDeviceInfo[t][fd] /\ wpc[t].at = "read"
        /\ push_task_main(t, TaskPacket(z))
        /\ UNCHANGED <<bare, ghostVars>>
  BY FrameRead
<1>2. Held("device", t, 0, fd)
  BY <1>1 DEF Held, HasClosed, Sessions, NoSession
<1>3. PICK c \in Conns : c = file[fd]
  BY <1>2 DEF OnePerFd, Kinds, Owners, KernelTypeOK
<1>4. connOf[z] = c
  BY <1>1, <1>2, <1>3 DEF SessionsMatch
<1>5. /\ inbound[c] \in Nat /\ inbound[c] > 0
      /\ inbound' = [inbound EXCEPT ![c] = @ - 1]
      /\ UNCHANGED <<handled, sent, connOf>>
  BY <1>1, <1>3 DEF ReadFrame, KernelTypeOK, ghostVars
<1>6. \A u \in Threads, s \in Sessions :
        /\ Frames(u, s) \in Nat
        /\ Frames(u, s)' = IF u = t /\ s = z THEN Frames(u, s) + 1 ELSE Frames(u, s)
  <2>1. TaskPacket(z).type = "PACKET" /\ TaskPacket(z).session_id = z
    BY DEF TaskPacket, Task
  <2>2. TaskPacket(z) \in ToMainTasks
    BY TaskShapes
  <2> QED
    BY <1>1, <2>1, <2>2, FramesPushed, FramesFinite
<1>7. \A d \in Conns : /\ handled[d] \in Nat /\ Waiting(d) \in Nat /\ sent[d] \in Nat
                       /\ Waiting(d)' = IF d = c THEN Waiting(d) - 1 ELSE Waiting(d)
  BY <1>1, <1>5, WaitingTyped DEF GhostTypeOK, KernelTypeOK, Waiting, HeldFrames
<1>8. ASSUME NEW d \in Conns PROVE handled'[d] + Waiting(d)' <= sent'[d]
  <2>1. handled[d] + Waiting(d) <= sent[d]
    BY DEF Counted
  <2> QED
    BY <1>5, <1>7, <2>1
<1>9. ASSUME NEW u \in Threads, NEW s \in Sessions, NEW d \in Conns, d = connOf[s]
      PROVE  handled'[d] + Frames(u, s)' + Waiting(d)' <= sent'[d]
  <2>1. handled[d] + Frames(u, s) + Waiting(d) <= sent[d]
    BY <1>9 DEF Counted
  <2>2. d = c <=> s = z
    BY <1>4, <1>9 DEF OneSession
  <2>3. CASE s = z
    BY <1>5, <1>6, <1>7, <2>1, <2>2, <2>3
  <2>4. CASE s # z
    BY <1>5, <1>6, <1>7, <2>1, <2>2, <2>4
  <2> QED
    BY <2>3, <2>4
<1> QED
  BY <1>5, <1>8, <1>9 DEF Counted

(* The frame a task is for has been sent and not handled. *)
LEMMA PacketUnhandled ==
    ASSUME TypeOK, OneThread, OneSession, Counted, NEW t \in Threads, HandlePacket(t),
           NEW z \in Sessions, z = Head(m_queue_main[t]).session_id
    PROVE  /\ connOf[z] \in Conns
           /\ Frames(t, z) >= 1
           /\ \A u \in Threads : u # t => Frames(u, z) = 0
           /\ handled[connOf[z]] < sent[connOf[z]]
<1> USE DEF TypeOK
<1>1. Reading(t, z)
  BY TakenByMain DEF HandlePacket, Reading
<1>2. z < nextSession /\ \A u \in Threads : Linked(u, z) => u = t
  <2>1. Linked(t, z)
    BY <1>1 DEF Linked
  <2> QED
    BY <2>1 DEF OneThread
<1>3. connOf[z] \in Conns
  BY <1>2 DEF OneSession
<1>4. Frames(t, z) >= 1 /\ \A u \in Threads : u # t => Frames(u, z) = 0
  BY <1>1, <1>2, FramesNone DEF Linked
<1>5. handled[connOf[z]] + Frames(t, z) + Waiting(connOf[z]) <= sent[connOf[z]]
  BY <1>3 DEF Counted
<1>6. /\ handled[connOf[z]] \in Nat /\ Waiting(connOf[z]) \in Nat
      /\ sent[connOf[z]] \in Nat /\ Frames(t, z) \in Nat
  BY <1>3, FramesFinite, WaitingTyped DEF GhostTypeOK
<1> QED
  BY <1>3, <1>4, <1>5, <1>6

LEMMA HandlePacketCounted ==
    ASSUME TypeOK, OneThread, OneSession, Counted, NEW t \in Threads, HandlePacket(t)
    PROVE  Counted'
<1> USE DEF TypeOK
<1>1. PICK z \in Sessions : z = Head(m_queue_main[t]).session_id
  BY TakeMainTaskTyped, MainTaskFields DEF HandlePacket
<1>2. PICK c \in Conns : c = connOf[z]
  BY <1>1, PacketUnhandled
<1>3. /\ handled' = [handled EXCEPT ![c] = @ + 1]
      /\ UNCHANGED <<inbound, bare, sent, connOf>>
      /\ TaskAtMain(t, "PACKET") /\ TakeMainTask(t)
  BY <1>1, <1>2 DEF HandlePacket, kernelVars
<1>4. \A u \in Threads, s \in Sessions :
        /\ Frames(u, s) \in Nat /\ Frames(u, s)' \in Nat
        /\ Frames(u, s)' <= Frames(u, s)
        /\ u = t /\ s = z => Frames(u, s)' + 1 <= Frames(u, s)
        /\ u # t /\ s = z => Frames(u, s) = 0
        /\ Frames(t, z) >= 1
  BY <1>1, <1>3, FramesTaken, FramesFinite, PacketUnhandled
<1>5. \A d \in Conns : /\ handled[d] \in Nat /\ Waiting(d) \in Nat /\ sent[d] \in Nat
                       /\ Waiting(d)' = Waiting(d)
                       /\ handled'[d] = IF d = c THEN handled[d] + 1 ELSE handled[d]
  BY <1>3, WaitingTyped DEF GhostTypeOK, Waiting, HeldFrames
<1>6. handled[c] + Frames(t, z) + Waiting(c) <= sent[c]
  BY <1>2 DEF Counted
<1>7. ASSUME NEW d \in Conns PROVE handled'[d] + Waiting(d)' <= sent[d]
  <2>1. handled[d] + Waiting(d) <= sent[d]
    BY DEF Counted
  <2>2. CASE d = c
    BY <1>4, <1>5, <1>6, <2>1, <2>2
  <2>3. CASE d # c
    BY <1>5, <2>1, <2>3
  <2> QED
    BY <2>2, <2>3
<1>8. ASSUME NEW u \in Threads, NEW s \in Sessions, NEW d \in Conns, d = connOf[s]
      PROVE  handled'[d] + Frames(u, s)' + Waiting(d)' <= sent[d]
  <2>1. handled[d] + Frames(u, s) + Waiting(d) <= sent[d]
    BY <1>8 DEF Counted
  <2>2. d = c <=> s = z
    BY <1>2, <1>8 DEF OneSession
  <2>3. CASE s = z /\ u = t
    BY <1>4, <1>5, <2>1, <2>2, <2>3
  <2>4. CASE s = z /\ u # t
    BY <1>4, <1>5, <1>6, <2>1, <2>2, <2>4
  <2>5. CASE s # z
    BY <1>4, <1>5, <2>1, <2>2, <2>5
  <2> QED
    BY <2>3, <2>4, <2>5
<1> QED
  BY <1>3, <1>7, <1>8 DEF Counted

LEMMA NewSessionCounted ==
    ASSUME TypeOK, OneThread, OneSession, Counted, NEW t \in Threads, NewSession(t)
    PROVE  Counted'
<1> USE DEF TypeOK
<1>1. /\ TaskAtMain(t, "CLIENTCONN") /\ TakeMainTask(t)
      /\ nextSession \in Sessions /\ nextSession \in Nat
      /\ UNCHANGED <<handled, inbound, bare, sent>>
      /\ \A s \in Sessions : s # nextSession => connOf'[s] = connOf[s]
  BY DEF NewSession, kernelVars, GhostTypeOK, Sessions
<1>2. PICK z : z = Head(m_queue_main[t]).session_id
  OBVIOUS
<1>3. \A u \in Threads, s \in Sessions :
        Frames(u, s) \in Nat /\ Frames(u, s)' \in Nat /\ Frames(u, s)' <= Frames(u, s)
  BY <1>1, <1>2, FramesTaken, FramesFinite
<1>4. \A u \in Threads : Frames(u, nextSession) = 0
  <2>1. \A u \in Threads : ~ Reading(u, nextSession)
    BY <1>1 DEF OneThread, Linked
  <2> QED
    BY <2>1, FramesNone
<1>5. \A d \in Conns : /\ handled[d] \in Nat /\ Waiting(d) \in Nat /\ sent[d] \in Nat
                       /\ Waiting(d)' = Waiting(d)
  BY <1>1, WaitingTyped DEF GhostTypeOK, Waiting, HeldFrames
<1>6. ASSUME NEW u \in Threads, NEW s \in Sessions, NEW d \in Conns, d = connOf'[s]
      PROVE  handled[d] + Frames(u, s)' + Waiting(d)' <= sent[d]
  <2>1. CASE s = nextSession
    <3>1. Frames(u, s)' = 0
      BY <1>3, <1>4, <2>1
    <3>2. handled[d] + Waiting(d) <= sent[d]
      BY DEF Counted
    <3> QED
      BY <1>5, <3>1, <3>2
  <2>2. CASE s # nextSession
    <3>1. handled[d] + Frames(u, s) + Waiting(d) <= sent[d]
      BY <1>1, <1>6, <2>2 DEF Counted
    <3> QED
      BY <1>3, <1>5, <3>1
  <2> QED
    BY <2>1, <2>2
<1>7. ASSUME NEW d \in Conns PROVE handled[d] + Waiting(d)' <= sent[d]
  BY <1>5 DEF Counted
<1> QED
  BY <1>1, <1>6, <1>7 DEF Counted

LEMMA ClientSendCounted ==
    ASSUME TypeOK, Counted, NEW c \in Conns, ClientSend(c) \/ ClientMore(c)
    PROVE  Counted'
<1> USE DEF TypeOK
<1>1. /\ UNCHANGED <<handled, connOf, m_queue_main>>
      /\ \A d \in Conns :
            /\ handled[d] \in Nat /\ Waiting(d) \in Nat
            /\ Waiting(d)' \in Nat /\ sent[d] \in Nat
            /\ Waiting(d)' - Waiting(d) = sent'[d] - sent[d]
            /\ sent'[d] \in Nat
  <2>1. UNCHANGED <<handled, connOf, m_queue_main>>
    BY DEF ClientSend, ClientMore, queueVars, ghostVars
  <2>2. ASSUME NEW d \in Conns, d # c
        PROVE  Waiting(d)' = Waiting(d) /\ sent'[d] = sent[d]
    BY <2>2 DEF ClientSend, ClientMore, ghostVars, Waiting, HeldFrames, KernelTypeOK, GhostTypeOK
  <2>3. CASE ClientSend(c)
    <3>1. sent'[c] = sent[c] + 1
      BY <2>3 DEF ClientSend, GhostTypeOK
    <3>2. Waiting(c)' = Waiting(c) + 1
      <4>1. CASE inbound' = [inbound EXCEPT ![c] = @ + HeldFrames(c) + 1] /\ bare' = bare \ {c}
        BY <4>1 DEF Waiting, HeldFrames, KernelTypeOK
      <4>2. CASE inbound' = [inbound EXCEPT ![c] = @ + HeldFrames(c)] /\ bare' = bare \cup {c}
        BY <4>2 DEF Waiting, HeldFrames, KernelTypeOK
      <4> QED
        BY <2>3, <4>1, <4>2 DEF ClientSend
    <3>3. \A d \in Conns : handled[d] \in Nat /\ Waiting(d) \in Nat /\ sent[d] \in Nat
      BY WaitingTyped DEF GhostTypeOK
    <3> QED
      BY <2>1, <2>2, <3>1, <3>2, <3>3
  <2>4. CASE ClientMore(c)
    <3>1. sent'[c] = sent[c]
      BY <2>4 DEF ClientMore, ghostVars
    <3>2. Waiting(c)' = Waiting(c)
      BY <2>4 DEF ClientMore, Waiting, HeldFrames, KernelTypeOK
    <3>3. \A d \in Conns : handled[d] \in Nat /\ Waiting(d) \in Nat /\ sent[d] \in Nat
      BY WaitingTyped DEF GhostTypeOK
    <3> QED
      BY <2>1, <2>2, <3>1, <3>2, <3>3
  <2> QED
    BY <2>3, <2>4
<1>2. \A u \in Threads, s \in Sessions : Frames(u, s) \in Nat /\ Frames(u, s)' = Frames(u, s)
  BY <1>1, FramesSame, FramesFinite
<1>3. ASSUME NEW d \in Conns PROVE handled[d] + Waiting(d)' <= sent'[d]
  <2>1. handled[d] + Waiting(d) <= sent[d]
    BY DEF Counted
  <2> QED
    BY <1>1, <2>1
<1>4. ASSUME NEW u \in Threads, NEW s \in Sessions, NEW d \in Conns, d = connOf[s]
      PROVE  handled[d] + Frames(u, s)' + Waiting(d)' <= sent'[d]
  <2>1. handled[d] + Frames(u, s) + Waiting(d) <= sent[d]
    BY <1>4 DEF Counted
  <2> QED
    BY <1>1, <1>2, <2>1
<1> QED
  BY <1>1, <1>3, <1>4 DEF Counted

LEMMA CountedStep ==
    ASSUME TypeOK, RemovesDevice, HolderInv, SessionInv, OneSession, Counted, [Next]_vars
    PROVE  Counted'
<1> USE DEF TypeOK
<1>0. OnePerFd /\ SessionsMatch /\ OneThread
  BY DEF HolderInv, SessionInv
<1>1. CASE /\ UNCHANGED <<handled, sent, connOf, m_queue_main>>
           /\ UNCHANGED <<inbound, bare>> \/ \E fd : Close(fd)
  BY <1>1, FramesSame, CountsStay
<1>2. ASSUME NEW t \in Threads, ReadFrame(t) PROVE Counted'
  BY <1>0, <1>2, ReadFrameCounted
<1>3. ASSUME NEW t \in Threads, NewSession(t) PROVE Counted'
  BY <1>0, <1>3, NewSessionCounted
<1>4. ASSUME NEW t \in Threads, HandlePacket(t) PROVE Counted'
  BY <1>0, <1>4, HandlePacketCounted
<1>5. ASSUME NEW t \in Threads, OnClose(t) PROVE Counted'
  <2>1. PICK z : z = Head(m_queue_main[t]).session_id
    OBVIOUS
  <2>2. /\ TaskAtMain(t, "ONCLOSE") /\ TakeMainTask(t)
        /\ UNCHANGED <<handled, inbound, bare, sent, connOf>>
    BY <1>5 DEF OnClose, kernelVars, ghostVars
  <2>3. \A u \in Threads, s \in Sessions : Frames(u, s)' \in Nat /\ Frames(u, s)' <= Frames(u, s)
    BY <2>1, <2>2, FramesTaken
  <2> QED
    BY <2>2, <2>3, CountsStay
<1>6. ASSUME NEW t \in Threads, NEW k \in ToMainTasks, k.type # "PACKET", push_task_main(t, k),
             UNCHANGED <<handled, inbound, bare, sent, connOf>>
      PROVE  Counted'
  <2>1. \A u \in Threads, s \in Sessions : Frames(u, s)' = Frames(u, s) /\ Frames(u, s) \in Nat
    BY <1>6, FramesPushed, FramesFinite
  <2> QED
    BY <1>6, <2>1, CountsStay
<1>7. ASSUME NEW t \in Threads, PushConn(t) PROVE Counted'
  <2>1. PICK f \in Fds : f = wpc[t].fd
    BY <1>7 DEF PushConn, WorkerTypeOK
  <2>2. /\ push_task_main(t, TaskConn(f)) /\ TaskConn(f).type # "PACKET"
        /\ UNCHANGED <<handled, inbound, bare, sent, connOf>>
    BY <1>7, <2>1 DEF PushConn, TaskConn, Task, kernelVars, ghostVars
  <2> QED
    BY <1>6, <2>2, TaskShapes
<1>8. ASSUME NEW t \in Threads, WritePacketFails(t) PROVE Counted'
  <2>1. PICK z \in Sessions : z = Head(m_queue_thread[t]).session_id
    BY <1>8, TakeTaskTyped, ThreadTaskFields DEF WritePacketFails
  <2>2. /\ push_task_main(t, TaskOnClose(z)) /\ TaskOnClose(z).type # "PACKET"
        /\ UNCHANGED <<handled, inbound, bare, sent, connOf>>
    BY <1>8, <2>1 DEF WritePacketFails, TaskOnClose, Task, kernelVars, ghostVars
  <2> QED
    BY <1>6, <2>2, TaskShapes
<1>9. ASSUME NEW t \in Threads, Attends(t) PROVE Counted'
  <2>1. CASE ReadFrame(t)
    BY <1>2, <2>1
  <2>2. CASE ~ ReadFrame(t)
    <3>1. UNCHANGED <<handled, inbound, bare, sent, connOf>>
      BY <1>9, <2>2, Attended DEF ghostVars
    <3>2. ASSUME NEW z \in Sessions, push_task_main(t, TaskOnClose(z)) PROVE Counted'
      <4>1. TaskOnClose(z).type # "PACKET" /\ TaskOnClose(z) \in ToMainTasks
        BY TaskShapes DEF TaskOnClose, Task
      <4> QED
        BY <1>6, <3>1, <3>2, <4>1
    <3> QED
      BY <1>1, <1>9, <2>2, <3>1, <3>2, Attended
  <2> QED
    BY <2>1, <2>2
<1>10. ASSUME NEW t \in Threads,
              \/ AddListener(t) \/ AddClientConn(t) \/ RegisterFailure(t) \/ DelClientConn(t)
              \/ WritePacket(t) \/ CloseDevice(t) \/ EraseDevice(t) \/ AcceptEvent(t)
              \/ Accept(t) \/ AcceptStops(t)
       PROVE  Counted'
  <2>1. /\ UNCHANGED <<handled, sent, connOf, m_queue_main>>
        /\ UNCHANGED <<inbound, bare>> \/ \E fd : Close(fd)
    BY <1>10
       DEF AddListener, AddClientConn, RegisterFailure, DelClientConn, WritePacket,
           CloseDevice, EraseDevice, AcceptEvent, Accept, AcceptStops,
           kernelVars, queueVars, ghostVars
  <2> QED
    BY <1>1, <2>1
<1>11. ASSUME NEW t \in Threads, WorkerStep(t) PROVE Counted'
  BY <1>7, <1>8, <1>9, <1>10, <1>11 DEF WorkerStep, Worker, Attends
<1>12. CASE \/ \E c \in Conns : Connect(c) \/ ClientGone(c)
            \/ \E t \in Threads : PushInsert(t)
            \/ AddNewConn \/ RemoveSessionConn \/ Application \/ UNCHANGED vars
  <2>1. UNCHANGED <<handled, inbound, bare, sent, connOf, m_queue_main>>
    BY <1>12
       DEF Connect, ClientGone, PushInsert, AddNewConn, RemoveSessionConn, Application,
           CloseConn, SendMsgToConn, vars, kernelVars, queueVars, ghostVars
  <2> QED
    BY <1>1, <2>1
<1>13. ASSUME NEW c \in Conns, ClientSend(c) \/ ClientMore(c) PROVE Counted'
  BY <1>13, ClientSendCounted
<1>14. ASSUME NEW t \in Threads, ReadPressure(t) \/ ComparePressure(t) PROVE Counted'
  <2>1. UNCHANGED <<handled, inbound, bare, sent, connOf, m_queue_main>>
    BY <1>14, Scanned DEF ScanGoesOn, kernelVars, queueVars, ghostVars
  <2> QED
    BY <1>1, <2>1
<1> QED
  BY <1>3, <1>4, <1>5, <1>11, <1>12, <1>13, <1>14 DEF Next, MainTask, Client, WorkerStep

LEMMA ServiceInit == Init => ServiceInv
<1> SUFFICES ASSUME Init PROVE ServiceInv
  OBVIOUS
<1>1. /\ \A s \in Sessions : connOf[s] = NoConn /\ s >= 1
      /\ nextSession = 1
      /\ \A c \in Conns : handled[c] = 0 /\ Waiting(c) = 0 /\ sent[c] = 0
  BY DEF Init, Sessions, Waiting, HeldFrames
<1>2. OneSession
  BY <1>1, ConstantAssumption DEF OneSession, Sessions
<1>3. Counted
  BY <1>1, ConstantAssumption DEF Counted
<1> QED
  BY <1>2, <1>3 DEF ServiceInv

LEMMA PhaseBySession ==
    ASSUME OneSession, NEW s \in Sessions, connOf[s] \in Conns
    PROVE  Phase(connOf[s]) = IF m_MapSessionConnInfo[s] # NoThread THEN "live"
                              ELSE IF Adding(s) THEN "none"
                              ELSE IF s \in serverClosed THEN "closed" ELSE "ended"
<1>1. SessionsOf(connOf[s]) = {s}
  BY DEF SessionsOf, OneSession
<1> QED
  BY <1>1 DEF Phase

LEMMA PhaseWithout ==
    ASSUME NEW c \in Conns, \A s \in Sessions : connOf[s] # c
    PROVE  Phase(c) = "none"
<1>1. SessionsOf(c) = {}
  BY DEF SessionsOf
<1> QED
  BY <1>1 DEF Phase

(* Phases, and what a step that touches only session z does to them. *)
Others(z) ==
    \A s \in Sessions : s # z =>
        /\ connOf'[s] = connOf[s]
        /\ m_MapSessionConnInfo'[s] = m_MapSessionConnInfo[s]
        /\ Adding(s)' <=> Adding(s)
        /\ s \in serverClosed' <=> s \in serverClosed

LEMMA OtherPhases ==
    ASSUME OneSession, OneSession', NEW z, Others(z),
           NEW c \in Conns, z \in Sessions => connOf[z] # c /\ connOf'[z] # c
    PROVE  Phase(c)' = Phase(c)
<1>1. CASE \E s \in Sessions : connOf[s] = c
  <2>1. PICK s \in Sessions : connOf[s] = c
    BY <1>1
  <2>2. /\ connOf'[s] = c /\ m_MapSessionConnInfo'[s] = m_MapSessionConnInfo[s]
        /\ Adding(s)' <=> Adding(s)
        /\ s \in serverClosed' <=> s \in serverClosed
    BY <2>1 DEF Others
  <2>3. SessionsOf(c) = {s} /\ SessionsOf(c)' = {s}
    BY <2>1, <2>2 DEF SessionsOf, OneSession
  <2> QED
    BY <2>2, <2>3 DEF Phase
<1>2. CASE \A s \in Sessions : connOf[s] # c
  <2>1. \A s \in Sessions : connOf'[s] # c
    BY <1>2 DEF Others
  <2>2. SessionsOf(c) = {} /\ SessionsOf(c)' = {}
    BY <1>2, <2>1 DEF SessionsOf
  <2> QED
    BY <2>2 DEF Phase
<1> QED
  BY <1>1, <1>2

LEMMA PhasesSame ==
    ASSUME OneSession, OneSession', UNCHANGED <<connOf, serverClosed, m_MapSessionConnInfo>>,
           \A s \in Sessions : Adding(s)' <=> Adding(s)
    PROVE  \A c \in Conns : Phase(c)' = Phase(c)
<1>1. Others(NoSession) /\ NoSession \notin Sessions
  BY DEF Others, NoSession, Sessions
<1> QED
  BY <1>1, OtherPhases

(* Steps that the application does not see. *)
LEMMA Unseen ==
    ASSUME \A c \in Conns : Phase(c)' = Phase(c), UNCHANGED <<sent, handled>>
    PROVE  UNCHANGED Service!serviceVars
BY DEF Service!serviceVars

LEMMA UnseenSteps ==
    ASSUME OneSession, OneSession',
           UNCHANGED <<sent, handled, connOf, serverClosed, m_MapSessionConnInfo>>,
           \A s \in Sessions : Adding(s)' <=> Adding(s)
    PROVE  UNCHANGED Service!serviceVars
BY PhasesSame, Unseen

(* addNewConn() begins the session of a connection that has none yet. *)
LEMMA AddNewConnBegins ==
    ASSUME TypeOK, SessionInv, OneSession, OneSession', AddNewConn
    PROVE  \E c \in Conns : Service!Begin(c)
<1> USE DEF TypeOK
<1>1. PICK z \in Sessions : z = mpc.session
  BY DEF AddNewConn, MainTypeOK, MainIdle, Scan
<1>2. PICK t \in Threads : t = mpc.thread
  BY DEF AddNewConn, MainTypeOK, MainIdle, Scan
<1>3. z < nextSession
  <2>1. Linked(t, z)
    BY <1>1, <1>2 DEF AddNewConn, Linked, Known
  <2> QED
    BY <2>1 DEF SessionInv, OneThread
<1>4. PICK c \in Conns : c = connOf[z]
  BY <1>3 DEF OneSession
<1>5. Adding(z) /\ m_MapSessionConnInfo[z] = NoThread
  BY <1>1 DEF AddNewConn, Adding, SessionInv, NotYetEntered
<1>6. /\ m_MapSessionConnInfo' = [m_MapSessionConnInfo EXCEPT ![z] = t]
      /\ mpc'.at = "idle" /\ UNCHANGED <<connOf, serverClosed, sent, handled>>
  BY <1>1, <1>2, <1>5 DEF AddNewConn, MainIdle, ghostVars
<1>7. Others(z)
  BY <1>1, <1>6 DEF Others, Adding, MainTypeOK
<1>8. m_MapSessionConnInfo'[z] # NoThread
  BY <1>6, ConstantAssumption DEF MainTypeOK
<1>9. Phase(c) = "none"
  BY <1>4, <1>5, PhaseBySession
<1>10. Phase(c)' = "live"
  <2>1. SessionsOf(c)' = {z}
    BY <1>4, <1>6 DEF SessionsOf, OneSession
  <2> QED
    BY <1>8, <2>1 DEF Phase
<1>11. \A d \in Conns : d # c => Phase(d)' = Phase(d)
  BY <1>4, <1>6, <1>7, OtherPhases
<1>12. [d \in Conns |-> Phase(d)'] = [[d \in Conns |-> Phase(d)] EXCEPT ![c] = "live"]
  BY <1>10, <1>11
<1> QED
  BY <1>6, <1>9, <1>12 DEF Service!Begin

(* removeSessionConn(), whoever calls it, ends the session of a connection *)
(* that has one, and does nothing to any other.                            *)
LEMMA SessionEnds ==
    ASSUME TypeOK, OneThread, OneSession, OneSession', NEW z \in Sessions,
           m_MapSessionConnInfo' = [m_MapSessionConnInfo EXCEPT ![z] = NoThread],
           \A s \in Sessions : ~ Adding(s) /\ ~ Adding(s)',
           UNCHANGED <<connOf, serverClosed, sent, handled>>
    PROVE  [Service!Next]_(Service!serviceVars)
<1> USE DEF TypeOK
<1>1. Others(z)
  BY DEF Others, MainTypeOK
<1>2. CASE m_MapSessionConnInfo[z] = NoThread
  <2>1. m_MapSessionConnInfo' = m_MapSessionConnInfo
    BY <1>2 DEF MainTypeOK
  <2> QED
    BY <2>1, UnseenSteps
<1>3. CASE m_MapSessionConnInfo[z] # NoThread
  <2>1. z < nextSession
    <3>1. Linked(m_MapSessionConnInfo[z], z) /\ m_MapSessionConnInfo[z] \in Threads
      BY <1>3 DEF Linked, Known, MainTypeOK
    <3> QED
      BY <3>1 DEF OneThread
  <2>2. PICK c \in Conns : c = connOf[z]
    BY <2>1 DEF OneSession
  <2>3. m_MapSessionConnInfo'[z] = NoThread
    BY DEF MainTypeOK
  <2>4. Phase(c) = "live"
    BY <1>3, <2>2, PhaseBySession
  <2>5. Phase(c)' \in {"closed", "ended"}
    <3>1. SessionsOf(c)' = {z}
      BY <2>2 DEF SessionsOf, OneSession
    <3> QED
      BY <2>3, <3>1 DEF Phase
  <2>6. \A d \in Conns : d # c => Phase(d)' = Phase(d)
    BY <1>1, <2>2, OtherPhases
  <2>7. [d \in Conns |-> Phase(d)'] \in
            {[[d \in Conns |-> Phase(d)] EXCEPT ![c] = "closed"],
             [[d \in Conns |-> Phase(d)] EXCEPT ![c] = "ended"]}
    BY <2>5, <2>6
  <2>8. Service!End(c)
    BY <2>4, <2>7 DEF Service!End
  <2> QED
    BY <2>8 DEF Service!Next
<1> QED
  BY <1>2, <1>3

LEMMA NewSessionUnseen ==
    ASSUME TypeOK, SessionInv, OneSession, OneSession', NEW t \in Threads, NewSession(t)
    PROVE  UNCHANGED Service!serviceVars
<1> USE DEF TypeOK
<1>1. PICK z \in Sessions : z = nextSession
  BY DEF NewSession
<1>2. /\ mpc.at = "idle" /\ mpc'.at = "scan" /\ mpc'.session = z
      /\ \A s \in Sessions : s # z => connOf'[s] = connOf[s]
      /\ nextSession' = z + 1
      /\ UNCHANGED <<m_MapSessionConnInfo, serverClosed, sent, handled>>
  BY <1>1 DEF NewSession, TaskAtMain, MainIdle, GhostTypeOK
<1>3. Others(z) /\ Adding(z)'
  BY <1>2 DEF Others, Adding
<1>4. m_MapSessionConnInfo[z] = NoThread
  <2>1. ASSUME NEW u \in Threads PROVE m_MapSessionConnInfo[z] # u
    <3>1. m_MapSessionConnInfo[z] = u => Linked(u, z)
      BY DEF Linked, Known
    <3> QED
      BY <1>1, <3>1 DEF SessionInv, OneThread, Sessions
  <2> QED
    BY <2>1 DEF MainTypeOK
<1>5. connOf[z] \notin Conns
  BY <1>1 DEF OneSession, Sessions
<1>6. PICK c \in Conns : c = connOf'[z]
  BY <1>1, <1>2 DEF OneSession, Sessions
<1>7. Phase(c) = "none"
  <2>1. ASSUME NEW s \in Sessions, connOf[s] = c PROVE FALSE
    <3>1. s # z /\ connOf'[s] = connOf'[z] /\ connOf'[s] \in Conns
      BY <1>2, <1>5, <1>6, <2>1
    <3> QED
      BY <3>1 DEF OneSession
  <2> QED
    BY <2>1, PhaseWithout
<1>8. Phase(c)' = "none"
  <2>1. SessionsOf(c)' = {z}
    BY <1>6 DEF SessionsOf, OneSession
  <2> QED
    BY <1>2, <1>3, <1>4, <2>1 DEF Phase
<1>9. \A d \in Conns : d # c => Phase(d)' = Phase(d)
  BY <1>3, <1>5, <1>6, OtherPhases
<1> QED
  BY <1>2, <1>7, <1>8, <1>9, Unseen

(* A message is handled for a session that main has or closed itself, and  *)
(* was sent and not handled before.                                        *)
LEMMA HandlePacketHandles ==
    ASSUME TypeOK, SessionInv, OneSession, OneSession', Counted, NEW t \in Threads, HandlePacket(t)
    PROVE  \E c \in Conns : Service!Handle(c)
<1> USE DEF TypeOK
<1>1. PICK z \in Sessions : z = Head(m_queue_main[t]).session_id
  BY TakeMainTaskTyped, MainTaskFields DEF HandlePacket
<1>2. PICK c \in Conns : c = connOf[z] /\ handled[c] < sent[c]
  BY <1>1, PacketUnhandled DEF SessionInv
<1>3. /\ UNCHANGED <<sent, connOf, serverClosed, mpc, m_MapSessionConnInfo>>
      /\ handled' = [handled EXCEPT ![c] = @ + 1]
  BY <1>1, <1>2 DEF HandlePacket, mainVars
<1>4. m_MapSessionConnInfo[z] # NoThread \/ z \in serverClosed
  <2>1. Reading(t, z)
    BY <1>1, TakenByMain DEF HandlePacket, Reading
  <2>2. ~ Adding(z)
    BY DEF HandlePacket, TaskAtMain, Adding
  <2> QED
    BY <2>1, <2>2, ConstantAssumption DEF SessionInv, TasksKnown
<1>5. Phase(c) \in {"live", "closed"}
  <2>1. ~ Adding(z)
    BY DEF HandlePacket, TaskAtMain, Adding
  <2> QED
    BY <1>2, <1>4, <2>1, PhaseBySession
<1>6. \A d \in Conns : Phase(d)' = Phase(d)
  BY <1>3, PhasesSame DEF Adding
<1> QED
  BY <1>2, <1>3, <1>5, <1>6 DEF Service!Handle

(* closeConn() before its second step: main still has the session. *)
LEMMA CloseConnUnseen ==
    ASSUME TypeOK, OneSession, OneSession', NEW z \in Sessions, CloseConn(z)
    PROVE  UNCHANGED Service!serviceVars
<1>1. /\ UNCHANGED <<sent, handled, connOf, m_MapSessionConnInfo>>
      /\ mpc.at = "idle" /\ mpc'.at = "remove" /\ m_MapSessionConnInfo[z] # NoThread
      /\ serverClosed' = serverClosed \cup {z}
  BY DEF CloseConn, MainIdle
<1>2. Others(z)
  BY <1>1 DEF Others, Adding
<1>3. ASSUME NEW c \in Conns, c # connOf[z] PROVE Phase(c)' = Phase(c)
  BY <1>1, <1>2, <1>3, OtherPhases
<1>4. ASSUME NEW c \in Conns, c = connOf[z] PROVE Phase(c)' = Phase(c)
  <2>1. SessionsOf(c) = {z} /\ SessionsOf(c)' = {z}
    BY <1>1, <1>4 DEF SessionsOf, OneSession
  <2> QED
    BY <1>1, <2>1 DEF Phase
<1> QED
  BY <1>1, <1>3, <1>4, Unseen

LEMMA ServiceStep ==
    ASSUME TypeOK, RemovesDevice, SessionInv, OneSession, OneSession', Counted, [Next]_vars
    PROVE  [Service!Next]_(Service!serviceVars)
<1> USE DEF TypeOK
<1>0. OneThread
  BY DEF SessionInv
<1>1. ASSUME UNCHANGED <<sent, handled, connOf, serverClosed, m_MapSessionConnInfo>>,
             \/ UNCHANGED mpc
             \/ mpc'.at = mpc.at /\ mpc'.session = mpc.session
             \/ mpc'.session = mpc.session /\ {mpc.at, mpc'.at} = {"scan", "add"}
             \/ mpc.at = "idle" /\ mpc'.at = "remove"
      PROVE  UNCHANGED Service!serviceVars
  <2>1. \A s \in Sessions : Adding(s)' <=> Adding(s)
    BY <1>1 DEF Adding
  <2> QED
    BY <1>1, <2>1, UnseenSteps
<1>2. ASSUME NEW t \in Threads, WorkerStep(t) PROVE UNCHANGED Service!serviceVars
  <2>1. UNCHANGED <<sent, handled, connOf, serverClosed, m_MapSessionConnInfo, mpc>>
    <3>1. CASE Attends(t)
      BY <3>1, Attended DEF ghostVars, mainVars
    <3>2. CASE ~ Attends(t)
      BY <1>2, <3>2
         DEF WorkerStep, Attends, Worker, AddListener, AddClientConn, RegisterFailure,
             DelClientConn, WritePacket, WritePacketFails, CloseDevice, EraseDevice,
             AcceptEvent, Accept, PushConn, AcceptStops, ghostVars, mainVars
    <3> QED
      BY <3>1, <3>2
  <2> QED
    BY <1>1, <2>1
<1>3. ASSUME NEW c \in Conns, ClientSend(c) PROVE Service!Send(c)
  <2>1. /\ UNCHANGED <<handled, connOf, serverClosed, m_MapSessionConnInfo, mpc>>
        /\ sent' = [sent EXCEPT ![c] = @ + 1]
    BY <1>3 DEF ClientSend, mainVars
  <2>2. \A d \in Conns : Phase(d)' = Phase(d)
    BY <2>1, PhasesSame DEF Adding
  <2> QED
    BY <2>1, <2>2 DEF Service!Send
<1>4. ASSUME NEW c \in Conns, Connect(c) \/ ClientMore(c) \/ ClientGone(c)
      PROVE  UNCHANGED Service!serviceVars
  <2>1. UNCHANGED <<sent, handled, connOf, serverClosed, m_MapSessionConnInfo, mpc>>
    BY <1>4 DEF Connect, ClientMore, ClientGone, ghostVars, mainVars
  <2> QED
    BY <1>1, <2>1
<1>5. ASSUME NEW t \in Threads, ReadPressure(t) \/ ComparePressure(t)
      PROVE  UNCHANGED Service!serviceVars
  <2>1. /\ UNCHANGED <<sent, handled, connOf, serverClosed, m_MapSessionConnInfo>>
        /\ mpc'.at = mpc.at /\ mpc'.session = mpc.session
    BY <1>5, Scanned DEF ScanGoesOn, ghostVars
  <2> QED
    BY <1>1, <2>1
<1>6. ASSUME NEW t \in Threads, PushInsert(t) PROVE UNCHANGED Service!serviceVars
  <2>1. /\ UNCHANGED <<sent, handled, connOf, serverClosed, m_MapSessionConnInfo>>
        /\ mpc'.session = mpc.session /\ mpc.at = "scan" /\ mpc'.at = "add"
    BY <1>6 DEF PushInsert, ghostVars, MainIdle
  <2> QED
    BY <1>1, <2>1
<1>7. ASSUME NEW t \in Threads, OnClose(t) PROVE [Service!Next]_(Service!serviceVars)
  <2>1. PICK z \in Sessions : z = Head(m_queue_main[t]).session_id
    BY <1>7, TakeMainTaskTyped, MainTaskFields DEF OnClose
  <2>2. /\ mpc.at = "idle" /\ mpc' = mpc /\ UNCHANGED <<sent, handled, connOf, serverClosed>>
        /\ m_MapSessionConnInfo' = [m_MapSessionConnInfo EXCEPT ![z] = NoThread]
    BY <1>7, <2>1 DEF OnClose, TaskAtMain, ghostVars
  <2>3. \A s \in Sessions : ~ Adding(s) /\ ~ Adding(s)'
    BY <2>2 DEF Adding
  <2> QED
    BY <1>0, <2>2, <2>3, SessionEnds
<1>8. CASE RemoveSessionConn
  <2>1. PICK z \in Sessions : z = mpc.session
    BY <1>8 DEF RemoveSessionConn, MainTypeOK, MainIdle, Scan
  <2>2. /\ mpc.at = "remove" /\ mpc'.at = "idle" /\ UNCHANGED <<sent, handled, connOf, serverClosed>>
        /\ m_MapSessionConnInfo' = [m_MapSessionConnInfo EXCEPT ![z] = NoThread]
    BY <1>8, <2>1 DEF RemoveSessionConn, MainIdle, ghostVars
  <2>3. \A s \in Sessions : ~ Adding(s) /\ ~ Adding(s)'
    BY <2>2 DEF Adding
  <2> QED
    BY <1>0, <2>2, <2>3, SessionEnds
<1>9. CASE AddNewConn
  BY <1>9, AddNewConnBegins DEF Service!Next
<1>10. ASSUME NEW s \in Sessions, CloseConn(s) PROVE UNCHANGED Service!serviceVars
  BY <1>10, CloseConnUnseen
<1>11. ASSUME NEW s \in Sessions, SendMsgToConn(s) PROVE UNCHANGED Service!serviceVars
  <2>1. UNCHANGED <<sent, handled, connOf, serverClosed, m_MapSessionConnInfo, mpc>>
    BY <1>11 DEF SendMsgToConn, ghostVars
  <2> QED
    BY <1>1, <2>1
<1>12. CASE UNCHANGED vars
  <2>1. UNCHANGED <<sent, handled, connOf, serverClosed, m_MapSessionConnInfo, mpc>>
    BY <1>12 DEF vars, ghostVars, mainVars
  <2> QED
    BY <1>1, <2>1
<1>13. ASSUME NEW t \in Threads, NewSession(t) PROVE UNCHANGED Service!serviceVars
  BY <1>13, NewSessionUnseen
<1>14. ASSUME NEW t \in Threads, HandlePacket(t) PROVE [Service!Next]_(Service!serviceVars)
  BY <1>14, HandlePacketHandles DEF Service!Next
<1>15. CASE Client
  BY <1>3, <1>4, <1>15 DEF Client, Service!Next
<1>16. CASE MainTask
  BY <1>5, <1>6, <1>7, <1>8, <1>9, <1>13, <1>14, <1>16 DEF MainTask
<1>17. CASE Application
  BY <1>10, <1>11, <1>17 DEF Application
<1> QED
  BY <1>2, <1>12, <1>15, <1>16, <1>17 DEF Next, WorkerStep

(* The threads together offer the application the service of module        *)
(* SessionService: one session per connection, which ends for good, no     *)
(* frame before its begin, twice, or that was not sent, and none after its *)
(* end but for a session the server closed itself - although main handles  *)
(* a packet without looking its session up (MessageHandler.cpp:15-61) -    *)
(* for any number of threads, descriptors, clients and sessions.           *)
THEOREM ServiceCorrect == Spec => ImplementsSessionService
<1> DEFINE Inv == FullInv /\ ServiceInv
<1>1. Init => Inv
  BY PressureInit, HolderInit, SessionInit, ServiceInit DEF PressureInv, IInv, FullInv
<1>2. Inv /\ [Next]_vars => Inv'
  <2> SUFFICES ASSUME Inv, [Next]_vars PROVE Inv'
    OBVIOUS
  <2>1. TypeOK /\ MapsAgree /\ RemovesDevice /\ HolderInv /\ SessionInv /\ OneSession /\ Counted
    BY DEF FullInv, IInv, ServiceInv
  <2>2. TypeOK' /\ MapsAgree' /\ RemovesDevice' /\ HolderInv' /\ SessionInv'
    BY <2>1, NextTyped, MapsStep, HolderStep, SessionStep
  <2>3. OneSession' /\ Counted'
    BY <2>1, OneSessionStep, CountedStep
  <2> QED
    BY <2>2, <2>3 DEF FullInv, IInv, ServiceInv
<1>3. Init => Service!Init
  <2> SUFFICES ASSUME Init PROVE Service!Init
    OBVIOUS
  <2>1. \A c \in Conns, s \in Sessions : connOf[s] # c
    BY ConstantAssumption DEF Init
  <2>2. \A c \in Conns : Phase(c) = "none"
    BY <2>1, PhaseWithout
  <2> QED
    BY <2>2 DEF Init, Service!Init
<1>4. Inv /\ Inv' /\ [Next]_vars => [Service!Next]_(Service!serviceVars)
  BY ServiceStep DEF FullInv, IInv, ServiceInv
<1> QED
  BY <1>1, <1>2, <1>3, <1>4, PTL DEF Spec, ImplementsSessionService, Service!Spec

=============================================================================
