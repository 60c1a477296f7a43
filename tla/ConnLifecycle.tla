--------------------------- MODULE ConnLifecycle ----------------------------
(***************************************************************************)
(* The life of a client connection across the threads of the server:       *)
(* oryx/EpollHandler.cpp (one per worker thread), oryx/ClientConnManager   *)
(* and oryx/ThreadManager (main thread), and the tasks of src/task that    *)
(* they exchange.  A listening worker accepts a socket, the main thread    *)
(* gives it a session and hands it to the worker with the least pressure,  *)
(* that worker registers a device, reads and writes, and either end may    *)
(* close at any time.                                                      *)
(*                                                                         *)
(* The task queues are first-in first-out (module SpscQueue); the way of a *)
(* task back to its creator is in module ThreadTasks.  A step ends where   *)
(* another thread or the kernel can see the difference: what a handler     *)
(* does to the maps of its own thread is one step with the last such       *)
(* effect before it.                                                       *)
(***************************************************************************)
EXTENDS Integers, Sequences, FiniteSets, Functions, SequencesExt

CONSTANTS
    Threads,        \* the worker threads (4 in ThreadManager::init)
    Fds,            \* the descriptors accept() can return
    Conns,          \* TCP connections clients make; each is made once
    NoThread, NoFd, NoConn,
    MaxSessions,    \* bound: how many session ids getRandNewSession gives
    MaxFrames,      \* bound: frames a client sends on one connection
    MaxSends,       \* bound: calls of sendMsgToConn()
    RegisterFails,  \* TRUE: epoll_ctl(EPOLL_CTL_ADD) may fail
    InitialPressures \* what m_pressure may hold: no constructor sets it

ASSUME ConstantAssumption ==
    /\ NoThread \notin Threads
    /\ NoFd \notin Fds
    /\ NoConn \notin Conns
    /\ IsFiniteSet(Fds)
ASSUME BoundAssumption ==
    /\ MaxSessions \in Nat \ {0}
    /\ MaxFrames \in Nat
    /\ MaxSends \in Nat
    /\ RegisterFails \in BOOLEAN
    /\ InitialPressures \subseteq Int

Sessions  == 1..MaxSessions
NoSession == 0

-----------------------------------------------------------------------------
(* The tasks: what struct task_* carries of them that matters here.        *)

Task(type, fd, s) == [type |-> type, fd |-> fd, session_id |-> s]

TaskListener      == Task("LISTENER", NoFd, NoSession)
TaskConn(fd)      == Task("CLIENTCONN", fd, NoSession)
TaskInsert(fd, s) == Task("INSERT", fd, s)
TaskDelete(s)     == Task("DELETE", NoFd, s)
TaskSend(s)       == Task("SEND", NoFd, s)
TaskOnClose(s)    == Task("ONCLOSE", NoFd, s)
TaskPacket(s)     == Task("PACKET", NoFd, s)

ToThreadTasks ==
    {TaskListener} \cup {TaskInsert(fd, s) : fd \in Fds, s \in Sessions}
    \cup {TaskDelete(s) : s \in Sessions} \cup {TaskSend(s) : s \in Sessions}

ToMainTasks ==
    {TaskConn(fd) : fd \in Fds}
    \cup {TaskOnClose(s) : s \in Sessions} \cup {TaskPacket(s) : s \in Sessions}

VARIABLES
    \* the kernel
    sock,           \* sock[c]: "new", "backlog", "open" or "closed" (by us)
    gone,           \* clients that closed, reset, or sent an illegal length
    inbound,        \* inbound[c]: frames that arrived and doRead() did not push
    bare,           \* connections with a frame of four bytes and nothing behind
    file,           \* file[fd]: the connection an open descriptor refers to
    interest,       \* interest[t]: descriptors in the epoll set of t
    edge,           \* registered descriptors with an edge nobody consumed
    listenEdge,     \* the listening socket has an edge nobody consumed
    stranded,       \* waiting when accept() last failed, and no edge since
    \* worker threads
    listener,       \* the thread that registered the listening socket
    m_MapDeviceInfo,         \* [t][fd]: session of the device, NoSession if none
    m_MapDeviceSessionInfo,  \* [t][s]: descriptor of the device, NoFd if none
    unsent,         \* sessions with bytes left in their send_buffer
    m_pressure,     \* m_pressure[t]
    wpc,            \* wpc[t]: where t stands, with its local fd
    m_queue_thread, \* m_queue_thread[t]: tasks from main to t
    m_queue_main,   \* m_queue_main[t]: tasks from t to main
    \* main thread
    m_MapSessionConnInfo,    \* [s]: thread of the SessionConn, NoThread if none
    mpc,            \* where main stands, with its locals
    nextSession,    \* the next id getRandNewSession returns
    \* history
    connOf,         \* connOf[s]: the connection session s was made for
    serverClosed,   \* sessions closed by closeConn()
    orphans,        \* connections whose registration failed
    sends,          \* calls of sendMsgToConn() so far
    sent,           \* sent[c]: frames the client sent
    handled         \* handled[c]: frames given to processMessage()

kernelVars == <<sock, gone, inbound, bare, file, interest, edge, listenEdge,
                stranded>>
deviceVars == <<m_MapDeviceInfo, m_MapDeviceSessionInfo, m_pressure>>
workerVars == <<listener, deviceVars, unsent, wpc>>
queueVars  == <<m_queue_thread, m_queue_main>>
mainVars   == <<m_MapSessionConnInfo, mpc, nextSession, sends>>
ghostVars  == <<connOf, serverClosed, orphans, sent, handled>>
vars == <<kernelVars, workerVars, queueVars, mainVars, ghostVars>>

WorkerIdle == [at |-> "idle", fd |-> NoFd]
MainIdle   == [at |-> "idle", fd |-> NoFd, session |-> NoSession,
               thread |-> NoThread, seen |-> {}, read |-> {}]

Backlog == {c \in Conns : sock[c] = "backlog"}
FreeFds == {fd \in Fds : file[fd] = NoConn}

(* ServerHandler::init: the listening socket is open and its task has been *)
(* pushed to the worker with the least pressure.  Thread::m_pressure is     *)
(* initialised nowhere: it starts with what the memory held.               *)
Init ==
    /\ sock = [c \in Conns |-> "new"]
    /\ gone = {}
    /\ inbound = [c \in Conns |-> 0]
    /\ bare = {}
    /\ file = [fd \in Fds |-> NoConn]
    /\ interest = [t \in Threads |-> {}]
    /\ edge = {}
    /\ listenEdge = FALSE
    /\ stranded = {}
    /\ listener = NoThread
    /\ m_MapDeviceInfo = [t \in Threads |-> [fd \in Fds |-> NoSession]]
    /\ m_MapDeviceSessionInfo = [t \in Threads |-> [s \in Sessions |-> NoFd]]
    /\ unsent = {}
    /\ m_pressure \in [Threads -> InitialPressures]
    /\ wpc = [t \in Threads |-> WorkerIdle]
    /\ \E l \in Threads :
        /\ \A t \in Threads : m_pressure[l] <= m_pressure[t]
        /\ m_queue_thread =
                [t \in Threads |-> IF t = l THEN <<TaskListener>> ELSE <<>>]
    /\ m_queue_main = [t \in Threads |-> <<>>]
    /\ m_MapSessionConnInfo = [s \in Sessions |-> NoThread]
    /\ mpc = MainIdle
    /\ nextSession = 1
    /\ connOf = [s \in Sessions |-> NoConn]
    /\ serverClosed = {}
    /\ orphans = {}
    /\ sends = 0
    /\ sent = [c \in Conns |-> 0]
    /\ handled = [c \in Conns |-> 0]

-----------------------------------------------------------------------------
(* The clients and the network.                                            *)

(* A connection arrives in the backlog of the listening socket; a          *)
(* registered listening socket gets an edge.                               *)
Connect(c) ==
    /\ sock[c] = "new"
    /\ sock' = [sock EXCEPT ![c] = "backlog"]
    /\ listenEdge' = (listener # NoThread)
    /\ stranded' = {}
    /\ UNCHANGED <<gone, inbound, bare, file, interest, edge, workerVars,
                   queueVars, mainVars, ghostVars>>

CanSend(c) == sock[c] \in {"backlog", "open"} /\ c \notin gone

(* Something arrives on connection c: the sockets of clients are           *)
(* registered with EPOLLET, a registered descriptor gets an edge.          *)
Arrival(c) ==
    edge' = edge \cup {fd \in Fds :
                file[fd] = c /\ \E t \in Threads : fd \in interest[t]}

(* doRead() pushes a frame that is nothing but its length (and is legal)   *)
(* only when a further byte has come: EpollHandler.cpp:411 wants more than *)
(* four bytes.                                                             *)
HeldFrames(c) == IF c \in bare THEN 1 ELSE 0

(* A frame arrives, with a body or without. *)
ClientSend(c) ==
    /\ CanSend(c)
    /\ sent[c] < MaxFrames
    /\ sent' = [sent EXCEPT ![c] = @ + 1]
    /\ \/ /\ inbound' = [inbound EXCEPT ![c] = @ + HeldFrames(c) + 1]
          /\ bare' = bare \ {c}
       \/ /\ inbound' = [inbound EXCEPT ![c] = @ + HeldFrames(c)]
          /\ bare' = bare \cup {c}
    /\ Arrival(c)
    /\ UNCHANGED <<sock, gone, file, interest, listenEdge, stranded, workerVars,
                   queueVars, mainVars, connOf, serverClosed, orphans, handled>>

(* The begin of one more frame arrives behind a bare one. *)
ClientMore(c) ==
    /\ CanSend(c)
    /\ c \in bare
    /\ inbound' = [inbound EXCEPT ![c] = @ + 1]
    /\ bare' = bare \ {c}
    /\ Arrival(c)
    /\ UNCHANGED <<sock, gone, file, interest, listenEdge, stranded, workerVars,
                   queueVars, mainVars, ghostVars>>

(* After the frames that arrived, reading this connection fails: end of    *)
(* file, reset, or a packetLen out of range.                               *)
ClientGone(c) ==
    /\ CanSend(c)
    /\ gone' = gone \cup {c}
    /\ Arrival(c)
    /\ UNCHANGED <<sock, inbound, bare, file, interest, listenEdge, stranded,
                   workerVars, queueVars, mainVars, ghostVars>>

Client == \E c \in Conns :
    Connect(c) \/ ClientSend(c) \/ ClientMore(c) \/ ClientGone(c)

(* close(fd): the descriptor is free again and leaves every epoll set, and *)
(* what waited in the socket is lost.                                      *)
Close(fd) ==
    /\ sock' = [c \in Conns |-> IF c = file[fd] THEN "closed" ELSE sock[c]]
    /\ inbound' = [c \in Conns |-> IF c = file[fd] THEN 0 ELSE inbound[c]]
    /\ bare' = bare \ {file[fd]}
    /\ file' = [file EXCEPT ![fd] = NoConn]
    /\ interest' = [t \in Threads |-> interest[t] \ {fd}]
    /\ edge' = edge \ {fd}
    /\ UNCHANGED <<gone, listenEdge, stranded>>

-----------------------------------------------------------------------------
(* A worker thread: EpollHandler.  Its event loop (EpollRun) and its task  *)
(* loop (update_thread) alternate; here it takes any ready event or the    *)
(* next task whenever it is idle.                                          *)

TaskAtWorker(t, type) ==
    /\ wpc[t].at = "idle"
    /\ m_queue_thread[t] # <<>>
    /\ Head(m_queue_thread[t]).type = type

TakeTask(t) == m_queue_thread' = [m_queue_thread EXCEPT ![t] = Tail(@)]

push_task_main(t, task) ==
    m_queue_main' = [m_queue_main EXCEPT ![t] = Append(@, task)]

(* AddListener: epoll_ctl, then addDevice() with session 0. *)
AddListener(t) ==
    /\ TaskAtWorker(t, "LISTENER")
    /\ TakeTask(t)
    /\ listener' = t
    /\ listenEdge' = (Backlog # {})
    /\ stranded' = {}
    /\ m_pressure' = [m_pressure EXCEPT ![t] = @ + 1]
    /\ UNCHANGED <<sock, gone, inbound, bare, file, interest, edge,
                   m_MapDeviceInfo, m_MapDeviceSessionInfo, unsent, wpc,
                   m_queue_main, mainVars, ghostVars>>

(* AddClientConn with an EpollRegister() that works, and addDevice(), which *)
(* refuses a session or a descriptor that has a device already.  A socket  *)
(* is registered for EPOLLOUT too, so an event is due at once.             *)
AddClientConn(t) ==
    /\ TaskAtWorker(t, "INSERT")
    /\ TakeTask(t)
    /\ LET fd == Head(m_queue_thread[t]).fd
           s  == Head(m_queue_thread[t]).session_id
           isNew == /\ m_MapDeviceSessionInfo[t][s] = NoFd
                    /\ m_MapDeviceInfo[t][fd] = NoSession
       IN  /\ interest' = [interest EXCEPT ![t] = @ \cup {fd}]
           /\ edge' = edge \cup {fd}
           /\ m_MapDeviceInfo' =
                [m_MapDeviceInfo EXCEPT ![t][fd] = IF isNew THEN s ELSE @]
           /\ m_MapDeviceSessionInfo' =
                [m_MapDeviceSessionInfo EXCEPT ![t][s] = IF isNew THEN fd ELSE @]
           /\ m_pressure' = [m_pressure EXCEPT ![t] = IF isNew THEN @ + 1 ELSE @]
    /\ UNCHANGED <<sock, gone, inbound, bare, file, listenEdge, stranded,
                   listener, unsent, wpc, m_queue_main, mainVars, ghostVars>>

(* AddListener or AddClientConn when epoll_ctl() fails: the task is done,  *)
(* nobody is told, the descriptor stays open.                              *)
RegisterFailure(t) ==
    /\ RegisterFails
    /\ TaskAtWorker(t, "INSERT") \/ TaskAtWorker(t, "LISTENER")
    /\ TakeTask(t)
    /\ orphans' = IF TaskAtWorker(t, "INSERT")
                  THEN orphans \cup {file[Head(m_queue_thread[t]).fd]}
                  ELSE orphans
    /\ UNCHANGED <<kernelVars, workerVars, m_queue_main, mainVars, connOf,
                   serverClosed, sent, handled>>

(* Mutated form: the lookup is not checked for NULL. *)
DelClientConn_Unchecked(t) ==
    /\ TaskAtWorker(t, "DELETE")
    /\ TakeTask(t)
    /\ LET fd == m_MapDeviceSessionInfo[t][Head(m_queue_thread[t]).session_id]
       IN  /\ IF fd = NoFd THEN UNCHANGED kernelVars ELSE Close(fd)
           /\ wpc' = [wpc EXCEPT ![t] = [at |-> "unregister", fd |-> fd]]
    /\ UNCHANGED <<listener, deviceVars, unsent, m_queue_main, mainVars, ghostVars>>

(* Mutated form: the device stays in the maps after its close(). *)
DelClientConn_OnlyCloses(t) ==
    /\ TaskAtWorker(t, "DELETE")
    /\ TakeTask(t)
    /\ LET fd == m_MapDeviceSessionInfo[t][Head(m_queue_thread[t]).session_id]
       IN  IF fd = NoFd THEN UNCHANGED kernelVars ELSE Close(fd)
    /\ UNCHANGED <<workerVars, m_queue_main, mainVars, ghostVars>>

(* DelClientConn: removeDevice_BySession() up to its close(); a session    *)
(* that has no device any more is ignored.                                 *)
DelClientConn(t) ==
    /\ TaskAtWorker(t, "DELETE")
    /\ TakeTask(t)
    /\ LET fd == m_MapDeviceSessionInfo[t][Head(m_queue_thread[t]).session_id]
       IN  IF fd = NoFd THEN UNCHANGED <<kernelVars, wpc>>
           ELSE /\ Close(fd)
                /\ wpc' = [wpc EXCEPT ![t] = [at |-> "unregister", fd |-> fd]]
    /\ UNCHANGED <<listener, deviceVars, unsent, m_queue_main, mainVars, ghostVars>>

(* WritePacketToConn for a session without a device, or one whose send()   *)
(* takes everything or leaves some bytes in send_buffer.                   *)
WritePacket(t) ==
    /\ TaskAtWorker(t, "SEND")
    /\ TakeTask(t)
    /\ LET s == Head(m_queue_thread[t]).session_id
       IN  IF m_MapDeviceSessionInfo[t][s] = NoFd THEN UNCHANGED unsent
           ELSE unsent' \in {unsent \ {s}, unsent \cup {s}}
    /\ UNCHANGED <<kernelVars, listener, deviceVars, wpc, m_queue_main,
                   mainVars, ghostVars>>

(* Mutated form: main is told, and the device stays. *)
WritePacketFails_KeepsDevice(t) ==
    /\ TaskAtWorker(t, "SEND")
    /\ TakeTask(t)
    /\ LET s == Head(m_queue_thread[t]).session_id
       IN  /\ m_MapDeviceSessionInfo[t][s] # NoFd
           /\ push_task_main(t, TaskOnClose(s))
    /\ UNCHANGED <<kernelVars, workerVars, mainVars, ghostVars>>

(* WritePacketToConn that does not fit into send_buffer or whose send()    *)
(* fails: it tells main, then calls removeDevice_ByFD().                   *)
WritePacketFails(t) ==
    /\ TaskAtWorker(t, "SEND")
    /\ TakeTask(t)
    /\ LET s == Head(m_queue_thread[t]).session_id
           fd == m_MapDeviceSessionInfo[t][s]
       IN  /\ fd # NoFd
           /\ push_task_main(t, TaskOnClose(s))
           /\ wpc' = [wpc EXCEPT ![t] = [at |-> "remove", fd |-> fd]]
    /\ UNCHANGED <<kernelVars, listener, deviceVars, unsent, mainVars, ghostVars>>

(* epoll_wait() may report fd, and the thread has a device for it. *)
DeviceEvent(t, fd) ==
    /\ wpc[t].at = "idle"
    /\ fd \in interest[t]
    /\ m_MapDeviceInfo[t][fd] # NoSession

(* A report carries all that is ready and uses up the edge; with EPOLLIN   *)
(* doEpollEvents() goes on to doRead().                                    *)
Report(t, fd) ==
    /\ edge' = edge \ {fd}
    /\ wpc' = [wpc EXCEPT ![t] =
                IF inbound[file[fd]] > 0 \/ file[fd] \in gone
                THEN [at |-> "read", fd |-> fd] ELSE WorkerIdle]

(* doEpollEvents for an edge; a doWrite() that leaves bytes changes nothing. *)
ClientEvent(t, fd) ==
    /\ DeviceEvent(t, fd)
    /\ fd \in edge
    /\ Report(t, fd)
    /\ UNCHANGED <<sock, gone, inbound, bare, file, interest, listenEdge,
                   stranded, listener, deviceVars, unsent, queueVars, mainVars,
                   ghostVars>>

(* The client has read enough for the rest of send_buffer: EPOLLOUT, and   *)
(* doWrite() sends it.                                                     *)
FlushSendBuffer(t, fd) ==
    /\ DeviceEvent(t, fd)
    /\ m_MapDeviceInfo[t][fd] \in unsent
    /\ unsent' = unsent \ {m_MapDeviceInfo[t][fd]}
    /\ Report(t, fd)
    /\ UNCHANGED <<sock, gone, inbound, bare, file, interest, listenEdge,
                   stranded, listener, deviceVars, queueVars, mainVars, ghostVars>>

(* The end of doEpollEvents for a descriptor whose doRead() or doWrite()   *)
(* returned false: main is told, then removeDevice_ByFD() is called.       *)
EventFails(t, fd) ==
    /\ push_task_main(t, TaskOnClose(m_MapDeviceInfo[t][fd]))
    /\ wpc' = [wpc EXCEPT ![t] = [at |-> "remove", fd |-> fd]]

(* doWrite on EPOLLOUT has bytes for a client that is gone. *)
FlushFails(t, fd) ==
    /\ DeviceEvent(t, fd)
    /\ fd \in edge
    /\ file[fd] \in gone
    /\ m_MapDeviceInfo[t][fd] \in unsent
    /\ edge' = edge \ {fd}
    /\ EventFails(t, fd)
    /\ UNCHANGED <<sock, gone, inbound, bare, file, interest, listenEdge,
                   stranded, listener, deviceVars, unsent, m_queue_thread,
                   mainVars, ghostVars>>

(* Mutated form: one frame for an edge. *)
ReadFrame_Once(t) ==
    /\ wpc[t].at = "read"
    /\ LET fd == wpc[t].fd
           c  == file[fd]
       IN  /\ inbound[c] > 0
           /\ inbound' = [inbound EXCEPT ![c] = @ - 1]
           /\ push_task_main(t, TaskPacket(m_MapDeviceInfo[t][fd]))
    /\ wpc' = [wpc EXCEPT ![t] = WorkerIdle]
    /\ UNCHANGED <<sock, gone, bare, file, interest, edge, listenEdge, stranded,
                   listener, deviceVars, unsent, m_queue_thread, mainVars,
                   ghostVars>>

(* doRead: a frame is complete and goes to the main thread.                *)
ReadFrame(t) ==
    /\ wpc[t].at = "read"
    /\ LET fd == wpc[t].fd
           c  == file[fd]
       IN  /\ inbound[c] > 0
           /\ inbound' = [inbound EXCEPT ![c] = @ - 1]
           /\ push_task_main(t, TaskPacket(m_MapDeviceInfo[t][fd]))
    /\ UNCHANGED <<sock, gone, bare, file, interest, edge, listenEdge, stranded,
                   workerVars, m_queue_thread, mainVars, ghostVars>>

(* Mutated form: a recv() of zero bytes ends the loop like EAGAIN. *)
ReadStops_AtEnd(t) ==
    /\ wpc[t].at = "read"
    /\ inbound[file[wpc[t].fd]] = 0
    /\ wpc' = [wpc EXCEPT ![t] = WorkerIdle]
    /\ UNCHANGED <<kernelVars, listener, deviceVars, unsent, queueVars,
                   mainVars, ghostVars>>

(* doRead: recv() has nothing more. *)
ReadStops(t) ==
    /\ wpc[t].at = "read"
    /\ inbound[file[wpc[t].fd]] = 0
    /\ file[wpc[t].fd] \notin gone
    /\ wpc' = [wpc EXCEPT ![t] = WorkerIdle]
    /\ UNCHANGED <<kernelVars, listener, deviceVars, unsent, queueVars,
                   mainVars, ghostVars>>

(* Mutated form: main is not told. *)
ReadFails_Silent(t) ==
    /\ wpc[t].at = "read"
    /\ inbound[file[wpc[t].fd]] = 0
    /\ file[wpc[t].fd] \in gone
    /\ wpc' = [wpc EXCEPT ![t].at = "remove"]
    /\ UNCHANGED <<kernelVars, listener, deviceVars, unsent, queueVars,
                   mainVars, ghostVars>>

(* doRead: recv() or the length finds the end of the stream.               *)
ReadFails(t) ==
    /\ wpc[t].at = "read"
    /\ inbound[file[wpc[t].fd]] = 0
    /\ file[wpc[t].fd] \in gone
    /\ EventFails(t, wpc[t].fd)
    /\ UNCHANGED <<kernelVars, listener, deviceVars, unsent, m_queue_thread,
                   mainVars, ghostVars>>

(* removeDevice_ByFD: EpollRemove() and close(). *)
CloseDevice(t) ==
    /\ wpc[t].at = "remove"
    /\ Close(wpc[t].fd)
    /\ wpc' = [wpc EXCEPT ![t].at = "erase"]
    /\ UNCHANGED <<listener, deviceVars, unsent, queueVars, mainVars, ghostVars>>

(* Mutated form: addPressure(-1) is missing. *)
RemovedPressure_Missing == 0

(* removeDevice_ByFD, removeDevice_BySession: addPressure(-1). *)
RemovedPressure == -1

(* The end of removeDevice_ByFD and of removeDevice_BySession; the latter  *)
(* calls EpollRemove() with the number of a descriptor it has closed.      *)
EraseDevice(t) ==
    /\ wpc[t].at \in {"erase", "unregister"}
    /\ LET fd == wpc[t].fd
           s  == m_MapDeviceInfo[t][fd]
       IN  /\ interest' = IF wpc[t].at = "unregister"
                          THEN [interest EXCEPT ![t] = @ \ {fd}]
                          ELSE interest
           /\ m_MapDeviceInfo' = [m_MapDeviceInfo EXCEPT ![t][fd] = NoSession]
           /\ m_MapDeviceSessionInfo' =
                [m_MapDeviceSessionInfo EXCEPT ![t][s] = NoFd]
           /\ unsent' = unsent \ {s}
    /\ m_pressure' = [m_pressure EXCEPT ![t] = @ + RemovedPressure]
    /\ wpc' = [wpc EXCEPT ![t] = WorkerIdle]
    /\ UNCHANGED <<sock, gone, inbound, bare, file, edge, listenEdge, stranded,
                   listener, queueVars, mainVars, ghostVars>>

(* doEpollEvents on the listening socket: doAccept() begins.  The socket   *)
(* is registered with EPOLLET, so the edge is used up.                     *)
AcceptEvent(t) ==
    /\ wpc[t].at = "idle"
    /\ listener = t
    /\ listenEdge
    /\ listenEdge' = FALSE
    /\ wpc' = [wpc EXCEPT ![t].at = "accept"]
    /\ UNCHANGED <<sock, gone, inbound, bare, file, interest, edge, stranded,
                   listener, deviceVars, unsent, queueVars, mainVars, ghostVars>>

(* doAccept: accept() returns a descriptor. *)
Accept(t) ==
    /\ wpc[t].at = "accept"
    /\ \E c \in Backlog, fd \in FreeFds :
        /\ sock' = [sock EXCEPT ![c] = "open"]
        /\ file' = [file EXCEPT ![fd] = c]
        /\ wpc' = [wpc EXCEPT ![t] = [at |-> "push", fd |-> fd]]
    /\ UNCHANGED <<gone, inbound, bare, interest, edge, listenEdge, stranded,
                   listener, deviceVars, unsent, queueVars, mainVars, ghostVars>>

(* Mutated form: one accept() for an edge. *)
PushConn_Once(t) ==
    /\ wpc[t].at = "push"
    /\ push_task_main(t, TaskConn(wpc[t].fd))
    /\ wpc' = [wpc EXCEPT ![t] = WorkerIdle]
    /\ UNCHANGED <<kernelVars, listener, deviceVars, unsent, m_queue_thread,
                   mainVars, ghostVars>>

(* Mutated form: a connection whose client is gone already is dropped. *)
PushConn_DropsGone(t) ==
    /\ wpc[t].at = "push"
    /\ IF file[wpc[t].fd] \in gone THEN UNCHANGED m_queue_main
       ELSE push_task_main(t, TaskConn(wpc[t].fd))
    /\ wpc' = [wpc EXCEPT ![t] = [at |-> "accept", fd |-> NoFd]]
    /\ UNCHANGED <<kernelVars, listener, deviceVars, unsent, m_queue_thread,
                   mainVars, ghostVars>>

(* doAccept: the descriptor goes to main, the loop calls accept() again. *)
PushConn(t) ==
    /\ wpc[t].at = "push"
    /\ push_task_main(t, TaskConn(wpc[t].fd))
    /\ wpc' = [wpc EXCEPT ![t] = [at |-> "accept", fd |-> NoFd]]
    /\ UNCHANGED <<kernelVars, listener, deviceVars, unsent, m_queue_thread,
                   mainVars, ghostVars>>

(* doAccept: accept() fails: nobody waits, there is no descriptor, or any  *)
(* other error, which may leave connections waiting.                       *)
AcceptStops(t) ==
    /\ wpc[t].at = "accept"
    /\ stranded' = IF listenEdge THEN {} ELSE Backlog
    /\ wpc' = [wpc EXCEPT ![t] = WorkerIdle]
    /\ UNCHANGED <<sock, gone, inbound, bare, file, interest, edge, listenEdge,
                   listener, deviceVars, unsent, queueVars, mainVars, ghostVars>>

Worker(t) ==
    \/ AddListener(t) \/ AddClientConn(t) \/ RegisterFailure(t)
    \/ DelClientConn(t) \/ WritePacket(t) \/ WritePacketFails(t)
    \/ \E fd \in Fds : ClientEvent(t, fd) \/ FlushFails(t, fd)
    \/ ReadFrame(t) \/ ReadStops(t) \/ ReadFails(t)
    \/ CloseDevice(t) \/ EraseDevice(t)
    \/ AcceptEvent(t) \/ Accept(t) \/ PushConn(t) \/ AcceptStops(t)

-----------------------------------------------------------------------------
(* The main thread: ThreadManager::update runs the tasks of the workers,   *)
(* ClientConnManager keeps the sessions.                                   *)

TaskAtMain(t, type) ==
    /\ mpc.at = "idle"
    /\ m_queue_main[t] # <<>>
    /\ Head(m_queue_main[t]).type = type

TakeMainTask(t) == m_queue_main' = [m_queue_main EXCEPT ![t] = Tail(@)]

push_task(t, task) ==
    m_queue_thread' = [m_queue_thread EXCEPT ![t] = Append(@, task)]

(* task_clientConn::on_thread_call: a new session id for the descriptor,   *)
(* and getLessPressureThread_Epoll begins its walk over the threads with   *)
(* the first one as nowThread (they are ordered by their ids: any order).  *)
NewSession(t) ==
    /\ TaskAtMain(t, "CLIENTCONN")
    /\ nextSession \in Sessions
    /\ TakeMainTask(t)
    /\ \E u \in Threads :
        mpc' = [MainIdle EXCEPT !.at = "scan", !.session = nextSession,
                                !.fd = Head(m_queue_main[t]).fd,
                                !.seen = {u}, !.thread = u]
    /\ nextSession' = nextSession + 1
    /\ connOf' = [connOf EXCEPT ![nextSession] = file[Head(m_queue_main[t]).fd]]
    /\ UNCHANGED <<kernelVars, workerVars, m_queue_thread, m_MapSessionConnInfo,
                   sends, serverClosed, orphans, sent, handled>>

(* getLessPressureThread_Epoll: one of the two pressures that are compared *)
(* next is read, either one first, while the threads go on changing theirs *)
(* ...                                                                     *)
ReadPressure(t) ==
    /\ mpc.at = "scan"
    /\ mpc.seen # Threads
    /\ mpc.read = {}
    /\ t = mpc.thread \/ t \notin mpc.seen
    /\ mpc' = [mpc EXCEPT !.read = {<<t, m_pressure[t]>>}]
    /\ UNCHANGED <<kernelVars, workerVars, queueVars, m_MapSessionConnInfo,
                   nextSession, sends, ghostVars>>

(* ... and compared with the other one; nowThread is read again each time. *)
ComparePressure(t) ==
    /\ mpc.at = "scan"
    /\ t \notin mpc.seen
    /\ \E r \in mpc.read :
        LET Pressure(u) == IF r[1] = u THEN r[2] ELSE m_pressure[u]
        IN  /\ r[1] \in {mpc.thread, t}
            /\ mpc' = [mpc EXCEPT
                        !.seen = @ \cup {t}, !.read = {},
                        !.thread = IF Pressure(@) > Pressure(t) THEN t ELSE @]
    /\ UNCHANGED <<kernelVars, workerVars, queueVars, m_MapSessionConnInfo,
                   nextSession, sends, ghostVars>>

(* push_task: the INSERT task goes to the thread the walk ended with.      *)
PushInsert(t) ==
    /\ mpc.at = "scan"
    /\ mpc.seen = Threads
    /\ mpc.thread = t
    /\ push_task(t, TaskInsert(mpc.fd, mpc.session))
    /\ mpc' = [MainIdle EXCEPT !.at = "add", !.session = mpc.session, !.thread = t]
    /\ UNCHANGED <<kernelVars, workerVars, m_queue_main, m_MapSessionConnInfo,
                   nextSession, sends, ghostVars>>

(* Mutated form: the session is not entered (threadid > 0 taken for false). *)
AddNewConn_Skipped ==
    /\ mpc.at = "add"
    /\ mpc' = MainIdle
    /\ UNCHANGED <<kernelVars, workerVars, queueVars, m_MapSessionConnInfo,
                   nextSession, sends, ghostVars>>

(* addNewConn: the session enters the map of main after the worker was     *)
(* told of it.                                                             *)
AddNewConn ==
    /\ mpc.at = "add"
    /\ m_MapSessionConnInfo' = [m_MapSessionConnInfo EXCEPT ![mpc.session] =
                                    IF @ = NoThread THEN mpc.thread ELSE @]
    /\ mpc' = MainIdle
    /\ UNCHANGED <<kernelVars, workerVars, queueVars, nextSession, sends, ghostVars>>

(* task_clientConnPacket: processMessage(), whether or not the session is  *)
(* still there; an action looks it up if it cares (TestAction.cpp:16).     *)
HandlePacket(t) ==
    /\ TaskAtMain(t, "PACKET")
    /\ TakeMainTask(t)
    /\ handled' = [handled EXCEPT ![connOf[Head(m_queue_main[t]).session_id]] = @ + 1]
    /\ UNCHANGED <<kernelVars, workerVars, m_queue_thread, mainVars, connOf,
                   serverClosed, orphans, sent>>

(* task_clientConnOnClose: removeSessionConn(). *)
OnClose(t) ==
    /\ TaskAtMain(t, "ONCLOSE")
    /\ TakeMainTask(t)
    /\ m_MapSessionConnInfo' =
        [m_MapSessionConnInfo EXCEPT ![Head(m_queue_main[t]).session_id] = NoThread]
    /\ UNCHANGED <<kernelVars, workerVars, m_queue_thread, mpc, nextSession,
                   sends, ghostVars>>

(* Mutated form: the task carries no thread id, so any thread may get it. *)
CloseConn_AnyThread(s) ==
    /\ mpc.at = "idle"
    /\ m_MapSessionConnInfo[s] # NoThread
    /\ \E t \in Threads : push_task(t, TaskDelete(s))
    /\ mpc' = [MainIdle EXCEPT !.at = "remove", !.session = s]
    /\ serverClosed' = serverClosed \cup {s}
    /\ UNCHANGED <<kernelVars, workerVars, m_queue_main, m_MapSessionConnInfo,
                   nextSession, sends, connOf, orphans, sent, handled>>

(* Mutated form: no DELETE task. *)
CloseConn_NoDelete(s) ==
    /\ mpc.at = "idle"
    /\ m_MapSessionConnInfo[s] # NoThread
    /\ mpc' = [MainIdle EXCEPT !.at = "remove", !.session = s]
    /\ serverClosed' = serverClosed \cup {s}
    /\ UNCHANGED <<kernelVars, workerVars, queueVars, m_MapSessionConnInfo,
                   nextSession, sends, connOf, orphans, sent, handled>>

(* closeConn: the DELETE task goes to the thread of the session ...        *)
CloseConn(s) ==
    /\ mpc.at = "idle"
    /\ m_MapSessionConnInfo[s] # NoThread
    /\ push_task(m_MapSessionConnInfo[s], TaskDelete(s))
    /\ mpc' = [MainIdle EXCEPT !.at = "remove", !.session = s]
    /\ serverClosed' = serverClosed \cup {s}
    /\ UNCHANGED <<kernelVars, workerVars, m_queue_main, m_MapSessionConnInfo,
                   nextSession, sends, connOf, orphans, sent, handled>>

(* ... then removeSessionConn(). *)
RemoveSessionConn ==
    /\ mpc.at = "remove"
    /\ m_MapSessionConnInfo' = [m_MapSessionConnInfo EXCEPT ![mpc.session] = NoThread]
    /\ mpc' = MainIdle
    /\ UNCHANGED <<kernelVars, workerVars, queueVars, nextSession, sends, ghostVars>>

(* sendMsgToConn. *)
SendMsgToConn(s) ==
    /\ mpc.at = "idle"
    /\ sends < MaxSends
    /\ m_MapSessionConnInfo[s] # NoThread
    /\ sends' = sends + 1
    /\ push_task(m_MapSessionConnInfo[s], TaskSend(s))
    /\ UNCHANGED <<kernelVars, workerVars, m_queue_main, m_MapSessionConnInfo,
                   mpc, nextSession, ghostVars>>

(* What main has to do because of tasks that arrived. *)
MainTask ==
    \/ \E t \in Threads :
        \/ NewSession(t)
        \/ ReadPressure(t) \/ ComparePressure(t) \/ PushInsert(t)
        \/ HandlePacket(t) \/ OnClose(t)
    \/ AddNewConn \/ RemoveSessionConn

(* What the application may ask of ClientConnManager. *)
Application == \E s \in Sessions : CloseConn(s) \/ SendMsgToConn(s)

Next ==
    \/ Client
    \/ \E t \in Threads : Worker(t) \/ \E fd \in Fds : FlushSendBuffer(t, fd)
    \/ MainTask
    \/ Application

Spec == Init /\ [][Next]_vars

(* Every thread of the server loops for ever and blocks nowhere; clients   *)
(* and the application owe nothing, and a client need not read what it is  *)
(* sent.                                                                   *)
FairSpec ==
    /\ Spec
    /\ WF_vars(MainTask)
    /\ \A t \in Threads : WF_vars(Worker(t))

-----------------------------------------------------------------------------
KernelTypeOK ==
    /\ sock \in [Conns -> {"new", "backlog", "open", "closed"}]
    /\ gone \subseteq Conns
    /\ inbound \in [Conns -> Nat]
    /\ bare \subseteq Conns
    /\ file \in [Fds -> Conns \cup {NoConn}]
    /\ interest \in [Threads -> SUBSET Fds]
    /\ edge \subseteq Fds
    /\ listenEdge \in BOOLEAN
    /\ stranded \subseteq Conns

WorkerTypeOK ==
    /\ listener \in Threads \cup {NoThread}
    /\ m_MapDeviceInfo \in [Threads -> [Fds -> Sessions \cup {NoSession}]]
    /\ m_MapDeviceSessionInfo \in [Threads -> [Sessions -> Fds \cup {NoFd}]]
    /\ m_pressure \in [Threads -> Int]
    /\ unsent \subseteq Sessions
    /\ wpc \in [Threads -> [at: {"idle", "accept"}, fd: {NoFd}]
                   \cup [at: {"push", "read", "remove", "erase", "unregister"}, fd: Fds]]

QueueTypeOK ==
    /\ m_queue_thread \in [Threads -> Seq(ToThreadTasks)]
    /\ m_queue_main \in [Threads -> Seq(ToMainTasks)]

Scan == [at: {"scan"}, fd: Fds, session: Sessions, thread: Threads,
         seen: SUBSET Threads, read: SUBSET (Threads \X Int)]

MainTypeOK ==
    /\ m_MapSessionConnInfo \in [Sessions -> Threads \cup {NoThread}]
    /\ \/ mpc = MainIdle
       \/ mpc \in Scan /\ mpc.thread \in mpc.seen
       \/ /\ mpc.at = "add" /\ mpc.session \in Sessions /\ mpc.thread \in Threads
       \/ /\ mpc.at = "remove" /\ mpc.session \in Sessions
    /\ nextSession \in 1..(MaxSessions + 1)
    /\ sends \in 0..MaxSends

GhostTypeOK ==
    /\ connOf \in [Sessions -> Conns \cup {NoConn}]
    /\ serverClosed \subseteq Sessions
    /\ orphans \subseteq Conns \cup {NoConn}
    /\ sent \in [Conns -> 0..MaxFrames]
    /\ handled \in [Conns -> Nat]

(* Every task carries what its kind needs, a thread in the middle of a     *)
(* handler has the descriptor the handler works on, and every lookup is    *)
(* made with a key the map can have (EpollHandler.cpp:43-71, 181-274).     *)
TypeOK ==
    /\ KernelTypeOK
    /\ WorkerTypeOK
    /\ QueueTypeOK
    /\ MainTypeOK
    /\ GhostTypeOK

Positions(q, type, s) ==
    {i \in DOMAIN q : q[i].type = type /\ q[i].session_id = s}

Queued(q, type, s) == Positions(q, type, s) # {}

(* t has called close() for fd and not erased the device yet. *)
HasClosed(t, fd) == wpc[t].fd = fd /\ wpc[t].at \in {"erase", "unregister"}

(* t is somewhere in removeDevice_ByFD or removeDevice_BySession for fd. *)
Removing(t, fd) == wpc[t].fd = fd /\ wpc[t].at \in {"remove", "erase", "unregister"}

(* main is between the choice of session s and addNewConn. *)
Adding(s) == mpc.at \in {"scan", "add"} /\ mpc.session = s

(* A device refers to the connection its session was made for, through a   *)
(* descriptor that is in the epoll set of its thread; both maps agree.     *)
(* Descriptor numbers are reused by accept() on another thread as soon as  *)
(* close() returns, which is before removeDevice_BySession calls           *)
(* EpollRemove() and erases the maps (EpollHandler.cpp:251-255).           *)
DeviceIsItsSocket ==
    \A t \in Threads, fd \in Fds :
        LET s == m_MapDeviceInfo[t][fd]
        IN  s # NoSession =>
                /\ m_MapDeviceSessionInfo[t][s] = fd
                /\ ~ HasClosed(t, fd) =>
                        /\ file[fd] = connOf[s]
                        /\ fd \in interest[t]

(* Whoever is responsible for an open descriptor: the thread that accepted *)
(* it, a task, main, the device, or nobody after a failed registration.    *)
Holders(fd) ==
    {<<"accepted", t>> : t \in {u \in Threads : wpc[u] = [at |-> "push", fd |-> fd]}}
    \cup (UNION {{<<"CLIENTCONN", t, i>> : i \in {j \in DOMAIN m_queue_main[t] :
                    m_queue_main[t][j] = TaskConn(fd)}} : t \in Threads})
    \cup {<<"main", t>> : t \in {u \in {"main"} : mpc.at = "scan" /\ mpc.fd = fd}}
    \cup (UNION {{<<"INSERT", t, i>> : i \in {j \in DOMAIN m_queue_thread[t] :
                    /\ m_queue_thread[t][j].type = "INSERT"
                    /\ m_queue_thread[t][j].fd = fd}} : t \in Threads})
    \cup {<<"device", t>> : t \in {u \in Threads :
                    m_MapDeviceInfo[u][fd] # NoSession /\ ~ HasClosed(u, fd)}}
    \cup {<<"orphan", c>> : c \in orphans \cap {file[fd]}}

(* An open descriptor has exactly one holder and a closed one has none: no *)
(* descriptor leaks on the way from accept() to the device, none is closed *)
(* twice, and no task or device outlives its descriptor and closes or      *)
(* registers somebody else's.                                              *)
OneHolder ==
    \A fd \in Fds :
        Cardinality(Holders(fd)) = IF file[fd] = NoConn THEN 0 ELSE 1

(* While main has a session, something will end it or can be told to: its  *)
(* registration is on the way, or it has its device, or the notification   *)
(* of its end is on the way.  (closeConn() pushes DELETE first.)           *)
SessionHasDevice ==
    \A s \in Sessions : LET t == m_MapSessionConnInfo[s] IN
        t # NoThread =>
            \/ Queued(m_queue_thread[t], "INSERT", s)
            \/ m_MapDeviceSessionInfo[t][s] # NoFd
            \/ Queued(m_queue_main[t], "ONCLOSE", s)
            \/ mpc.at = "remove" /\ mpc.session = s
            \/ connOf[s] \in orphans

(* A device, or one that is on the way, stays within reach of main: main   *)
(* has or is adding its session, or has pushed its DELETE, unless its own  *)
(* thread is removing it.                                                  *)
DeviceHasSession ==
    \A t \in Threads, s \in Sessions :
        \/ /\ ~ Queued(m_queue_thread[t], "INSERT", s)
           /\ \/ m_MapDeviceSessionInfo[t][s] = NoFd
              \/ Removing(t, m_MapDeviceSessionInfo[t][s])
        \/ m_MapSessionConnInfo[s] = t
        \/ Adding(s)
        \/ Queued(m_queue_thread[t], "DELETE", s)

(* A packet or a notification never comes before the session it is for:    *)
(* main finds the session unless it closed it itself, although the worker  *)
(* hears of the session before main has it in its map                      *)
(* (task_clientConn.cpp:10-13).                                            *)
TaskFindsSession ==
    \A t \in Threads, s \in Sessions :
        Queued(m_queue_main[t], "PACKET", s) \/ Queued(m_queue_main[t], "ONCLOSE", s)
            => m_MapSessionConnInfo[s] = t \/ Adding(s) \/ s \in serverClosed

(* The end of a connection is notified at most once, after everything else *)
(* its device had to say, although reading, writing and EPOLLOUT all       *)
(* notify it.                                                              *)
OneNotification ==
    \A t \in Threads, s \in Sessions :
        \A i \in Positions(m_queue_main[t], "ONCLOSE", s) :
            /\ \A j \in (i + 1)..Len(m_queue_main[t]) :
                    m_queue_main[t][j].session_id # s
            /\ LET fd == m_MapDeviceSessionInfo[t][s]
               IN  fd = NoFd \/ Removing(t, fd)

(* What the thread has to serve: its devices and the listening socket. *)
Devices(t) ==
    Cardinality({fd \in Fds : m_MapDeviceInfo[t][fd] # NoSession})
    + IF listener = t THEN 1 ELSE 0

(* A thread's m_pressure moves with the number of its devices in every     *)
(* step, whatever path they come and go on: it is off by what the memory   *)
(* held at the start and never drifts from there.  (A lost update would    *)
(* lead getLessPressureThread_Epoll astray for ever; the difference at the *)
(* start does, for the code sets m_pressure nowhere, thread.h:27.)         *)
PressureFollowsDevices ==
    [][\A t \in Threads :
        m_pressure'[t] - m_pressure[t] = Devices(t)' - Devices(t)]_vars

-----------------------------------------------------------------------------
(* What the application sees of connection c. *)
SessionsOf(c) == {s \in Sessions : connOf[s] = c}

Phase(c) ==
    IF \E s \in SessionsOf(c) : m_MapSessionConnInfo[s] # NoThread THEN "live"
    ELSE IF SessionsOf(c) = {} \/ \E s \in SessionsOf(c) : Adding(s) THEN "none"
    ELSE IF SessionsOf(c) \cap serverClosed # {} THEN "closed"
    ELSE "ended"

(* The threads together offer the application one session per connection,  *)
(* which ends for good.  No frame is handled before its begin, none after  *)
(* the client's end of it, and never more than were sent; only a session   *)
(* the server closed itself may still get the frames that were under way.  *)
(* Main does not look the session up (MessageHandler.cpp:15-61): this      *)
(* rests on the order in which a worker pushes.                            *)
Service == INSTANCE SessionService WITH phase <- [c \in Conns |-> Phase(c)]
ImplementsSessionService == Service!Spec

(* When a client is gone its descriptor is closed and its session removed. *)
DisconnectCleansUp ==
    \A c \in Conns :
        (c \in gone /\ sock[c] = "open") ~>
            \/ sock[c] = "closed" /\ Phase(c) \in {"closed", "ended"}
            \/ c \in orphans

(* closeConn() closes the descriptor in the end, also when the client      *)
(* disconnects, or a write fails, at the same time.                        *)
ServerCloseCompletes ==
    \A c \in Conns :
        (SessionsOf(c) \cap serverClosed # {}) ~> (sock[c] = "closed" \/ c \in orphans)

(* Once its connection was accepted a frame is handled in the end unless   *)
(* the server closes the connection or fails to write to it: none is left  *)
(* behind in a socket whose edge is used up, or behind a notification of   *)
(* the end.  The exception is a bare frame with nothing behind it, which   *)
(* doRead() keeps (EpollHandler.cpp:411).                                  *)
FramesHandled ==
    \A c \in Conns : \A n \in 1..MaxFrames :
        (sent[c] >= n /\ sock[c] = "open" /\ ~ (c \in bare /\ n = sent[c])) ~>
            \/ handled[c] >= n
            \/ c \in orphans
            \/ \E s \in SessionsOf(c) : s \in serverClosed
            \/ sends > 0

(* A connection is accepted unless an accept() fails while it waits        *)
(* (EpollHandler.cpp:341), and one that was left behind so is due again    *)
(* with the next one that comes: no edge of the listening socket is lost   *)
(* when it arrives before the socket is registered or while doAccept()     *)
(* runs, and one edge is enough for all who wait.                          *)
BacklogAccepted ==
    \A c \in Conns :
        (sock[c] = "backlog" /\ c \notin stranded)
            ~> (sock[c] # "backlog" \/ c \in stranded)

=============================================================================
