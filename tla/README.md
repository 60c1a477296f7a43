# TLA+ verification of the oryx game server

The repository is a game server skeleton in C++: one *main* thread that owns all game and
session state, any number of *epoll worker* threads that own sockets, and lock-free queues
of tasks between them. This directory holds TLA+ models of that core, TLC configurations
that check them on small instances, and TLAPS proofs for every value of the constants.

Paths below are relative to the repository root.

## 1. Inventory of the system

| Component | Source | State | Operations | Talks to |
|---|---|---|---|---|
| Inter-thread queue | `oryx/spsc_queue.h` | boost ring `m_queue` of 40960 (`MAX_SPSC_QUEUE_SIZE`, `oryx/thread.h:10`), overflow vector `m_cache` | `push`, `pop`, `checkCache` | one pushing and one popping thread |
| Thread task exchange | `oryx/thread.{h,cpp}`, `oryx/task.h` | per worker the four queues `m_obj_main`, `m_obj_main_complete`, `m_obj_thread`, `m_obj_thread_complete` | `push_task_main`, `push_task_thread`, `update_main`, `update_thread` | main calls `update_main` of every worker, the worker its own `update_thread` |
| Thread manager | `oryx/threadManager.{h,cpp}` | the list of workers | `push_task`, `update`, `getLessPressureThread_Epoll` | reads the workers' pressure counters without a lock |
| Epoll worker | `oryx/EpollHandler.{h,cpp}` | epoll set, devices by descriptor and by session, pressure | `dotask`, `doEpollEvents`, `doAccept`, `doRead`, `doWrite`, `addDevice`, `removeDevice_*` | kernel; posts tasks to main |
| Device buffers | `oryx/DeviceInfo.h` | `recv_buffer` and `send_buffer` with begin and end marks | `clear_Recv_buff`, `clear_Send_buff`, `write` | `doRead`, `doWrite` |
| Connection tasks | `task/*` | messages between main and workers | `on_thread_call`, `on_main_call`, `on_free` | session manager, message handler |
| Session manager | `oryx/ClientConnManager.{h,cpp}` | sessions by id, the id counter | `addNewConn`, `closeConn`, `removeSessionConn`, `sendMsgToConn`, `getRandNewSession` | thread manager; calls `onSessionClose` |
| Player manager | `logic/PlayerManager.{h,cpp}` | online players and the session each is on | `onPlayerLogin`, `onPlayerLogoff`, `onSessionClose`, `sendProtoTo*` | derived from the session manager |
| Packet format | `oryx/packet.{h,cpp}` | a growing byte array with a 14-byte head | `Pack`, `WriteHead`, `Append`, `GetRealData` | message handler, player manager |
| Message dispatch | `oryx/MessageHandler.{h,cpp}`, `oryx/Action.h`, `logic/TestAction.*` | map from opcode to action | `processMessage`, `registerHandlerFun` | packet tasks |
| Timers | `oryx/TimerControl.{h,cpp}` | last run time of each timer | `update`, `register_timerFun` | main loop |
| Start-up, main loop | `logic/ServerHandler.*`, `oryx/Listener.*` | none of their own | `init`, `run`, `doListen` | everything |

Logging, signal wrappers, the protobuf messages and the manual test client are not modelled.

### How the parts interact

* **Main to worker** (`m_queue_thread`): `task_listener`, `task_clientConnInsert` (register this
  descriptor under this session id), `task_clientConnDelete`, `task_sendPacket`.
* **Worker to main** (`m_queue_main`): `task_clientConn` (a socket was accepted),
  `task_clientConnPacket` (a whole frame), `task_clientConnOnClose`.
* **Back to the creator** (`m_queue_main_complete`, `m_queue_thread_complete`): every executed
  task returns to the thread that allocated it, which frees it.
* **Shared state**: the two indices of each ring, and `m_pressure` of each worker, which main
  reads without a lock to choose a worker. Everything else belongs to one thread.
* **Kernel**: descriptors are numbers shared by all threads, and a number is free as soon as
  `close()` returns. epoll is edge-triggered everywhere.
* **Callbacks**: `onSessionBegin` and `onSessionClose` of the session manager (virtual),
  `Action::processMessage`, the functions of timers.

### What is hard, and what makes each part correct

| Part | What is hard | What makes it correct |
|---|---|---|
| Queue | pops fall between the accesses of a push that has an overflow vector besides the ring | a FIFO channel: nothing lost, doubled or overtaken, nothing stuck in the vector |
| Task exchange | an object is handed over twice, and freed by one side while the other works | a task is in one place at a time, run once, returned and freed once; a frame ends |
| Connection life cycle | both ends close; reads, writes and deletes all remove the device; descriptor numbers are reused between `close()` and the erase of the maps; the worker knows a session before main does | one holder per descriptor; a device is its session's socket; no session without a device or a notice, no device out of main's reach; one notice, last of all |
| Receive buffer | frames cut anywhere by TCP and by the end of the buffer; edge-triggered events | frames whole, in order, once; nothing left unread; only illegal clients cut off |
| Send buffer | partial sends, data appended behind data that waits | the stream unbroken; unsent bytes have an event due |
| Session ids | a counter that wraps and a clock that jumps | an id is never given to two sessions |
| Packet | a buffer that is reallocated below a head that is rewritten | the head reads back, what is appended stays in place (but for the 14 bytes of the finding), the message lies in the buffer |
| Player manager | relogin from another session, close during logoff, an object used after it is freed | a player is on one live session at most, and the reverse, for as long as no session is taken over and no freed object misread |
| Timers | a clock that is set back | at most one run per interval, and no timer stalls |
| Message dispatch | five ways out of one function, a packet that an asynchronous action keeps, a session that ended meanwhile | main looks no session up, so nothing may come of a session whose client ended it; the rest is read off the code |

## 2. Modules

| Module | Kind | Models |
|---|---|---|
| `Fifo` | abstract | an unbounded channel |
| `SpscQueue` | detailed, implements `Fifo` | one queue, access by access |
| `TaskLife` | abstract | free, posted, executed, free |
| `ThreadTasks` | detailed, implements `TaskLife` | the four queues of one worker and the frames of both sides |
| `SessionService` | abstract | one session per connection; no frame before it, twice, or after the client's end of it |
| `ConnLifecycle` | detailed, implements `SessionService` | main, all workers, the kernel's descriptors and epoll sets |
| `FrameChannel` | abstract | frames handed over whole, in order, once |
| `RecvBuffer` | detailed, implements `FrameChannel` | `doRead()` on one device |
| `SendBuffer` | detailed | `write()` and `doWrite()` on one device |
| `SessionId` | detailed | `getRandNewSession()` |
| `Packet` | sequential | a packet under any legal sequence of calls |
| `PlayerPresence` | abstract | each player on one live session at most, messages to that session only |
| `PlayerManager` | detailed, implements `PlayerPresence` | players and `SessionConn` objects with their addresses |
| `Dispatch` | extends `PlayerManager` | the life of a message's packet and task on the main thread, with the sessions and players |
| `TimerControl` | detailed | `update()` on a clock that can be set |
| `MCThreadTasks`, `MCConnLifecycle`, `MCDispatch` | | finite sets and symmetry for TLC |
| `*Proofs` | | theorems of the module named; `SendBufferProofs` of `Packet` too (a message on its way out), `MainThreadProofs` of `PlayerManager` and `Dispatch` |

The modules fit together by replacement. `SpscQueue` shows that one queue is a FIFO channel, so
`ThreadTasks` makes a call of `push()` or `checkCache()` one step, and `ConnLifecycle` makes a
queue a plain sequence. `ThreadTasks` shows that a task is executed once, in order, and returns,
so `ConnLifecycle` leaves the way back out. `RecvBuffer` shows that `doRead()` hands over
exactly the frames the client wrote, so in `ConnLifecycle` a socket holds a number of frames.
`SendBuffer` justifies `unsent`, the one bit `ConnLifecycle` keeps of a send buffer, and
`SessionId` says when the ids it counts upwards are indeed fresh. `PlayerManager` and `Dispatch`
run on the main thread alone, so a call is one step there: `PlayerManager` takes the sessions
`ConnLifecycle` begins and ends and adds the objects behind them; `Dispatch` extends it with the
messages, which look these sessions up, and so opens up the step `HandlePacket`.

Definitions named `X_Something` are mutated forms of `X`: `X` with a plausible mistake. No
specification uses them; they are there to show that each property can fail.

### State and actions against the code

* **`SpscQueue`.** `pc` is the position of the producer inside `push()` or `checkCache()`. A push
  is `PushCall` and then either `PushToRing` or `PushBehindCache`/`PushOverflow`; `checkCache()`
  is a loop of `MovePublish` (the value is in the ring) and `MoveErase` (it is gone from
  `m_cache`), between which the consumer may pop. `RingHasRoom` is the boost ring.
* **`ThreadTasks`.** `post` and `back` are the four queues by creator, `hand` is `m_obj_main` and
  `m_obj_thread`, `done` is `handlerTaskNum`. A frame (`update_main`, `update_thread`) is
  `BeginFrame`, `CompleteTask`*, `CompleteDone`, (`PopTask`, `ReturnTask`)*, `TasksDone`,
  `EndFrame`. The main side models its work for one worker.
* **`ConnLifecycle`.** `m_MapDeviceInfo`, `m_MapDeviceSessionInfo`, `m_pressure`,
  `m_MapSessionConnInfo` and the queues have the code's names. `wpc` and `mpc` say where a
  thread stands inside a handler and hold its locals; a step ends where another thread or the
  kernel can see the difference. `edge` is the set of client descriptors with an event due: it is
  set by an arrival and by the registration, and used up by a report, after which the thread reads
  until nothing is left (`ClientEvent`, then `ReadFrame`*, then `ReadStops` or `ReadFails`); a
  report with EPOLLOUT flushes first (`FlushSendBuffer`) or fails (`FlushFails`). `bare` holds the
  connections whose last frame is nothing but its four bytes of length; `doRead()` keeps such a
  frame until a byte follows (`HeldFrames`, `ClientMore`). `doAccept()` is `AcceptEvent`, then
  (`Accept`, `PushConn`)*, then `AcceptStops`, which stands for an `accept()` that fails for any
  reason whatever; `stranded` holds those who waited then. Removal is `CloseDevice`, then
  `EraseDevice`, since another thread can be given the number in between. The walk over the
  pressures is `ReadPressure` and `ComparePressure`: each comparison reads both of its sides anew,
  in either order. `HandlePacket` looks no session up, as `processMessage()` does not. `m_pressure`
  starts with any of `InitialPressures`, since no constructor sets it (`oryx/thread.h:27`). `gone`
  stands for every way a client ends a connection: FIN, RST, or an illegal length. In the
  refinement a session the server closed is in phase "closed", where the frames that were under
  way are still handled, and one whose client ended it is "ended", where none is.
* **`RecvBuffer`.** A byte is its position in the stream, so any loss, repetition or misplaced
  byte shows. `ClearedBuffers` is `clear_Recv_buff()`; `RecvData`, `RecvAgain` and `RecvFails`
  are the outcomes of `recv()`; `TakeFrame`, `IllegalFrame` and `FrameIncomplete` the outcomes
  of the inner loop. `packetLens` is what reading four bytes at `recv_begin` gives: the length
  the client wrote if a head lies there, anything otherwise.
* **`SendBuffer`.** `WriteAccepted` and `WriteRefused` are `WritePacketToConn()`; `SendTakes`,
  `SendDone`, `SendAgain` and `SendFails` the turns of `doWrite()`; `WriteEvent` is EPOLLOUT, and
  `ReadEvent` the EPOLLOUT that epoll reports together with EPOLLIN.
* **`SessionId`.** `TryAgain` and `NewSession` are the turns of the loop; `Span` is 100000. `steady`
  is a history: the clock was never set back and no second of it saw more than `Span` requests.
* **`Packet`.** Operators named after the member functions take a packet and return it changed
  (`AppendData` is `Append()`, whose name `Sequences` has taken); an action is one call from outside.
  `PacketInit`, `PacketNext` and so on bear their prefix because `SendBufferProofs` extends this
  module together with `SendBuffer`. A byte carries the field and the value it is part of.
  Frames from a client follow the layout, and their length is the one in their head, since
  `doRead()` has cut them by it. `received` remembers whether a packet was made of such a frame.
  Lengths are natural numbers, not `INT32`: at the lengths a connection can carry (4096 bytes) the
  doubling in `CheckLen()` stays far below 2^31.
* **`PlayerManager`.** `conn[a]` is what lies at address `a`; both maps hold addresses.
  `RemoveSessionConn` deletes the object first and then runs `OnSessionClose` on whatever can be
  read there (`Freed`), as the code does, and memory that is not allocated may change at any time
  (`FreedChanges`). A new `SessionConn` is put at any address that is free, so an entry that
  outlived its session comes to mean another one. `OnPlayerLogin` takes any session that is in
  being, another player's too. `intact` is a history: no read of a deleted object has given
  anything but its player, and no session was taken over from another player. `SendResult` has the
  order of the tests in `sendProtoToSession`, the inverted one included.
* **`Dispatch`.** `ProcessShort`, `ProcessUnknown` and `ProcessHandled` are the ways out of
  `processMessage()`. An action returns what `TestAction` does for the heartbeat and any
  `ActionResult` for other opcodes. `MainNext` is a step of the players and sessions or one of a
  message. What becomes of a packet is said by one test of `processMessage()`, so no property
  repeats it; the module is there for the leak and the use after free recorded below.
* **`TimerControl`.** `Update(t)` is one turn of the main loop with the clock at `t`. `ranAt` and
  `steady` are histories: when a timer ran last, and that the clock did not go back since.

### Details of the environment

* Sockets are non-blocking, and `recv`, `send` and `accept` on them do not return EINTR.
* Clients are registered for EPOLLIN and EPOLLOUT, edge-triggered; an event is due when something
  arrived, or room appeared, since the last report. A spurious report only adds a read that ends
  in EAGAIN.
* `epoll_ctl` may fail to register (`RegisterFails`). The code then does nothing: the descriptor
  stays open and the session stays in the map. `orphans` names these connections.
* `memcpy()` on overlapping regions is undefined, and both buffers do it. `OverlapAsMemmove` says
  that it behaves like `memmove()`; where it is FALSE the bytes held may turn into anything.
* Nothing is assumed of what `delete` leaves behind, nor of callers of `onPlayerLogin`. Two things
  the code does not guard against therefore happen in the model: `removeSessionConn` passes an
  object it has deleted to `onSessionClose` (`oryx/ClientConnManager.cpp:56-57`), and a login on a
  session of another player leaves that player's entry behind (`logic/PlayerManager.cpp:55`). The
  properties of `PlayerManager` say what holds all the same (`NamedIsOnline`) and that nothing else
  parts entries from sessions (`OnlineUntilMisuse`, `PresenceUntilMisuse`). The repository has no
  caller of `onPlayerLogin`, and nothing fills `m_mapPlayer_All`; `AllPlayers` stands for what a
  loader would put there.
* `m_pressure` is an integer without a width: a start value within a few devices of the ends of
  `INT32` would overflow, which the models leave out.

## 3. Runs

| Run | Bounds | Shows |
|---|---|---|
| `spsc_queue` | ring of 2, two values, 5 pushes | `ImplementsFifo`, and `Delivered` under fairness |
| `thread_tasks` | rings of 1, 3 tasks of main, 2 of the worker, 2 tasks a frame | `PipelineInOrder`, `ImplementsTaskLife`, `TaskReturns`, `FrameEnds` |
| `conn_safety` | 2 connections, descriptors, workers and sessions, 1 frame each (bare or not), 1 send, registration may fail, pressures from 0; symmetry; 1.6 million states | all safety properties and `ImplementsSessionService` |
| `conn_teardown` | 1 connection, 2 descriptors, 2 workers, 2 frames, 1 send, pressures from 0 or 2; 45 thousand states | `PressureFollowsDevices`, `DisconnectCleansUp`, `ServerCloseCompletes`, `FramesHandled` |
| `conn_accept` | 4 connections, 2 descriptors, 1 worker, 1 session, registration succeeds, no frames; `accept()` fails at will; 211 thousand states | `BacklogAccepted` |
| `recv_buffer` | head 2, buffer 5, 3 frames of lengths 1 (illegal), 2 (bare head), 3, 5 (full buffer), 6 (too long) | `RecvHasRoom`, `NothingStranded`, `CutForCause`, `ImplementsFrameChannel`, `FramesPushed` |
| `send_buffer` | head 2, buffer 6, kernel 2, 9 bytes framed | `OutIsStream`, `NothingStranded`, `Flushed` |
| `session_id` | `Span` 3, seconds 0 to 2, 5 ids, a clock set back and forth at will | `NeverReused` while the clock is steady, and `LoopEnds` |
| `packet` | smallest buffer 16, up to 66 bytes | `PacketTypeOK` (the message lies in the buffer), `HeadReadsBack`, `MessageContents` |
| `packet_used` | the same | a finding, see below: `UsedIsCounted` is violated |
| `main_thread` | 3 players, 2 of them known, 2 sessions, 2 addresses, 1 message of any opcode; symmetry; 434 thousand states | `NamedIsOnline`, `OnlineUntilMisuse`, `PresenceUntilMisuse` |
| `timer_control` | intervals of 2, 3 and 4, times 4 to 16, a clock set at will | `OncePerInterval`, `NoStall` |

**Why these bounds.** Five pushes through a ring of two fill the ring, the overflow vector, and
refill both. A ring of one slot and two tasks a frame make caches fill and frames stop at their
limit. Two connections, two descriptors and two workers are the least with which a closed number
is given to the next connection on *another* thread while the first is still being erased. A
head of two bytes can be torn, a buffer of five holds a full-size frame, and a frame with the
start of the next; the lengths are the boundary values of the two tests in `doRead()`. A kernel
that holds two bytes forces partial sends, and nine framed bytes make the buffer move while bytes
wait. A span of three wraps twice in the bounds. Packets up to 66 bytes over a first buffer of 16
double up to three times, and 14, 16 and 17 are the boundary sums. Four connections to
two descriptors let one connection be left behind while the others hold both, one of these close,
and the fourth arrive and make the stranded one due again. One session is enough there: main
may close it and free a descriptor, and nothing else about sessions matters to accepting. Pressures
that start at 0 on one worker and at 2 on the other make a connection go where the devices alone
would not send it. Two addresses for two sessions make a
new object lie where a deleted one was, and two players can contend for a session. The clock of
`timer_control` starts later than every interval, as the seconds since 1970 do, and is long enough
for several intervals, for turns that skip one, and for setbacks across one. The liveness run on teardown
has one connection because the state space with fairness is large; the interference between two
connections is covered by `conn_safety`. One message is enough for dispatch, since messages share
nothing but the sessions.

**Deadlock** is checked for `SpscQueue`, `ThreadTasks` and `Packet`. The other configurations turn
it off because their histories are bounded: when every connection has been made and closed,
every byte framed or the device removed, nothing is left to do; in `SessionId`, `Dispatch` and
`TimerControl` the environment can always move, so deadlock would say nothing.

**Fairness.** `ServerHandler::run` and `epoll_thread_run` are endless loops that sleep at most
for a bounded time and wait for no other thread, so each thread gets weak fairness of its
steps as a whole. In `ConnLifecycle` an idle worker that has both a task and an event may take
either, but the tasks and events are bounded, so neither starves the other. The flush of
a send buffer waits for the client to read and is not part of what a worker owes. Nothing is assumed of
clients, of the application or of the clock, with one exception: `Flushed` assumes that the client
reads.

### What the runs say about the code

* An accepted connection always ends up with a device or closed, except after a failed
  registration (`orphans`).
* `doAccept()` takes every error of `accept()`, EMFILE and ENOBUFS among them, for an empty backlog,
  and no further edge announces the connections that wait. `BacklogAccepted` says what remains
  true: a connection is accepted unless an `accept()` fails while it waits, and one that was
  stranded so is due again with the next connection that arrives; if none does it waits for ever.
* A frame that is a bare head of four bytes is not pushed until another byte follows, because the
  inner loop needs more than four; `CutForCause`, `FramesPushed` and `FramesHandled` state this
  exception.
* `sendMsgToConn()` accepts up to 4096 bytes, but with the length in front only 4092 fit: a longer
  message costs the connection (`WriteRefused` removes the device).
* Main dispatches a packet without looking its session up. `ImplementsSessionService` shows that
  after the client's end of a session no frame comes, by the order in which a worker pushes its
  tasks; after `closeConn()` frames under way still come, so every action has to look the session
  up itself, as `TestAction` does (`logic/TestAction.cpp:16`).
* `m_pressure` is initialised nowhere (`oryx/thread.h:27`, `oryx/thread.cpp:8-13`,
  `oryx/EpollHandler.cpp:14-18`), so the worker with the least pressure need not be the one with the
  fewest devices. `PressureFollowsDevices` shows that this difference is all: each step changes the
  counter by as much as the devices, whoever removes them. The scan is a race besides, and that
  several new connections may go to one worker is allowed.
* Entries of players online and live sessions correspond until a login takes over a session of
  another player, or a deleted `SessionConn` is read as something else; then an entry can outlive
  its session and lead to whatever is placed at its address next. Even so each live session is
  found, and the player named in it is found there (`NamedIsOnline`).

**Finding: `dataNowLen` of a new packet** (`packet_used`). The comment on `dataNowLen`
(`oryx/packet.h:63`, whose text lost its encoding but can be read as "size of the buffer
currently in use") and `GetRealData()`, which subtracts the head from it, say that the head
counts. `Init()` leaves it 0 after the head was written, and the line that would count it is commented
out (`oryx/packet.cpp:146`). The first `Append()` therefore puts the body where the head is, the
head overwrites its first 14 bytes, and the last 14 bytes of the message sent were never written.
The run shows the miscount. `MessageContents` states the damage in full and shows that it is no
more than that: the first 14 bytes appended to such a packet are lost whatever the lengths, every
later one arrives, and a packet made of a frame loses nothing. `HeadReadsBack` holds nevertheless.

**Seen while modelling.** These defects are in the models as the code has them, without a run
that shows them; no document of the repository promises otherwise:

* `logic/PlayerManager.cpp:113` takes the result `true` of `SerializeToArray()`, which is success, for
  the failure that line 115 logs. Every message with a body that can be serialized is dropped; only
  messages without one are sent (`SendResult`).
* `processMessage()` deletes the packet it made unless an action waits with it
  (`oryx/MessageHandler.cpp:49-53`), but the returns for an opcode without an action come before
  that and leak it (`oryx/MessageHandler.cpp:35`).
* `oryx/MessageHandler.cpp:57` reads the opcode for its error log from the packet deleted at line 52,
  for instance when a heartbeat is executed after its session ended.

* A connection whose registration failed keeps its descriptor and its session (`orphans`);
  `m_pressure`, `removeSessionConn` and `onPlayerLogin` are described above.

Seen and not modelled:

* `task_sendPacket::InitData` writes one byte past its allocation (`task/task_sendPacket.h:35`);
  nothing reads it.
* `task_sendPacket::on_free` deletes the task but never its `data_packet`
  (`task/task_sendPacket.cpp:11-14`): every message sent leaks its bytes.
* `sendMsgToConn` leaks its task when `InitData` refuses the message
  (`oryx/ClientConnManager.cpp:93-96`), for instance one longer than 4096 bytes.

## 4. Proofs

| Theorem | Says, for every value of the constants | Assumes |
|---|---|---|
| `SpscQueueProofs!TypeCorrect`, `NoValueLost` | the shape of the queue; no value lost, doubled or reordered | capacity positive |
| `SpscQueueProofs!QueueImplementsFifo` | the queue implements `Fifo` | the same |
| `ConnLifecycleProofs!TypeCorrect` | tasks carry what their kind needs; every lookup is made with a key the map can have | the placeholders are no members; descriptors are finitely many |
| `ConnLifecycleProofs!PressureCorrect` | every step changes `m_pressure` by as much as the devices of its thread; nothing of what it held at the start | the same |
| `ConnLifecycleProofs!HoldersCorrect` | every open descriptor has exactly one holder | the same |
| `ConnLifecycleProofs!DevicesCorrect` | a device is the socket its session was made for | the same |
| `ConnLifecycleProofs!SessionsCorrect` | a session main knows has a device, or one on its way, or a notice of its end, unless registration failed | the same |
| `ConnLifecycleProofs!DevicesReachable` | a device has its session at main, or its thread is removing it or told to | the same |
| `ConnLifecycleProofs!TasksCorrect` | packets and notices find their session, unless the server closed it | the same |
| `ConnLifecycleProofs!NotificationCorrect` | one notice of the end, after all else its device had to say | the same |
| `ConnLifecycleProofs!ServiceCorrect` | the threads together implement `SessionService`, although main looks no session up | the same |
| `RecvBufferProofs!TypeCorrect`, `RoomForRecv` | marks stay in the buffer; `recv()` always has room | nothing about `memcpy()` |
| `RecvBufferProofs!StreamInOrder`, `NoByteStranded` | the buffer holds the stream in order; nothing arrived stays unread | `OverlapAsMemmove` |
| `RecvBufferProofs!ReadImplementsChannel` | `doRead()` implements `FrameChannel` | `OverlapAsMemmove` |
| `RecvBufferProofs!OnlyCutForCause` | a connection is given up for a reset, an illegal length, or at the end of the stream, and nothing else | `OverlapAsMemmove` |
| `SendBufferProofs!TypeCorrect`, `StreamInOrder`, `NoByteStranded` | the same for sending | moves act as `memmove()` |
| `SendBufferProofs!PacketTypeCorrect` | a packet's message lies in its buffer | the smallest buffer holds a head; frames fit the bound on content |
| `SendBufferProofs!HeadCorrect`, `ContentCorrect` | the head reads back; which bytes of the content the receiver gets, and that a new packet loses exactly its first 14 | the same |
| `SessionIdProofs!IdsNeverReused` | no id is given twice while the clock is steady | `Span` positive |
| `ThreadTasksProofs!TypeCorrect`, `TasksInOrder` | no task is lost, doubled, overtaken or in two places | the two sides' tasks differ; capacity and limit positive |
| `ThreadTasksProofs!TasksImplementLife` | the exchange implements `TaskLife` | the same |
| `MainThreadProofs!TypeCorrect` | types, whatever is read from freed objects | the placeholders are no members |
| `MainThreadProofs!NamesCorrect` | live sessions have their objects, and players named in them are found there | the placeholders are no members |
| `MainThreadProofs!OnlineCorrect`, `PresenceImplemented` | until a misuse sessions and players online correspond, and the manager implements `PlayerPresence` | the same |
| `MainThreadProofs!MainOnlineCorrect` | all three with messages among the steps | the same |
| `TimerControlProofs!KeepsItsSlots`, `NeverStalls` | one run per interval; no timer stalls | intervals positive and not longer than the time since 1970 |

**The inductive invariants.**

* *Queue.* That nothing is lost is inductive only with the position of the producer: between
  `MovePublish` and `MoveErase` the first value of `m_cache` is in the ring, or popped, too. The
  refinement maps the abstract channel to the ring followed by what is really left in the vector.
* *Room for `recv()`.* (`RecvHasRoom`.) `Held < MaxBuf` at the top of the outer loop holds because the inner loop
  ends only with less than a whole frame, and a legal frame is at most as long as the buffer. It
  needs no assumption about the bytes, so it survives undefined copies.
* *Receive stream.* `IInv` of `RecvBufferProofs` joins the types with: frames lie one behind the
  other in the stream (`StreamShape`), marks and counts agree (`InBounds`), pushed packets are the
  first frames written (`PacketsMatch`), the bytes held are the next ones (`HeldIsStream`),
  before the next read less than a frame is held (`Incomplete`), and between reads either an
  edge is pending or all has been read (`Quiet`). `HeldIsStream` alone is not inductive: to know
  that the bytes at `recv_begin` are the head of the next frame and of no other (`HeadIsNext`),
  the proof needs the shape of the stream.
* *Send stream.* `OutIsStream` with the types is inductive; `NothingStranded` needs besides that
  SOCK_NOSPACE is only set when the kernel was full.
* *Session ids.* While the clock is steady the ids given in this second lie behind the counter, and there are too few of
  them for it to have come round: `Turns(counter, id) >= Span - Given`. No id is of a later
  second. In the loop fewer than `Span` ids have been given in this second, so the candidate is
  new.
* *Pressure.* (`PressureFollowsDevices`.) An action property, since nothing is known of the value
  at the start. A device is counted once only if the two maps of a worker have the same devices
  (`MapsAgree`), and is taken off once only if a worker that is reading from or removing a device
  still has it (`RemovesDevice`); the listening socket adds one only if it is on its way to one
  worker or registered, not both (`OneListener`). Main reads the counters and never writes them.
* *Descriptors and sessions.* `HolderInv` numbers the places where a descriptor can be
  (`Held`: accepted, in a queue to main, with main, in a queue to a worker, with a device, or
  orphaned) and says that an open one has one place and a closed one none (`OnePerFd`). It needs
  three companions: no two descriptors are one connection (`FilesOpen`); a session is in one place,
  too, and was given already (`OnePerSession`), without which `addDevice()` could refuse a
  descriptor whose session had a device and leak it; and who has both has those of one connection
  (`SessionsMatch`). The proof treats a step as a move: one descriptor and one session go from
  one place to another (`FdPassed`, `SessionPassed`), and all others stay where they are but for
  the queue that lost its head (`HeldKept`). `OneHolder` reads the set of holders off the one
  place (`HoldersCounted`), `DeviceIsItsSocket` follows from `MapsAgree` and `SessionsMatch`.
* *Sessions.* `SessionHasDevice`, `DeviceHasSession`, `TaskFindsSession` and `OneNotification` follow
  from `SessionInv`; by themselves they are not inductive, for they say nothing of the order of a
  session's tasks, of main between the two steps of `closeConn()` (`Dropping`), or of a session
  that two threads might have. `OneThread` says that a session never changes its thread and that
  nothing of it exists before it is given to one; `NotYetEntered` that main enters it once.
  `KnownHasDevice`, `LeavingTold`, `DeleteTold` and `LiveKnown` follow a session through its life,
  seen from main and from the worker; `EndIsLast` and `TasksKnown` say where in the queues its
  notice and its packets can be. They need `HolderInv`, by which a session's device, or the
  task that is to make it, is the only one of its kind.
* *Service.* (`ServiceInv`.) A step of the abstract service begins a session only for a connection that had none,
  and handles only frames that were sent. `OneSession` says that no two sessions are for one
  connection, and that an accepted descriptor without a session is a connection without one;
  `Counted` that the frames handled, those in tasks and those in the socket, bare ones included, are
  no more than were sent. Main has no test that keeps a late packet out. That it is none of a
  session the client ended is `TasksKnown`: a packet finds its session unless the server closed it.
  With all of the above (`FullInv`) each action maps to one step of the service or to none.
* *Giving up.* For `CutForCause` `IInv` is enough but for one fact, `ClosedIsWhole`: behind a FIN
  nothing arrives. At the end of the stream then only a bare head, or a frame of illegal length, can be
  left in the buffer (`EndOfStream`); and `recv()` returns 0 for no other reason, since it has room.
* *Packets.* `PacketInv` joins the size of the buffer, the head and the content (`MessageContents`). They need each
  other: a larger buffer gets only the used bytes, and the head of a new packet lies behind these,
  so enlarging would lose it if `WriteHead()` did not write it anew (`WriteHere`, `HeadWritten`).
  That the doubling in `CheckLen()` ends, and with a size that is large enough, is a statement about
  every length. It is proved without the library's induction theorems, which the provers cannot
  use, by looking at the least counterexample (`Least`, `GrownExists`, `CapacityLarge`).
* *Task exchange.* `PipelineInOrder` is inductive with the types: it says that what a side created
  and did not free is its return queue, the task in the other side's hand and its queue, in this
  order, so each action moves a task over one border or none. The refinement needs besides that no
  object is in `live` twice (`LivesDistinct`): only then does the task that leaves one part of the
  pipeline leave it altogether, and its phase is that of the part it went to. The proof treats
  `push()` and `checkCache()` through three lemmas about `Content` and never looks into a queue
  again.
* *Players.* `IInv` joins the types, `NamedIsOnline` and `OnlineUntilMisuse`. The first two are inductive by
  themselves: whatever `onSessionClose()` reads from the deleted object, it clears an entry and the
  name in the object the entry leads to, both or none; and a login writes both. The entries
  leading to live objects is kept by every step but the two that end `intact`. In
  `PresenceStep` a step that leaves `intact` TRUE finds it TRUE, so the abstract session of a player
  can be read through both maps. Steps of messages change none of it, so all holds of `Dispatch` too
  (`MainOnlineCorrect`).
* *Timers.* `lastRunTime` is always a multiple of the interval, and while the clock is not set back
  it is the beginning of the slot of the last run; otherwise it is 0, or later than the clock.

**Only model-checked.** Liveness under fairness, which is out of the prover's reach: `Delivered`,
`TaskReturns`, `FrameEnds`, `DisconnectCleansUp`, `ServerCloseCompletes`, `FramesHandled`,
`BacklogAccepted`, `FramesPushed`, `Flushed` and `LoopEnds`. Every invariant, action property and
refinement that a passing run checks is proved. `UsedIsCounted` is violated, as `packet_used` shows.
`NothingLost` of `SpscQueue` and `HeldIsStream` of `RecvBuffer` are proved as steps towards the
refinements and not run separately, because `ImplementsFifo` and `ImplementsFrameChannel` contain
them.

## 5. Not modelled

* Start-up (`ServerHandler::init`, sockets, daemon, signals, threads): straight-line I/O. Its final
  state is `Init` of `ConnLifecycle`.
* Logging, protobuf, the login action (a declaration without code) and the test client.
* The login action has no code, players are never loaded, and `m_mapAllPlayer_Dirty` is declared
  and not used; there is nothing to model behind `AllPlayers`.
* The vendored headers of protobuf (`proto/protocolbuf-windows`), which are most of the lines of
  the source tree, and the code generated from the message definitions (`proto/pb`). The server
  uses them through `ByteSize`, `SerializeToArray` and the test of an opcode. The server's own code is
  about 3400 lines.
* Failure of `new`, and the end of the process: nothing is persisted and nothing restarts.

## 6. Plan

In the order of importance to the system. All components with state of their own are modelled
and their safety is proved; liveness stays with TLC.

1. `SpscQueue` against `Fifo`. *Done, with proofs.*
2. `ThreadTasks` against `TaskLife`. *Done, with proofs.*
3. `ConnLifecycle` against `SessionService`. *Done, with proofs.*
4. `RecvBuffer` against `FrameChannel`. *Done, with proofs.*
5. `SendBuffer`. *Done, with proofs.*
6. `SessionId`. *Done, with proof.*
7. `Packet`. *Done, with proofs.*
8. `PlayerManager` against `PlayerPresence`. *Done, with proofs.*
9. `Dispatch`. *Done, with proofs.*
10. `TimerControl`. *Done, with proofs.*
