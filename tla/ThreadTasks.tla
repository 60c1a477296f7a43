---------------------------- MODULE ThreadTasks -----------------------------
(***************************************************************************)
(* The task exchange between the main thread and one worker thread         *)
(* (oryx/thread.cpp, oryx/thread.h, oryx/task.h).  Each side creates tasks *)
(* and pushes them to the other; the other executes them in its frame and  *)
(* pushes them back, and the creator completes and frees them.             *)
(*                                                                         *)
(*   post["main"]    m_queue_thread           main pushes, worker pops     *)
(*   back["main"]    m_queue_main_complete    worker pushes, main pops     *)
(*   post["worker"]  m_queue_main             worker pushes, main pops     *)
(*   back["worker"]  m_queue_thread_complete  main pushes, worker pops     *)
(*                                                                         *)
(* A frame is update_main() or update_thread(): drain the completions, run *)
(* at most MaxPerFrame tasks, let checkCache() move what waits.  One call  *)
(* of push() or checkCache() is one step here; SpscQueue has the pops that *)
(* fall between its accesses.                                              *)
(***************************************************************************)
EXTENDS Naturals, Sequences, SequencesExt

CONSTANTS
    MainTasks,     \* task objects the main thread allocates
    WorkerTasks,   \* task objects the worker thread allocates
    Capacity,      \* MAX_SPSC_QUEUE_SIZE
    MaxPerFrame,   \* MAX_HANDLER_SIZE_PERFRAME
    NoTask         \* no task in m_obj_main / m_obj_thread

ASSUME TaskAssumption ==
    /\ MainTasks \cap WorkerTasks = {}
    /\ NoTask \notin MainTasks \cup WorkerTasks
ASSUME BoundAssumption == Capacity \in Nat \ {0} /\ MaxPerFrame \in Nat \ {0}

Sides == {"main", "worker"}
Other(s) == IF s = "main" THEN "worker" ELSE "main"
TasksOf(s) == IF s = "main" THEN MainTasks ELSE WorkerTasks
AllTasks == MainTasks \cup WorkerTasks

VARIABLES
    post,      \* post[s]: tasks s created, on their way to the other side
    back,      \* back[s]: tasks s created, on their way back to s
    pc,        \* pc[s]: the part of its frame that side s is in
    hand,      \* hand[s]: the task s is executing (m_obj_main, m_obj_thread)
    done,      \* done[s]: handlerTaskNum of the frame of s
    live       \* history: the tasks s created and did not free, oldest first

vars == <<post, back, pc, hand, done, live>>

-----------------------------------------------------------------------------
(* spsc_queue, one call at a time: a ring and the overflow vector.         *)

EmptyQueue == [ring |-> <<>>, cache |-> <<>>]

CheckCache(q) ==
    LET room == Capacity - Len(q.ring)
        n    == IF Len(q.cache) < room THEN Len(q.cache) ELSE room
    IN  [ring  |-> q.ring \o SubSeq(q.cache, 1, n),
         cache |-> SubSeq(q.cache, n + 1, Len(q.cache))]

(* Mutated form: push() tries the ring although values wait in the cache. *)
Push_TriesRingFirst(q, t) ==
    IF Len(q.ring) < Capacity THEN [q EXCEPT !.ring = Append(@, t)]
    ELSE [q EXCEPT !.cache = Append(@, t)]

Push(q, t) == CheckCache([q EXCEPT !.cache = Append(@, t)])

CanPop(q) == q.ring # <<>>
Popped(q) == [q EXCEPT !.ring = Tail(@)]

Content(q) == q.ring \o q.cache

-----------------------------------------------------------------------------
Init ==
    /\ post = [s \in Sides |-> EmptyQueue]
    /\ back = [s \in Sides |-> EmptyQueue]
    /\ pc   = [s \in Sides |-> "outside"]
    /\ hand = [s \in Sides |-> NoTask]
    /\ done = [s \in Sides |-> 0]
    /\ live = [s \in Sides |-> <<>>]

(* push_task_thread() / push_task_main(): s allocates a task and pushes    *)
(* it, between two frames (EpollRun(), timers) or while it executes a task *)
(* (on_thread_call() of task_clientConn, WritePacketToConn(), ...).        *)
PushTask(s) == \E t \in TasksOf(s) :
    /\ pc[s] \in {"outside", "execute"}
    /\ t \notin ToSet(live[s])
    /\ post' = [post EXCEPT ![s] = Push(@, t)]
    /\ live' = [live EXCEPT ![s] = Append(@, t)]
    /\ UNCHANGED <<back, pc, hand, done>>

(* The frame of s begins. *)
BeginFrame(s) ==
    /\ pc[s] = "outside"
    /\ pc' = [pc EXCEPT ![s] = "complete"]
    /\ UNCHANGED <<post, back, hand, done, live>>

(* handlerTask_main_complete() / handlerTask_thread_complete(): the next   *)
(* task that came back is completed and freed.                             *)
CompleteTask(s) ==
    /\ pc[s] = "complete"
    /\ CanPop(back[s])
    /\ back' = [back EXCEPT ![s] = Popped(@)]
    /\ live' = [live EXCEPT ![s] = RemoveFirst(@, Head(back[s].ring))]
    /\ UNCHANGED <<post, pc, hand, done>>

CompleteDone(s) ==
    /\ pc[s] = "complete"
    /\ ~ CanPop(back[s])
    /\ pc' = [pc EXCEPT ![s] = "tasks"]
    /\ done' = [done EXCEPT ![s] = 0]
    /\ UNCHANGED <<post, back, hand, live>>

(* The loop test of handlerTask_main() and handlerTask_thread(). *)
MayRunTask(s) == done[s] < MaxPerFrame /\ CanPop(post[Other(s)])

(* Mutated form: the task is read from the queue and not removed. *)
PopTask_Peeks(s) ==
    /\ pc[s] = "tasks"
    /\ MayRunTask(s)
    /\ hand' = [hand EXCEPT ![s] = Head(post[Other(s)].ring)]
    /\ pc' = [pc EXCEPT ![s] = "execute"]
    /\ UNCHANGED <<post, back, done, live>>

(* handlerTask_main() / handlerTask_thread(): pop the next task and enter  *)
(* dotask().                                                               *)
PopTask(s) ==
    /\ pc[s] = "tasks"
    /\ MayRunTask(s)
    /\ hand' = [hand EXCEPT ![s] = Head(post[Other(s)].ring)]
    /\ post' = [post EXCEPT ![Other(s)] = Popped(@)]
    /\ pc' = [pc EXCEPT ![s] = "execute"]
    /\ UNCHANGED <<back, done, live>>

(* Mutated form: handlerTaskNum++ is missing. *)
ReturnTask_NotCounted(s) ==
    /\ pc[s] = "execute"
    /\ back' = [back EXCEPT ![Other(s)] = Push(@, hand[s])]
    /\ hand' = [hand EXCEPT ![s] = NoTask]
    /\ pc' = [pc EXCEPT ![s] = "tasks"]
    /\ UNCHANGED <<post, done, live>>

(* dotask() returned: the task goes back to its creator. *)
ReturnTask(s) ==
    /\ pc[s] = "execute"
    /\ back' = [back EXCEPT ![Other(s)] = Push(@, hand[s])]
    /\ hand' = [hand EXCEPT ![s] = NoTask]
    /\ done' = [done EXCEPT ![s] = @ + 1]
    /\ pc' = [pc EXCEPT ![s] = "tasks"]
    /\ UNCHANGED <<post, live>>

TasksDone(s) ==
    /\ pc[s] = "tasks"
    /\ ~ MayRunTask(s)
    /\ pc' = [pc EXCEPT ![s] = "check"]
    /\ UNCHANGED <<post, back, hand, done, live>>

(* Mutated form: the frame checks the cache of the task queue only. *)
EndFrame_OneQueue(s) ==
    /\ pc[s] = "check"
    /\ post' = [post EXCEPT ![s] = CheckCache(@)]
    /\ pc' = [pc EXCEPT ![s] = "outside"]
    /\ UNCHANGED <<back, hand, done, live>>

(* update_main() / update_thread(): checkCache() of the two queues s       *)
(* pushes to, which ends the frame.                                        *)
EndFrame(s) ==
    /\ pc[s] = "check"
    /\ back' = [back EXCEPT ![Other(s)] = CheckCache(@)]
    /\ post' = [post EXCEPT ![s] = CheckCache(@)]
    /\ pc' = [pc EXCEPT ![s] = "outside"]
    /\ UNCHANGED <<hand, done, live>>

Frame(s) ==
    \/ BeginFrame(s)
    \/ CompleteTask(s)
    \/ CompleteDone(s)
    \/ PopTask(s)
    \/ ReturnTask(s)
    \/ TasksDone(s)
    \/ EndFrame(s)

Next == \E s \in Sides : PushTask(s) \/ Frame(s)

Spec == Init /\ [][Next]_vars

(* Both threads loop for ever (ServerHandler::run, epoll_thread_run) and   *)
(* never wait for each other; posting is never an obligation.              *)
FairSpec == Spec /\ \A s \in Sides : WF_vars(Frame(s))

-----------------------------------------------------------------------------
QueueOf(S) == [ring : Seq(S), cache : Seq(S)]

TypeOK ==
    /\ post \in [Sides -> QueueOf(AllTasks)]
    /\ back \in [Sides -> QueueOf(AllTasks)]
    /\ hand \in [Sides -> AllTasks \cup {NoTask}]
    /\ live \in [Sides -> Seq(AllTasks)]
    /\ pc \in [Sides -> {"outside", "complete", "tasks", "execute", "check"}]
    /\ done \in [Sides -> 0..MaxPerFrame]
    /\ \A s \in Sides :
        /\ post[s] \in QueueOf(TasksOf(s)) /\ Len(post[s].ring) <= Capacity
        /\ back[s] \in QueueOf(TasksOf(s)) /\ Len(back[s].ring) <= Capacity
        /\ hand[s] \in TasksOf(Other(s)) \cup {NoTask}
        /\ hand[s] # NoTask <=> pc[s] = "execute"
        /\ pc[s] = "execute" => done[s] < MaxPerFrame
        /\ live[s] \in Seq(TasksOf(s))

InHand(s) == IF hand[s] = NoTask THEN <<>> ELSE <<hand[s]>>

(* The tasks of s between their creation and their return, oldest first. *)
Pipeline(s) == Content(back[s]) \o (InHand(Other(s)) \o Content(post[s]))

(* Every task that was created and not freed is in exactly one place, in   *)
(* the order of creation: no task is lost, run twice, freed while the      *)
(* other thread still holds it, or overtaken (thread.cpp:59-104).          *)
PipelineInOrder == \A s \in Sides : Pipeline(s) = live[s]

(* The life of a task as its creator sees it.                              *)
Phase(t) ==
    IF \E s \in Sides : t \in ToSet(Content(back[s])) THEN "executed"
    ELSE IF \E s \in Sides : t \in ToSet(Content(post[s])) \/ hand[s] = t
    THEN "posted"
    ELSE "free"

Lives == INSTANCE TaskLife WITH
            Tasks <- AllTasks, phase <- [t \in AllTasks |-> Phase(t)]

(* A task is executed once, then completed and freed once, by its creator: *)
(* Task::OnExcute and Task::OnComplete alternate on every object.          *)
ImplementsTaskLife == Lives!Spec

(* Every posted task comes back to its creator and is freed, also when it  *)
(* was caught in a cache and nothing is posted any more.                   *)
TaskReturns ==
    \A s \in Sides : \A t \in TasksOf(s) :
        (t \in ToSet(live[s])) ~> (t \notin ToSet(live[s]))

(* A frame ends although the other side may go on posting for ever: the    *)
(* loop over the completions is limited by what this side posted, the loop *)
(* over the tasks by MAX_HANDLER_SIZE_PERFRAME.                            *)
FrameEnds == \A s \in Sides : []<>(pc[s] = "outside")

=============================================================================
