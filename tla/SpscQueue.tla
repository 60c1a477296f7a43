----------------------------- MODULE SpscQueue ------------------------------
(***************************************************************************)
(* spsc_queue of oryx/spsc_queue.h: a lock-free ring of fixed capacity     *)
(* (boost::lockfree::spsc_queue, external) with an overflow vector m_cache *)
(* that only the pushing thread touches.  The consumer may pop between any *)
(* two accesses of the producer, so push() and checkCache() are modelled   *)
(* access by access; `pc` is where the producer stands.                    *)
(*                                                                         *)
(*   "idle"   outside push() and checkCache()                              *)
(*   "push"   in push(), the value in `data` not stored yet                *)
(*   "check"  at the loop test of checkCache()                             *)
(*   "erase"  m_cache[0] is in the ring, and not erased from m_cache yet   *)
(***************************************************************************)
EXTENDS Naturals, Sequences

CONSTANTS
    Data,        \* the values that are pushed
    Capacity,    \* MAX_SPSC_QUEUE_SIZE, the capacity of the ring
    MaxPush      \* bound: how many pushes a behaviour makes

ASSUME CapacityAssumption == Capacity \in Nat \ {0}
ASSUME MaxPushAssumption  == MaxPush \in Nat

VARIABLES
    m_queue,     \* the ring, oldest value first
    m_cache,     \* the overflow vector, oldest value first
    pc,          \* where the producer stands
    data,        \* the argument of the push() in progress (<<>> or <<d>>)
    pushed,      \* history: the arguments of all push() calls
    popped       \* history: the values returned by pop()

vars == <<m_queue, m_cache, pc, data, pushed, popped>>

-----------------------------------------------------------------------------
(* The external ring: push() fails exactly when the ring is full.          *)

(* Mutated form: one slot too many, the classic off-by-one of a ring. *)
RingHasRoom_OffByOne == Len(m_queue) <= Capacity

RingHasRoom == Len(m_queue) < Capacity

Init ==
    /\ m_queue = <<>>
    /\ m_cache = <<>>
    /\ pc = "idle"
    /\ data = <<>>
    /\ pushed = <<>>
    /\ popped = <<>>

(* A call of push(d) begins. *)
PushCall(d) ==
    /\ pc = "idle"
    /\ Len(pushed) < MaxPush
    /\ pc' = "push"
    /\ data' = <<d>>
    /\ pushed' = Append(pushed, d)
    /\ UNCHANGED <<m_queue, m_cache, popped>>

(* push(): values are already waiting in m_cache, so the new one waits     *)
(* behind them.                                                            *)
PushBehindCache ==
    /\ pc = "push"
    /\ m_cache # <<>>
    /\ m_cache' = m_cache \o data
    /\ data' = <<>>
    /\ pc' = "check"
    /\ UNCHANGED <<m_queue, pushed, popped>>

(* push(): m_cache is empty and the ring takes the value. *)
PushToRing ==
    /\ pc = "push"
    /\ m_cache = <<>>
    /\ RingHasRoom
    /\ m_queue' = m_queue \o data
    /\ data' = <<>>
    /\ pc' = "check"
    /\ UNCHANGED <<m_cache, pushed, popped>>

(* push(): m_cache is empty and m_queue.push() returned false. *)
PushOverflow ==
    /\ pc = "push"
    /\ m_cache = <<>>
    /\ ~ RingHasRoom
    /\ m_cache' = m_cache \o data
    /\ data' = <<>>
    /\ pc' = "check"
    /\ UNCHANGED <<m_queue, pushed, popped>>

(* Mutated form: no frame calls checkCache(), only push() does. *)
CheckCacheCall_Never == FALSE

(* checkCache() called from the frame loop of the pushing thread           *)
(* (Thread::update_main and Thread::update_thread call it every frame).    *)
CheckCacheCall ==
    /\ pc = "idle"
    /\ pc' = "check"
    /\ UNCHANGED <<m_queue, m_cache, data, pushed, popped>>

(* checkCache(): m_queue.push(m_cache[0]) succeeds. *)
MovePublish ==
    /\ pc = "check"
    /\ m_cache # <<>>
    /\ RingHasRoom
    /\ m_queue' = Append(m_queue, Head(m_cache))
    /\ pc' = "erase"
    /\ UNCHANGED <<m_cache, data, pushed, popped>>

(* Mutated form: the value that went into the ring also stays in m_cache. *)
MoveErase_Keeps ==
    /\ pc = "erase"
    /\ pc' = "check"
    /\ UNCHANGED <<m_queue, m_cache, data, pushed, popped>>

(* checkCache(): m_cache.erase(m_cache.begin()). *)
MoveErase ==
    /\ pc = "erase"
    /\ m_cache' = Tail(m_cache)
    /\ pc' = "check"
    /\ UNCHANGED <<m_queue, data, pushed, popped>>

(* checkCache(): nothing waits, or m_queue.push() returned false. *)
CheckCacheReturn ==
    /\ pc = "check"
    /\ m_cache = <<>> \/ ~ RingHasRoom
    /\ pc' = "idle"
    /\ UNCHANGED <<m_queue, m_cache, data, pushed, popped>>

(* pop() by the consumer; a pop() of an empty ring returns false and       *)
(* changes nothing.                                                        *)
Pop ==
    /\ m_queue # <<>>
    /\ popped' = Append(popped, Head(m_queue))
    /\ m_queue' = Tail(m_queue)
    /\ UNCHANGED <<m_cache, pc, data, pushed>>

Producer ==
    \/ PushBehindCache
    \/ PushToRing
    \/ PushOverflow
    \/ MovePublish
    \/ MoveErase
    \/ CheckCacheReturn

Next ==
    \/ \E d \in Data : PushCall(d)
    \/ CheckCacheCall
    \/ Producer
    \/ Pop

(* The producer finishes the calls it starts and its frame loop calls      *)
(* checkCache() again and again; the consumer's frame loop keeps popping.  *)
(* Nobody is obliged to push.                                              *)
Fairness ==
    /\ WF_vars(Producer)
    /\ WF_vars(CheckCacheCall)
    /\ WF_vars(Pop)

Spec == Init /\ [][Next]_vars

FairSpec == Spec /\ Fairness

-----------------------------------------------------------------------------
(* The shape of the state: the ring never holds more than its capacity,    *)
(* only a push() in progress holds a value back, and only a value that is  *)
(* still in m_cache is about to be erased from it (spsc_queue.h:44-46).    *)
TypeOK ==
    /\ m_queue \in Seq(Data) /\ Len(m_queue) <= Capacity
    /\ m_cache \in Seq(Data)
    /\ pc \in {"idle", "push", "check", "erase"}
    /\ data \in {<<>>} \cup {<<d>> : d \in Data}
    /\ (pc = "push") <=> (data # <<>>)
    /\ pc = "erase" => m_cache # <<>>
    /\ pushed \in Seq(Data)
    /\ popped \in Seq(Data)

(* The part of m_cache that is not in the ring. *)
Waiting == IF pc = "erase" THEN Tail(m_cache) ELSE m_cache

(* Everything pushed and not popped yet, in order. *)
Backlog == m_queue \o (Waiting \o data)

(* No push is lost, duplicated or overtaken, whatever the interleaving of  *)
(* pops with the spilling into m_cache and back (push() and checkCache()). *)
NothingLost == pushed = popped \o Backlog

(* The queue with its ring and overflow vector behaves as the unbounded    *)
(* FIFO channel its users (Thread's four task queues) take it for.         *)
Channel == INSTANCE Fifo WITH accepted <- pushed, delivered <- popped
ImplementsFifo == Channel!Spec

(* Every value pushed is popped in the end, also one that was caught in    *)
(* m_cache and after which nothing was ever pushed again: the per-frame    *)
(* checkCache() of thread.cpp:41-42 and 53-54 is what brings it out.       *)
Delivered ==
    \A n \in 1..MaxPush : (Len(pushed) >= n) ~> (Len(popped) >= n)

=============================================================================
