------------------------- MODULE ThreadTasksProofs --------------------------
(***************************************************************************)
(* For any task objects, ring capacity and limit of a frame: a task is in  *)
(* one place at a time, in the order of creation, and the exchange         *)
(* implements TaskLife.                                                    *)
(***************************************************************************)
EXTENDS ThreadTasks, SequenceTheorems, TLAPS

USE TaskAssumption, BoundAssumption

(* A queue whose ring is not over-full. *)
Legal(q, S) == q \in QueueOf(S) /\ Len(q.ring) <= Capacity

-----------------------------------------------------------------------------
(* One call on a queue.                                                    *)

(* A queue is a ring and a cache. *)
LEMMA QueueParts ==
    ASSUME NEW S, NEW q \in QueueOf(S)
    PROVE  \E ring, cache \in Seq(S) :
              q = [ring |-> ring, cache |-> cache] /\ q.ring = ring /\ q.cache = cache
BY DEF QueueOf

(* A queue of two sequences is one, and its parts are these. *)
LEMMA PartsOfQueue ==
    ASSUME NEW S, NEW ring \in Seq(S), NEW cache \in Seq(S)
    PROVE  /\ Len(ring) <= Capacity => Legal([ring |-> ring, cache |-> cache], S)
           /\ Content([ring |-> ring, cache |-> cache]) = ring \o cache
           /\ [ring |-> ring, cache |-> cache] \in QueueOf(S)
BY DEF Legal, QueueOf, Content

(* The first n elements of a sequence and the others are the sequence. *)
LEMMA SplitSequence ==
    ASSUME NEW S, NEW seq \in Seq(S), NEW n \in 0 .. Len(seq)
    PROVE  /\ SubSeq(seq, 1, n) \in Seq(S) /\ Len(SubSeq(seq, 1, n)) = n
           /\ SubSeq(seq, n + 1, Len(seq)) \in Seq(S)
           /\ SubSeq(seq, 1, n) \o SubSeq(seq, n + 1, Len(seq)) = seq
<1>1. Len(seq) \in Nat /\ \A i \in 1 .. Len(seq) : seq[i] \in S
  BY ElementOfSeq, LenProperties
<1>2. /\ SubSeq(seq, 1, n) \in Seq(S) /\ Len(SubSeq(seq, 1, n)) = n
      /\ SubSeq(seq, n + 1, Len(seq)) \in Seq(S)
  BY <1>1, SubSeqProperties
<1>3. CASE n = 0
  BY <1>1, <1>3, SubSeqEmpty, SubSeqFull, ConcatEmptySeq
<1>4. CASE n = Len(seq)
  BY <1>1, <1>4, SubSeqEmpty, SubSeqFull, ConcatEmptySeq
<1>5. CASE n \in 1 .. Len(seq) - 1
  BY <1>1, <1>5, ConcatAdjacentSubSeq, SubSeqFull
<1>6. n = 0 \/ n = Len(seq) \/ n \in 1 .. Len(seq) - 1
  BY <1>1
<1> QED
  BY <1>2, <1>3, <1>4, <1>5, <1>6

(* checkCache() moves values from the cache to the ring and keeps their    *)
(* order.                                                                  *)
LEMMA CheckCacheKeeps ==
    ASSUME NEW S, NEW q \in QueueOf(S), Len(q.ring) <= Capacity
    PROVE  Legal(CheckCache(q), S) /\ Content(CheckCache(q)) = Content(q)
<1>1. PICK ring \in Seq(S), cache \in Seq(S) :
         q = [ring |-> ring, cache |-> cache] /\ q.ring = ring /\ q.cache = cache
  BY QueueParts
<1> DEFINE room == Capacity - Len(ring)
           n    == IF Len(cache) < room THEN Len(cache) ELSE room
           moved == SubSeq(cache, 1, n)
           kept  == SubSeq(cache, n + 1, Len(cache))
<1>2. n \in 0 .. Len(cache) /\ Len(ring) + n <= Capacity
  <2>1. Len(ring) \in Nat /\ Len(cache) \in Nat /\ Len(ring) <= Capacity
    BY <1>1, LenProperties
  <2> QED
    BY <2>1
<1>3. CheckCache(q) = [ring |-> ring \o moved, cache |-> kept]
  BY <1>1 DEF CheckCache
<1> HIDE DEF n
<1>4. moved \o kept = cache /\ Len(moved) = n
  BY <1>2, SplitSequence
<1>5. moved \in Seq(S) /\ kept \in Seq(S)
  BY <1>2, SplitSequence
<1> HIDE DEF moved, kept, room
<1>6. (ring \o moved) \o kept = ring \o cache
  <2>1. (ring \o moved) \o kept = ring \o (moved \o kept)
    BY <1>5, ConcatAssociative
  <2> QED
    BY <1>4, <2>1
<1>7. Content(q) = ring \o cache
  BY <1>1, PartsOfQueue
<1>8. ring \o moved \in Seq(S) /\ Len(ring \o moved) <= Capacity
  BY <1>2, <1>4, <1>5, ConcatProperties
<1> DEFINE front == ring \o moved
<1> HIDE DEF front
<1>9. /\ Legal([ring |-> front, cache |-> kept], S)
      /\ Content([ring |-> front, cache |-> kept]) = front \o kept
  BY <1>5, <1>8, PartsOfQueue DEF front
<1> QED
  BY <1>3, <1>6, <1>7, <1>9 DEF front

(* push() puts the value behind all others. *)
LEMMA PushAppends ==
    ASSUME NEW S, NEW q \in QueueOf(S), Len(q.ring) <= Capacity, NEW t \in S
    PROVE  Legal(Push(q, t), S) /\ Content(Push(q, t)) = Content(q) \o <<t>>
<1>1. PICK ring \in Seq(S), cache \in Seq(S) :
         q = [ring |-> ring, cache |-> cache] /\ q.ring = ring /\ q.cache = cache
  BY QueueParts
<1> DEFINE longer == cache \o <<t>>
           p == [ring |-> ring, cache |-> longer]
<1>2. <<t>> \in Seq(S) /\ longer \in Seq(S) /\ Append(cache, t) = longer
  BY AppendIsConcat, ConcatProperties
<1>3. [q EXCEPT !.cache = Append(@, t)] = p
  <2>1. [q EXCEPT !.cache = Append(@, t)] = [q EXCEPT !.cache = longer]
    BY <1>1, <1>2
  <2> HIDE DEF longer
  <2> QED
    BY <1>1, <2>1, PartsOfQueue
<1>4. ring \o longer = (ring \o cache) \o <<t>>
  BY <1>2, ConcatAssociative
<1> HIDE DEF longer
<1>5. p \in QueueOf(S) /\ p.ring = ring /\ Content(p) = ring \o longer
  BY <1>2, PartsOfQueue
<1>6. Content(q) = ring \o cache
  BY <1>1, PartsOfQueue
<1>7. Legal(CheckCache(p), S) /\ Content(CheckCache(p)) = Content(p)
  BY <1>1, <1>5, CheckCacheKeeps
<1>8. Push(q, t) = CheckCache(p)
  BY <1>3 DEF Push
<1> QED
  BY <1>4, <1>5, <1>6, <1>7, <1>8

(* pop() takes the first value. *)
LEMMA PopTakesFirst ==
    ASSUME NEW S, NEW q \in QueueOf(S), Len(q.ring) <= Capacity, CanPop(q)
    PROVE  /\ Legal(Popped(q), S)
           /\ Head(q.ring) \in S
           /\ Content(q) = <<Head(q.ring)>> \o Content(Popped(q))
<1>1. PICK ring \in Seq(S), cache \in Seq(S) :
         q = [ring |-> ring, cache |-> cache] /\ q.ring = ring /\ q.cache = cache
  BY QueueParts
<1>2. ring # <<>> /\ Len(ring) \in Nat /\ Len(ring) <= Capacity
  BY <1>1, LenProperties DEF CanPop
<1>3. /\ Head(ring) \in S /\ Tail(ring) \in Seq(S)
      /\ Len(Tail(ring)) <= Capacity
  BY <1>2, HeadTailProperties
<1>4. ring = <<Head(ring)>> \o Tail(ring)
  BY <1>2
<1>5. ring \o cache = <<Head(ring)>> \o (Tail(ring) \o cache)
  BY <1>3, <1>4, ConcatAssociative
<1>6. Popped(q) = [ring |-> Tail(ring), cache |-> cache]
  <2>1. Popped(q) = [q EXCEPT !.ring = Tail(ring)]
    BY <1>1 DEF Popped
  <2> QED
    BY <1>1, <2>1
<1>7. Content(q) = ring \o cache
  BY <1>1, PartsOfQueue
<1>8. Legal(Popped(q), S) /\ Content(Popped(q)) = Tail(ring) \o cache
  BY <1>3, <1>6, PartsOfQueue
<1> QED
  BY <1>1, <1>3, <1>5, <1>7, <1>8

(* The first occurrence of the first element is removed: the rest remains. *)
LEMMA RemoveFirstIsTail ==
    ASSUME NEW S, NEW t \in S, NEW rest \in Seq(S)
    PROVE  RemoveFirst(<<t>> \o rest, t) = rest
<1> DEFINE q == <<t>> \o rest
           I == {i \in 1 .. Len(q) : q[i] = t}
<1>1. /\ q \in Seq(S) /\ Len(q) = Len(rest) + 1 /\ Len(rest) \in Nat
      /\ q[1] = t /\ \A i \in 1 .. Len(rest) : q[i + 1] = rest[i]
  BY ConcatProperties
<1> HIDE DEF q
<1>2. 1 \in I /\ \A i \in I : i \in Nat /\ 1 <= i
  BY <1>1
<1>3. Min(I) = 1
  BY <1>2 DEF Min
<1>4. RemoveFirst(q, t) = RemoveAt(q, 1)
  BY <1>2, <1>3 DEF RemoveFirst, SelectInSeq
<1>5. RemoveFirst(q, t) = SubSeq(q, 1, 0) \o SubSeq(q, 2, Len(q))
  BY <1>1, <1>4 DEF RemoveAt
<1>6. SubSeq(q, 2, Len(q)) = rest
  <2>1. \A i \in 2 .. Len(q) : q[i] \in S
    BY <1>1, ElementOfSeq
  <2>2. /\ SubSeq(q, 2, Len(q)) \in Seq(S)
        /\ Len(SubSeq(q, 2, Len(q))) = Len(rest)
        /\ \A i \in 1 .. Len(rest) : SubSeq(q, 2, Len(q))[i] = rest[i]
    BY <1>1, <2>1, SubSeqProperties
  <2> QED
    BY <2>2, SeqEqual
<1>7. RemoveFirst(q, t) = rest
  BY <1>5, <1>6, SubSeqEmpty, ConcatEmptySeq
<1> QED
  BY <1>7 DEF q

-----------------------------------------------------------------------------
(* Types.                                                                  *)

(* There are two threads, and their tasks differ. *)
LEMMA TwoSides ==
    ASSUME NEW s \in Sides
    PROVE  /\ Other(s) \in Sides /\ Other(s) # s /\ Other(Other(s)) = s
           /\ \A u \in Sides : u = s \/ u = Other(s)
           /\ TasksOf(s) \subseteq AllTasks /\ NoTask \notin AllTasks
           /\ TasksOf(s) \cap TasksOf(Other(s)) = {}
BY DEF Sides, Other, TasksOf, AllTasks

(* A queue of one side's tasks is a queue of tasks. *)
LEMMA LegalForAll ==
    ASSUME NEW s \in Sides, NEW q, Legal(q, TasksOf(s))
    PROVE  q \in QueueOf(AllTasks)
<1>1. q \in QueueOf(TasksOf(s)) /\ TasksOf(s) \subseteq AllTasks
  BY TwoSides DEF Legal
<1>2. PICK ring \in Seq(TasksOf(s)), cache \in Seq(TasksOf(s)) :
         q = [ring |-> ring, cache |-> cache] /\ q.ring = ring /\ q.cache = cache
  BY <1>1, QueueParts
<1>3. ring \in Seq(AllTasks) /\ cache \in Seq(AllTasks)
  BY <1>1, SeqMonotonic
<1> QED
  BY <1>2, <1>3, PartsOfQueue

(* The shape of what belongs to one side. *)
SideOK(s) ==
    /\ Legal(post[s], TasksOf(s))
    /\ Legal(back[s], TasksOf(s))
    /\ hand[s] \in TasksOf(Other(s)) \cup {NoTask}
    /\ hand[s] # NoTask <=> pc[s] = "execute"
    /\ pc[s] = "execute" => done[s] < MaxPerFrame
    /\ live[s] \in Seq(TasksOf(s))

(* The maps from the two sides. *)
MapsOK ==
    /\ post \in [Sides -> QueueOf(AllTasks)]
    /\ back \in [Sides -> QueueOf(AllTasks)]
    /\ hand \in [Sides -> AllTasks \cup {NoTask}]
    /\ live \in [Sides -> Seq(AllTasks)]
    /\ pc \in [Sides -> {"outside", "complete", "tasks", "execute", "check"}]
    /\ done \in [Sides -> 0..MaxPerFrame]

LEMMA TypeParts == TypeOK <=> MapsOK /\ \A s \in Sides : SideOK(s)
BY DEF TypeOK, MapsOK, SideOK, Legal

(* The three parts of the pipeline of a side are sequences of its tasks.   *)
LEMMA PipelineTyped ==
    ASSUME TypeOK, NEW s \in Sides
    PROVE  /\ Content(back[s]) \in Seq(TasksOf(s))
           /\ InHand(Other(s)) \in Seq(TasksOf(s))
           /\ Content(post[s]) \in Seq(TasksOf(s))
<1>1. SideOK(s) /\ SideOK(Other(s)) /\ Other(Other(s)) = s
  BY TypeParts, TwoSides
<1>2. \A q \in QueueOf(TasksOf(s)) : Content(q) \in Seq(TasksOf(s))
  BY ConcatProperties DEF QueueOf, Content
<1>3. hand[Other(s)] = NoTask \/ hand[Other(s)] \in TasksOf(s)
  BY <1>1 DEF SideOK
<1>4. InHand(Other(s)) \in Seq(TasksOf(s))
  <2>1. \A t \in TasksOf(s) : <<t>> \in Seq(TasksOf(s))
    OBVIOUS
  <2> QED
    BY <1>3, <2>1, EmptySeq DEF InHand
<1> QED
  BY <1>1, <1>2, <1>4 DEF SideOK, Legal

(* The task that is completed is the oldest one. *)
LEMMA OldestCompletes ==
    ASSUME TypeOK, NEW s \in Sides, Pipeline(s) = live[s], CanPop(back[s])
    PROVE  LET x    == Head(back[s].ring)
               rest == Content(Popped(back[s]))
                          \o (InHand(Other(s)) \o Content(post[s]))
           IN  /\ x \in TasksOf(s) /\ rest \in Seq(TasksOf(s))
               /\ live[s] = <<x>> \o rest
               /\ RemoveFirst(live[s], x) = rest
<1> DEFINE x == Head(back[s].ring)
           b == Content(Popped(back[s]))
           h == InHand(Other(s)) \o Content(post[s])
<1>1. /\ Legal(Popped(back[s]), TasksOf(s)) /\ x \in TasksOf(s)
      /\ Content(back[s]) = <<x>> \o b
  BY TypeParts, PopTakesFirst DEF SideOK, Legal
<1>2. b \in Seq(TasksOf(s))
  BY <1>1, QueueParts, ConcatProperties DEF Legal, Content
<1>3. h \in Seq(TasksOf(s))
  BY PipelineTyped, ConcatProperties
<1>4. live[s] = (<<x>> \o b) \o h
  BY <1>1 DEF Pipeline
<1> HIDE DEF x, b, h
<1>5. (<<x>> \o b) \o h = <<x>> \o (b \o h) /\ b \o h \in Seq(TasksOf(s))
  BY <1>1, <1>2, <1>3, ConcatAssociative, ConcatProperties
<1>6. live[s] = <<x>> \o (b \o h)
  BY <1>4, <1>5
<1>7. RemoveFirst(live[s], x) = b \o h
  BY <1>1, <1>5, <1>6, RemoveFirstIsTail
<1> QED
  BY <1>1, <1>5, <1>6, <1>7 DEF x, b, h

(* Every step keeps the shape of the queues. *)
LEMMA TypeStep == TypeOK /\ PipelineInOrder /\ [Next]_vars => TypeOK'
<1> SUFFICES ASSUME MapsOK, \A s \in Sides : SideOK(s), [Next]_vars,
                    TypeOK, PipelineInOrder
             PROVE  MapsOK' /\ \A s \in Sides : SideOK(s)'
  BY TypeParts DEF TypeOK, MapsOK, SideOK, Legal
<1>1. CASE UNCHANGED vars
  BY <1>1 DEF vars, MapsOK, SideOK
<1>2. ASSUME NEW s \in Sides, PushTask(s) \/ Frame(s)
      PROVE  MapsOK' /\ \A u \in Sides : SideOK(u)'
  <2> DEFINE o == Other(s)
  <2>1. /\ o \in Sides /\ o # s /\ Other(o) = s
        /\ \A u \in Sides : u = s \/ u = o
        /\ TasksOf(s) \subseteq AllTasks /\ TasksOf(o) \subseteq AllTasks
        /\ NoTask \notin AllTasks
    BY TwoSides
  <2>2. SideOK(s) /\ SideOK(o)
    BY <2>1
  <2> HIDE DEF o
  <2> SUFFICES MapsOK' /\ SideOK(s)' /\ SideOK(o)'
    BY <2>1
  <2>3. CASE PushTask(s)
    <3>1. PICK t \in TasksOf(s) :
             /\ pc[s] \in {"outside", "execute"}
             /\ post' = [post EXCEPT ![s] = Push(@, t)]
             /\ live' = [live EXCEPT ![s] = Append(@, t)]
             /\ UNCHANGED <<back, pc, hand, done>>
      BY <2>3 DEF PushTask
    <3>2. Legal(Push(post[s], t), TasksOf(s))
      BY <2>2, PushAppends DEF SideOK, Legal
    <3>3. Push(post[s], t) \in QueueOf(AllTasks)
      BY <3>2, LegalForAll
    <3>4. /\ Append(live[s], t) \in Seq(TasksOf(s))
          /\ Append(live[s], t) \in Seq(AllTasks)
      <4>1. Append(live[s], t) \in Seq(TasksOf(s))
        BY <2>2, AppendProperties DEF SideOK
      <4> QED
        BY <2>1, <4>1, SeqMonotonic
    <3> QED
      BY <2>1, <2>2, <3>1, <3>2, <3>3, <3>4 DEF MapsOK, SideOK
  <2>4. CASE CompleteTask(s)
    <3>1. /\ Legal(Popped(back[s]), TasksOf(s))
          /\ Head(back[s].ring) \in TasksOf(s)
      BY <2>2, <2>4, PopTakesFirst DEF CompleteTask, SideOK, Legal
    <3>2. Popped(back[s]) \in QueueOf(AllTasks)
      BY <3>1, LegalForAll
    <3>3. RemoveFirst(live[s], Head(back[s].ring)) \in Seq(TasksOf(s))
      BY <2>4, OldestCompletes DEF CompleteTask, PipelineInOrder
    <3>4. RemoveFirst(live[s], Head(back[s].ring)) \in Seq(AllTasks)
      BY <2>1, <3>3, SeqMonotonic
    <3> HIDE DEF RemoveFirst
    <3> QED
      BY <2>1, <2>2, <2>4, <3>1, <3>2, <3>3, <3>4
         DEF CompleteTask, MapsOK, SideOK
  <2>5. CASE PopTask(s)
    <3>1. /\ Legal(Popped(post[o]), TasksOf(o))
          /\ Head(post[o].ring) \in TasksOf(o)
      BY <2>2, <2>5, PopTakesFirst DEF PopTask, MayRunTask, SideOK, Legal, o
    <3>2. Popped(post[o]) \in QueueOf(AllTasks)
      BY <2>1, <3>1, LegalForAll
    <3>3. /\ hand' = [hand EXCEPT ![s] = Head(post[o].ring)]
          /\ post' = [post EXCEPT ![o] = Popped(@)]
          /\ pc' = [pc EXCEPT ![s] = "execute"]
          /\ UNCHANGED <<back, done, live>>
          /\ done[s] < MaxPerFrame
      BY <2>5 DEF PopTask, MayRunTask, o
    <3>4. TasksOf(Other(s)) = TasksOf(o)
      BY DEF o
    <3> QED
      BY <2>1, <2>2, <3>1, <3>2, <3>3, <3>4 DEF MapsOK, SideOK
  <2>6. CASE ReturnTask(s)
    <3>1. /\ pc[s] = "execute"
          /\ back' = [back EXCEPT ![o] = Push(@, hand[s])]
          /\ hand' = [hand EXCEPT ![s] = NoTask]
          /\ done' = [done EXCEPT ![s] = @ + 1]
          /\ pc' = [pc EXCEPT ![s] = "tasks"]
          /\ UNCHANGED <<post, live>>
      BY <2>6 DEF ReturnTask, o
    <3>2. hand[s] \in TasksOf(o)
      BY <2>2, <3>1 DEF SideOK, o
    <3>3. Legal(Push(back[o], hand[s]), TasksOf(o))
      BY <2>2, <3>2, PushAppends DEF SideOK, Legal
    <3>4. Push(back[o], hand[s]) \in QueueOf(AllTasks)
      BY <2>1, <3>3, LegalForAll
    <3>5. done[s] + 1 \in 0 .. MaxPerFrame
      BY <2>2, <3>1 DEF SideOK, MapsOK
    <3> QED
      BY <2>1, <2>2, <3>1, <3>3, <3>4, <3>5 DEF MapsOK, SideOK
  <2>7. CASE EndFrame(s)
    <3>1. /\ Legal(CheckCache(back[o]), TasksOf(o))
          /\ Legal(CheckCache(post[s]), TasksOf(s))
      BY <2>2, CheckCacheKeeps DEF SideOK, Legal
    <3>2. /\ CheckCache(back[o]) \in QueueOf(AllTasks)
          /\ CheckCache(post[s]) \in QueueOf(AllTasks)
      BY <2>1, <3>1, LegalForAll
    <3>3. /\ pc[s] = "check"
          /\ back' = [back EXCEPT ![o] = CheckCache(@)]
          /\ post' = [post EXCEPT ![s] = CheckCache(@)]
          /\ pc' = [pc EXCEPT ![s] = "outside"]
          /\ UNCHANGED <<hand, done, live>>
      BY <2>7 DEF EndFrame, o
    <3> QED
      BY <2>1, <2>2, <3>1, <3>2, <3>3 DEF MapsOK, SideOK
  <2>8. CASE BeginFrame(s)
    BY <2>1, <2>2, <2>8 DEF BeginFrame, MapsOK, SideOK
  <2>9. CASE CompleteDone(s)
    BY <2>1, <2>2, <2>9 DEF CompleteDone, MapsOK, SideOK
  <2>10. CASE TasksDone(s)
    BY <2>1, <2>2, <2>10 DEF TasksDone, MapsOK, SideOK
  <2> QED
    BY <1>2, <2>3, <2>4, <2>5, <2>6, <2>7, <2>8, <2>9, <2>10 DEF Frame
<1> QED
  BY <1>1, <1>2 DEF Next

-----------------------------------------------------------------------------
(* The pipelines.                                                          *)

(* A task pushed by s joins the end of its pipeline; the others only move  *)
(* along, or leave at the front.                                           *)
LEMMA PipelineStep == TypeOK /\ PipelineInOrder /\ [Next]_vars => PipelineInOrder'
<1> SUFFICES ASSUME TypeOK, PipelineInOrder, [Next]_vars
             PROVE  PipelineInOrder'
  OBVIOUS
<1>1. CASE UNCHANGED vars
  BY <1>1 DEF vars, PipelineInOrder, Pipeline, InHand
<1>2. ASSUME NEW s \in Sides, PushTask(s) \/ Frame(s)
      PROVE  \A u \in Sides : Pipeline(u)' = live[u]'
  <2> DEFINE o == Other(s)
  <2>1. /\ o \in Sides /\ o # s /\ Other(o) = s
        /\ \A u \in Sides : u = s \/ u = o
    BY TwoSides
  <2>2. /\ SideOK(s) /\ SideOK(o) /\ MapsOK
        /\ Pipeline(s) = live[s] /\ Pipeline(o) = live[o]
    BY <2>1, TypeParts DEF PipelineInOrder
  <2> DEFINE bs == Content(back[s])
             bo == Content(back[o])
             ps == Content(post[s])
             po == Content(post[o])
             hs == InHand(s)
             ho == InHand(o)
  <2>3. /\ bs \in Seq(TasksOf(s)) /\ ho \in Seq(TasksOf(s)) /\ ps \in Seq(TasksOf(s))
        /\ bo \in Seq(TasksOf(o)) /\ hs \in Seq(TasksOf(o)) /\ po \in Seq(TasksOf(o))
    BY <2>1, PipelineTyped
  <2>4. live[s] = bs \o (ho \o ps) /\ live[o] = bo \o (hs \o po)
    BY <2>1, <2>2 DEF Pipeline
  <2> SUFFICES /\ live'[s] = Content(back'[s]) \o (InHand(o)' \o Content(post'[s]))
               /\ live'[o] = Content(back'[o]) \o (InHand(s)' \o Content(post'[o]))
    BY <2>1 DEF Pipeline
  <2> HIDE DEF o
  <2>5. CASE PushTask(s)
    <3>1. PICK t \in TasksOf(s) :
             /\ post' = [post EXCEPT ![s] = Push(@, t)]
             /\ live' = [live EXCEPT ![s] = Append(@, t)]
             /\ UNCHANGED <<back, hand>>
      BY <2>5 DEF PushTask
    <3>2. Content(Push(post[s], t)) = ps \o <<t>>
      BY <2>2, PushAppends DEF SideOK, Legal
    <3>3. /\ live'[s] = Append(live[s], t) /\ live'[o] = live[o]
          /\ Content(post'[s]) = ps \o <<t>> /\ post'[o] = post[o]
          /\ InHand(s)' = hs /\ InHand(o)' = ho /\ back' = back
      BY <2>1, <2>2, <3>1, <3>2 DEF MapsOK, InHand
    <3>4. Append(live[s], t) = bs \o (ho \o (ps \o <<t>>))
      <4> HIDE DEF bs, ho, ps
      <4>1. /\ <<t>> \in Seq(TasksOf(s)) /\ ho \o ps \in Seq(TasksOf(s))
            /\ live[s] \in Seq(TasksOf(s))
        BY <2>2, <2>3, ConcatProperties DEF SideOK
      <4>2. Append(live[s], t) = (bs \o (ho \o ps)) \o <<t>>
        BY <2>4, <4>1, AppendIsConcat
      <4>3. /\ bs \in Seq(TasksOf(s)) /\ ho \in Seq(TasksOf(s))
            /\ ps \in Seq(TasksOf(s))
        BY <2>3
      <4>4. (bs \o (ho \o ps)) \o <<t>> = bs \o ((ho \o ps) \o <<t>>)
        <5> DEFINE hp == ho \o ps
                   e  == <<t>>
        <5>1. bs \in Seq(TasksOf(s)) /\ hp \in Seq(TasksOf(s)) /\ e \in Seq(TasksOf(s))
          BY ONLY <4>1, <4>3
        <5> HIDE DEF hp, e
        <5>2. (bs \o hp) \o e = bs \o (hp \o e)
          BY ONLY <5>1, ConcatAssociative
        <5> QED
          BY ONLY <5>2 DEF hp, e
      <4>5. (ho \o ps) \o <<t>> = ho \o (ps \o <<t>>)
        <5> DEFINE e == <<t>>
        <5>1. e \in Seq(TasksOf(s))
          BY ONLY <4>1
        <5> HIDE DEF e
        <5>2. (ho \o ps) \o e = ho \o (ps \o e)
          BY ONLY <4>3, <5>1, ConcatAssociative
        <5> QED
          BY ONLY <5>2 DEF e
      <4> QED
        BY ONLY <4>2, <4>4, <4>5, Zenon
    <3> QED
      BY <2>4, <3>3, <3>4
  <2>6. CASE CompleteTask(s)
    <3>1. /\ CanPop(back[s])
          /\ back' = [back EXCEPT ![s] = Popped(@)]
          /\ live' = [live EXCEPT ![s] = RemoveFirst(@, Head(back[s].ring))]
          /\ UNCHANGED <<post, hand>>
      BY <2>6 DEF CompleteTask
    <3>2. RemoveFirst(live[s], Head(back[s].ring))
             = Content(Popped(back[s])) \o (ho \o ps)
      BY <2>2, <3>1, OldestCompletes DEF o
    <3>3. /\ live'[s] = RemoveFirst(live[s], Head(back[s].ring))
          /\ live'[o] = live[o]
          /\ back'[s] = Popped(back[s]) /\ back'[o] = back[o]
          /\ InHand(s)' = hs /\ InHand(o)' = ho /\ post' = post
      BY <2>1, <2>2, <3>1 DEF MapsOK, InHand
    <3> QED
      BY <2>4, <3>2, <3>3
  <2>7. CASE PopTask(s)
    <3> DEFINE x == Head(post[o].ring)
               rest == Content(Popped(post[o]))
    <3>1. /\ pc[s] = "tasks" /\ CanPop(post[o])
          /\ hand' = [hand EXCEPT ![s] = x]
          /\ post' = [post EXCEPT ![o] = Popped(@)]
          /\ UNCHANGED <<back, live>>
      BY <2>7 DEF PopTask, MayRunTask, o
    <3>2. x \in TasksOf(o) /\ po = <<x>> \o rest /\ Legal(Popped(post[o]), TasksOf(o))
      BY <2>2, <3>1, PopTakesFirst DEF SideOK, Legal
    <3>3. x # NoTask /\ hs = <<>>
      BY <2>1, <2>2, <3>1, <3>2, TwoSides DEF SideOK, InHand
    <3>4. /\ live' = live /\ back' = back /\ post'[s] = post[s]
          /\ Content(post'[o]) = rest
          /\ InHand(s)' = <<x>> /\ InHand(o)' = ho
      BY <2>1, <2>2, <3>1, <3>3 DEF MapsOK, InHand
    <3>5. hs \o po = <<x>> \o rest
      BY <2>3, <3>2, <3>3, ConcatEmptySeq
    <3> QED
      BY <2>4, <3>4, <3>5
  <2>8. CASE ReturnTask(s)
    <3> DEFINE x == hand[s]
    <3>1. /\ pc[s] = "execute"
          /\ back' = [back EXCEPT ![o] = Push(@, x)]
          /\ hand' = [hand EXCEPT ![s] = NoTask]
          /\ UNCHANGED <<post, live>>
      BY <2>8 DEF ReturnTask, o
    <3>2. x \in TasksOf(o) /\ hs = <<x>>
      BY <2>2, <3>1 DEF SideOK, InHand, o
    <3>3. Content(Push(back[o], x)) = bo \o <<x>>
      <4>1. back[o] \in QueueOf(TasksOf(o)) /\ Len(back[o].ring) <= Capacity
        BY <2>2 DEF SideOK, Legal
      <4> HIDE DEF x
      <4> QED
        BY <3>2, <4>1, PushAppends
    <3>4. /\ live' = live /\ post' = post /\ back'[s] = back[s]
          /\ Content(back'[o]) = bo \o <<x>>
          /\ InHand(s)' = <<>> /\ InHand(o)' = ho
      BY <2>1, <2>2, <3>1, <3>3 DEF MapsOK, InHand
    <3>5. bo \o (hs \o po) = (bo \o <<x>>) \o (<<>> \o po)
      <4> HIDE DEF bo, hs, po, x
      <4>1. <<x>> \in Seq(TasksOf(o)) /\ <<>> \o po = po
        BY <2>3, <3>2, ConcatEmptySeq
      <4>2. bo \in Seq(TasksOf(o)) /\ po \in Seq(TasksOf(o))
        BY <2>3
      <4> DEFINE e == <<x>>
      <4>3. e \in Seq(TasksOf(o)) /\ hs = e
        BY ONLY <3>2, <4>1
      <4> HIDE DEF e
      <4>4. bo \o (e \o po) = (bo \o e) \o po
        BY ONLY <4>2, <4>3, ConcatAssociative
      <4> QED
        BY ONLY <4>1, <4>3, <4>4 DEF e
    <3> QED
      BY <2>4, <3>4, <3>5
  <2>9. CASE EndFrame(s)
    <3>1. /\ back' = [back EXCEPT ![o] = CheckCache(@)]
          /\ post' = [post EXCEPT ![s] = CheckCache(@)]
          /\ UNCHANGED <<hand, live>>
      BY <2>9 DEF EndFrame, o
    <3>2. Content(CheckCache(back[o])) = bo /\ Content(CheckCache(post[s])) = ps
      BY <2>2, CheckCacheKeeps DEF SideOK, Legal
    <3>3. /\ live' = live /\ back'[s] = back[s] /\ Content(back'[o]) = bo
          /\ Content(post'[s]) = ps /\ post'[o] = post[o]
          /\ InHand(s)' = hs /\ InHand(o)' = ho
      BY <2>1, <2>2, <3>1, <3>2 DEF MapsOK, InHand
    <3> QED
      BY <2>4, <3>3
  <2>10. CASE BeginFrame(s) \/ CompleteDone(s) \/ TasksDone(s)
    BY <2>4, <2>10 DEF BeginFrame, CompleteDone, TasksDone, InHand
  <2> QED
    BY <1>2, <2>5, <2>6, <2>7, <2>8, <2>9, <2>10 DEF Frame
<1> QED
  BY <1>1, <1>2 DEF Next, PipelineInOrder

LEMMA InitInv == Init => TypeOK /\ PipelineInOrder
<1> SUFFICES ASSUME Init PROVE TypeOK /\ PipelineInOrder
  OBVIOUS
<1>1. \A S : Legal(EmptyQueue, S) /\ Content(EmptyQueue) = <<>>
  <2>1. \A S : <<>> \in Seq(S) /\ Len(<<>>) = 0 /\ <<>> \o <<>> = <<>>
    BY EmptySeq, ConcatEmptySeq
  <2> QED
    BY <2>1 DEF Legal, EmptyQueue, QueueOf, Content
<1>2. MapsOK
  BY <1>1 DEF Init, MapsOK, Legal
<1>3. \A s \in Sides : SideOK(s)
  BY <1>1 DEF Init, SideOK
<1>4. ASSUME NEW s \in Sides PROVE Pipeline(s) = live[s]
  <2>1. Other(s) \in Sides /\ <<>> \o (<<>> \o <<>>) = <<>>
    BY TwoSides, EmptySeq, ConcatEmptySeq
  <2> QED
    BY <1>1, <2>1 DEF Init, Pipeline, InHand
<1> QED
  BY <1>2, <1>3, <1>4, TypeParts DEF PipelineInOrder

(* For every number of tasks, capacity and limit: no ring is over-full,    *)
(* and a thread holds a task exactly while it executes one (thread.cpp).   *)
THEOREM TypeCorrect == Spec => []TypeOK
<1>1. Spec => [](TypeOK /\ PipelineInOrder)
  BY InitInv, TypeStep, PipelineStep, PTL DEF Spec
<1> QED
  BY <1>1, PTL

(* For every number of tasks, capacity and limit: a task is in one place   *)
(* at a time, and tasks move in the order of creation (thread.cpp:59-104). *)
THEOREM TasksInOrder == Spec => []PipelineInOrder
<1>1. Spec => [](TypeOK /\ PipelineInOrder)
  BY InitInv, TypeStep, PipelineStep, PTL DEF Spec
<1> QED
  BY <1>1, PTL

-----------------------------------------------------------------------------
(* The life of a task.                                                     *)

(* No task is twice in its pipeline. *)
Distinct(seq) == \A i, j \in 1 .. Len(seq) : seq[i] = seq[j] => i = j

LivesDistinct == \A s \in Sides : Distinct(live[s])

IInv == TypeOK /\ PipelineInOrder /\ LivesDistinct

(* The elements of a concatenation. *)
LEMMA ToSetConcat ==
    ASSUME NEW S, NEW a \in Seq(S), NEW b \in Seq(S)
    PROVE  ToSet(a \o b) = ToSet(a) \cup ToSet(b)
<1>1. /\ Len(a) \in Nat /\ Len(b) \in Nat
      /\ DOMAIN a = 1 .. Len(a) /\ DOMAIN b = 1 .. Len(b)
      /\ DOMAIN (a \o b) = 1 .. Len(a) + Len(b)
      /\ \A i \in 1 .. Len(a) + Len(b) :
            (a \o b)[i] = IF i <= Len(a) THEN a[i] ELSE b[i - Len(a)]
  BY ConcatProperties, LenProperties
<1>2. ASSUME NEW i \in DOMAIN (a \o b) PROVE (a \o b)[i] \in ToSet(a) \cup ToSet(b)
  <2>1. CASE i <= Len(a)
    BY <1>1, <2>1 DEF ToSet
  <2>2. CASE ~ (i <= Len(a))
    <3>1. i - Len(a) \in DOMAIN b /\ (a \o b)[i] = b[i - Len(a)]
      BY <1>1, <2>2
    <3> QED
      BY <3>1 DEF ToSet
  <2> QED
    BY <2>1, <2>2
<1>3. ASSUME NEW i \in DOMAIN a PROVE a[i] \in ToSet(a \o b)
  <2>1. i \in DOMAIN (a \o b) /\ (a \o b)[i] = a[i]
    BY <1>1
  <2> QED
    BY <2>1 DEF ToSet
<1>4. ASSUME NEW i \in DOMAIN b PROVE b[i] \in ToSet(a \o b)
  <2>1. i + Len(a) \in DOMAIN (a \o b) /\ (a \o b)[i + Len(a)] = b[i]
    BY <1>1
  <2> QED
    BY <2>1 DEF ToSet
<1> QED
  BY <1>2, <1>3, <1>4 DEF ToSet

(* The elements of a sequence of one, and of one without any. *)
LEMMA ToSetSmall == ToSet(<<>>) = {} /\ \A x : ToSet(<<x>>) = {x}
BY DEF ToSet

LEMMA ToSetFirst ==
    ASSUME NEW S, NEW x \in S, NEW b \in Seq(S)
    PROVE  ToSet(<<x>> \o b) = {x} \cup ToSet(b)
<1> DEFINE one == <<x>>
<1>1. one \in Seq(S) /\ ToSet(one) = {x}
  BY ToSetSmall
<1> HIDE DEF one
<1>2. ToSet(one \o b) = ToSet(one) \cup ToSet(b)
  BY <1>1, ToSetConcat
<1>3. ToSet(one \o b) = {x} \cup ToSet(b)
  BY <1>1, <1>2
<1> QED
  BY <1>3 DEF one

LEMMA ToSetLast ==
    ASSUME NEW S, NEW x \in S, NEW b \in Seq(S)
    PROVE  ToSet(b \o <<x>>) = ToSet(b) \cup {x}
<1> DEFINE one == <<x>>
<1>1. one \in Seq(S) /\ ToSet(one) = {x}
  BY ToSetSmall
<1> HIDE DEF one
<1>2. ToSet(b \o one) = ToSet(b) \cup ToSet(one)
  BY <1>1, ToSetConcat
<1>3. ToSet(b \o one) = ToSet(b) \cup {x}
  BY <1>1, <1>2
<1> QED
  BY <1>3 DEF one

LEMMA ToSetThree ==
    ASSUME NEW S, NEW a \in Seq(S), NEW b \in Seq(S), NEW c \in Seq(S)
    PROVE  ToSet(a \o (b \o c)) = ToSet(a) \cup (ToSet(b) \cup ToSet(c))
<1> DEFINE d == b \o c
<1>1. d \in Seq(S)
  BY ConcatProperties
<1>2. ToSet(d) = ToSet(b) \cup ToSet(c)
  BY ToSetConcat
<1> HIDE DEF d
<1>3. ToSet(a \o d) = ToSet(a) \cup ToSet(d)
  BY <1>1, ToSetConcat
<1>4. ToSet(a \o d) = ToSet(a) \cup (ToSet(b) \cup ToSet(c))
  BY <1>2, <1>3
<1> QED
  BY <1>4 DEF d

(* In a sequence without repetition an element is on one side of itself    *)
(* as little as on the other.                                              *)
LEMMA DistinctParts ==
    ASSUME NEW S, NEW a \in Seq(S), NEW x \in S, NEW b \in Seq(S),
           Distinct(a \o (<<x>> \o b))
    PROVE  x \notin ToSet(a) /\ x \notin ToSet(b)
<1> DEFINE q == a \o (<<x>> \o b)
<1>1. /\ Len(a) \in Nat /\ Len(b) \in Nat /\ Len(q) = Len(a) + 1 + Len(b)
      /\ DOMAIN a = 1 .. Len(a) /\ DOMAIN b = 1 .. Len(b)
      /\ \A i \in 1 .. Len(a) : q[i] = a[i]
      /\ q[Len(a) + 1] = x
      /\ \A i \in 1 .. Len(b) : q[Len(a) + 1 + i] = b[i]
  <2>1. /\ <<x>> \o b \in Seq(S) /\ Len(<<x>> \o b) = 1 + Len(b)
        /\ (<<x>> \o b)[1] = x
        /\ \A i \in 1 .. Len(b) : (<<x>> \o b)[1 + i] = b[i]
        /\ Len(a) \in Nat /\ Len(b) \in Nat
        /\ DOMAIN a = 1 .. Len(a) /\ DOMAIN b = 1 .. Len(b)
    BY ConcatProperties, LenProperties
  <2> DEFINE c == <<x>> \o b
  <2> HIDE DEF c
  <2>2. /\ Len(a \o c) = Len(a) + Len(c)
        /\ \A i \in 1 .. Len(a) + Len(c) :
              (a \o c)[i] = IF i <= Len(a) THEN a[i] ELSE c[i - Len(a)]
    BY <2>1, ConcatProperties DEF c
  <2> QED
    BY <2>1, <2>2 DEF c
<1>2. \A i, j \in 1 .. Len(q) : q[i] = q[j] => i = j
  BY DEF Distinct
<1> HIDE DEF q
<1>3. ASSUME NEW i \in 1 .. Len(a), a[i] = x PROVE FALSE
  BY <1>1, <1>2, <1>3
<1>4. ASSUME NEW i \in 1 .. Len(b), b[i] = x PROVE FALSE
  BY <1>1, <1>2, <1>4
<1> QED
  BY <1>1, <1>3, <1>4 DEF ToSet

(* A task is pushed only when it is not under way. *)
LEMMA DistinctStep == IInv /\ [Next]_vars => LivesDistinct'
<1> SUFFICES ASSUME IInv, [Next]_vars PROVE LivesDistinct'
  OBVIOUS
<1>1. MapsOK /\ \A s \in Sides : SideOK(s)
  BY TypeParts DEF IInv
<1>2. ASSUME NEW s \in Sides, PushTask(s) PROVE LivesDistinct'
  <2>1. PICK t \in TasksOf(s) :
           t \notin ToSet(live[s]) /\ live' = [live EXCEPT ![s] = Append(@, t)]
    BY <1>2 DEF PushTask
  <2>2. live[s] \in Seq(TasksOf(s)) /\ Distinct(live[s])
    BY <1>1 DEF SideOK, IInv, LivesDistinct
  <2>3. /\ Len(live[s]) \in Nat /\ Len(Append(live[s], t)) = Len(live[s]) + 1
        /\ Append(live[s], t)[Len(live[s]) + 1] = t
        /\ \A i \in 1 .. Len(live[s]) :
              Append(live[s], t)[i] = live[s][i] /\ live[s][i] # t
    BY <2>1, <2>2, AppendProperties, LenProperties DEF ToSet
  <2>4. Distinct(Append(live[s], t))
    BY <2>2, <2>3 DEF Distinct
  <2> QED
    BY <1>1, <2>1, <2>4 DEF IInv, LivesDistinct, MapsOK
<1>3. ASSUME NEW s \in Sides, CompleteTask(s) PROVE LivesDistinct'
  <2> DEFINE x == Head(back[s].ring)
             rest == Content(Popped(back[s]))
                         \o (InHand(Other(s)) \o Content(post[s]))
  <2>1. /\ x \in TasksOf(s) /\ rest \in Seq(TasksOf(s))
        /\ live[s] = <<x>> \o rest
        /\ live' = [live EXCEPT ![s] = rest]
    BY <1>3, OldestCompletes DEF CompleteTask, IInv, PipelineInOrder
  <2> HIDE DEF x, rest
  <2>2. /\ Len(rest) \in Nat /\ Len(live[s]) = Len(rest) + 1
        /\ \A i \in 1 .. Len(rest) : live[s][i + 1] = rest[i]
    BY <2>1, ConcatProperties, LenProperties
  <2>3. Distinct(live[s])
    BY DEF IInv, LivesDistinct
  <2>4. ASSUME NEW i \in 1 .. Len(rest), NEW j \in 1 .. Len(rest), rest[i] = rest[j]
        PROVE  i = j
    <3>1. /\ i + 1 \in 1 .. Len(live[s]) /\ j + 1 \in 1 .. Len(live[s])
          /\ live[s][i + 1] = live[s][j + 1]
      BY <2>2, <2>4
    <3>2. i + 1 = j + 1
      BY <2>3, <3>1 DEF Distinct
    <3> QED
      BY <3>2
  <2>5. Distinct(rest)
    BY <2>4 DEF Distinct
  <2> QED
    BY <1>1, <2>1, <2>5 DEF IInv, LivesDistinct, MapsOK
<1>4. ASSUME UNCHANGED live PROVE LivesDistinct'
  BY <1>4 DEF IInv, LivesDistinct
<1>5. ASSUME NEW s \in Sides, Frame(s) PROVE CompleteTask(s) \/ UNCHANGED live
  BY <1>5 DEF Frame, BeginFrame, CompleteDone, PopTask, ReturnTask, TasksDone, EndFrame
<1> QED
  BY <1>2, <1>3, <1>4, <1>5 DEF Next, vars

(* The phase of a task depends on the queues of its side only. *)
PhaseRule ==
    \A s \in Sides : \A t \in TasksOf(s) :
        Phase(t) = IF t \in ToSet(Content(back[s])) THEN "executed"
                   ELSE IF t \in ToSet(Content(post[s])) \/ hand[Other(s)] = t
                   THEN "posted" ELSE "free"

LEMMA PhaseOfSide == TypeOK => PhaseRule
<1> SUFFICES ASSUME TypeOK, NEW s \in Sides, NEW t \in TasksOf(s)
             PROVE  /\ (\E u \in Sides : t \in ToSet(Content(back[u])))
                          <=> t \in ToSet(Content(back[s]))
                    /\ (\E u \in Sides : t \in ToSet(Content(post[u])) \/ hand[u] = t)
                          <=> t \in ToSet(Content(post[s])) \/ hand[Other(s)] = t
  BY DEF Phase, PhaseRule
<1> DEFINE o == Other(s)
<1>1. /\ o \in Sides /\ Other(o) = s /\ \A u \in Sides : u = s \/ u = o
      /\ t \notin TasksOf(o) /\ t # NoTask
  BY TwoSides
<1>2. hand[s] # t
  BY <1>1, TypeParts DEF SideOK
<1>3. /\ Content(back[o]) \in Seq(TasksOf(o)) /\ Content(post[o]) \in Seq(TasksOf(o))
      /\ hand[o] = t => t = hand[Other(s)]
  BY <1>1, PipelineTyped
<1>4. \A seq \in Seq(TasksOf(o)) : t \notin ToSet(seq)
  BY <1>1, ElementOfSeq, LenProperties DEF ToSet
<1> QED
  BY <1>1, <1>2, <1>3, <1>4

LEMMA PhaseOfSideNext == TypeOK' => PhaseRule'
BY PhaseOfSide, PTL

(* One task moves, and the others stay in their phases. *)
LEMMA OneMoves ==
    ASSUME NEW x \in AllTasks, NEW from, NEW to,
           Phase(x) = from, Phase(x)' = to,
           \A t \in AllTasks \ {x} : Phase(t)' = Phase(t)
    PROVE  Lives!Move(x, from, to)
BY DEF Lives!Move

(* What is live is in one of the three parts of the pipeline. *)
LEMMA LiveParts ==
    ASSUME IInv, NEW s \in Sides
    PROVE  ToSet(live[s]) = ToSet(Content(back[s]))
                              \cup (ToSet(InHand(Other(s))) \cup ToSet(Content(post[s])))
<1>1. live[s] = Content(back[s]) \o (InHand(Other(s)) \o Content(post[s]))
  BY DEF IInv, PipelineInOrder, Pipeline
<1>2. /\ Content(back[s]) \in Seq(TasksOf(s))
      /\ InHand(Other(s)) \in Seq(TasksOf(s))
      /\ Content(post[s]) \in Seq(TasksOf(s))
  BY PipelineTyped DEF IInv
<1> QED
  BY <1>1, <1>2, ToSetThree

PhaseMap == [t \in AllTasks |-> Phase(t)]

(* Every step is one of TaskLife, or changes no phase. *)
LEMMA LifeStep == IInv /\ [Next]_vars => [Lives!Next]_PhaseMap
<1> SUFFICES ASSUME IInv, [Next]_vars
             PROVE  Lives!Next \/ \A t \in AllTasks : Phase(t)' = Phase(t)
  BY DEF PhaseMap
<1>1. /\ MapsOK /\ (\A s \in Sides : SideOK(s)) /\ PhaseRule
  BY TypeParts, PhaseOfSide DEF IInv
<1>2. PhaseRule'
  BY TypeStep, PhaseOfSideNext DEF IInv
<1>3. CASE UNCHANGED vars
  BY <1>3 DEF vars, Phase
<1>4. ASSUME NEW s \in Sides, PushTask(s) \/ Frame(s)
      PROVE  Lives!Next \/ \A t \in AllTasks : Phase(t)' = Phase(t)
  <2> DEFINE o == Other(s)
  <2>1. /\ o \in Sides /\ o # s /\ Other(o) = s
        /\ TasksOf(s) \subseteq AllTasks /\ TasksOf(o) \subseteq AllTasks
        /\ NoTask \notin AllTasks /\ TasksOf(s) \cap TasksOf(o) = {}
    BY TwoSides
  <2>2. AllTasks = TasksOf(s) \cup TasksOf(o)
    BY DEF AllTasks, TasksOf, Other, Sides
  <2>3. SideOK(s) /\ SideOK(o)
    BY <1>1, <2>1
  <2> DEFINE bs == ToSet(Content(back[s]))
             bo == ToSet(Content(back[o]))
             ps == ToSet(Content(post[s]))
             po == ToSet(Content(post[o]))
  <2>4. /\ \A t \in TasksOf(s) :
              Phase(t) = IF t \in bs THEN "executed"
                         ELSE IF t \in ps \/ hand[o] = t THEN "posted" ELSE "free"
        /\ \A t \in TasksOf(o) :
              Phase(t) = IF t \in bo THEN "executed"
                         ELSE IF t \in po \/ hand[s] = t THEN "posted" ELSE "free"
    BY <1>1, <2>1 DEF PhaseRule
  <2>5. /\ \A t \in TasksOf(s) :
              Phase(t)' = IF t \in ToSet(Content(back'[s])) THEN "executed"
                          ELSE IF t \in ToSet(Content(post'[s])) \/ hand'[o] = t
                          THEN "posted" ELSE "free"
        /\ \A t \in TasksOf(o) :
              Phase(t)' = IF t \in ToSet(Content(back'[o])) THEN "executed"
                          ELSE IF t \in ToSet(Content(post'[o])) \/ hand'[s] = t
                          THEN "posted" ELSE "free"
    BY <1>2, <2>1 DEF PhaseRule
  <2> HIDE DEF o
  <2>6. CASE PushTask(s)
    <3>1. PICK x \in TasksOf(s) :
             /\ x \notin ToSet(live[s])
             /\ post' = [post EXCEPT ![s] = Push(@, x)]
             /\ UNCHANGED <<back, hand>>
      BY <2>6 DEF PushTask
    <3>2. x \notin bs /\ x \notin ps /\ hand[o] # x
      <4>1. hand[o] = x => x \in ToSet(InHand(o))
        BY <2>1, <3>1, ToSetSmall DEF InHand
      <4> QED
        BY <3>1, <4>1, LiveParts DEF o
    <3>3. ToSet(Content(Push(post[s], x))) = ps \cup {x}
      <4>1. Content(Push(post[s], x)) = Content(post[s]) \o <<x>>
        BY <2>3, PushAppends DEF SideOK, Legal
      <4>2. Content(post[s]) \in Seq(TasksOf(s))
        BY PipelineTyped DEF IInv
      <4>3. ToSet(Content(post[s]) \o <<x>>) = ps \cup {x}
        BY <4>2, ToSetLast
      <4> QED
        BY <4>1, <4>3
    <3>4. /\ ToSet(Content(post'[s])) = ps \cup {x} /\ post'[o] = post[o]
          /\ back' = back /\ hand' = hand
      BY <1>1, <2>1, <3>1, <3>3 DEF MapsOK
    <3>5. Phase(x) = "free" /\ Phase(x)' = "posted"
      BY <2>4, <2>5, <3>2, <3>4
    <3>6. \A t \in AllTasks \ {x} : Phase(t)' = Phase(t)
      BY <2>2, <2>4, <2>5, <3>4
    <3>7. Lives!Move(x, "free", "posted")
      BY <2>1, <3>5, <3>6, OneMoves
    <3> QED
      BY <2>1, <3>7 DEF Lives!Next, Lives!Post
  <2>7. CASE CompleteTask(s)
    <3>1. CanPop(back[s]) /\ back' = [back EXCEPT ![s] = Popped(@)]
          /\ UNCHANGED <<post, hand>>
      BY <2>7 DEF CompleteTask
    <3> DEFINE b == Content(Popped(back[s]))
               h == InHand(o) \o Content(post[s])
    <3>2. PICK x \in TasksOf(s) :
             /\ x = Head(back[s].ring)
             /\ b \o h \in Seq(TasksOf(s)) /\ live[s] = <<x>> \o (b \o h)
      BY <3>1, OldestCompletes DEF IInv, PipelineInOrder, o
    <3>3. /\ Content(back[s]) = <<x>> \o b /\ Legal(Popped(back[s]), TasksOf(s))
      BY <2>3, <3>1, <3>2, PopTakesFirst DEF SideOK, Legal
    <3>4. /\ b \in Seq(TasksOf(s)) /\ InHand(o) \in Seq(TasksOf(s))
          /\ Content(post[s]) \in Seq(TasksOf(s)) /\ h \in Seq(TasksOf(s))
      <4>1. b \in Seq(TasksOf(s))
        BY <3>3, QueueParts, ConcatProperties DEF Legal, Content
      <4> QED
        BY <4>1, PipelineTyped, ConcatProperties DEF IInv, o
    <3>5. ToSet(b \o h) = ToSet(b) \cup (ToSet(InHand(o)) \cup ps)
      <4> HIDE DEF b
      <4> QED
        BY <3>4, ToSetThree
    <3>6. bs = {x} \cup ToSet(b)
      <4>1. ToSet(<<x>> \o b) = {x} \cup ToSet(b)
        <5> HIDE DEF b
        <5> QED
          BY <3>4, ToSetFirst
      <4> QED
        BY <3>3, <4>1
    <3>7. x \notin ToSet(b \o h)
      <4> DEFINE rest == b \o h
      <4>0. rest \in Seq(TasksOf(s)) /\ <<x>> \in Seq(TasksOf(s))
        BY ONLY <3>2
      <4> HIDE DEF rest
      <4>1. /\ <<x>> \o rest \in Seq(TasksOf(s))
            /\ <<>> \o (<<x>> \o rest) = <<x>> \o rest
        <5> DEFINE e == <<x>>
        <5>1. e \in Seq(TasksOf(s))
          BY ONLY <4>0
        <5> HIDE DEF e
        <5>2. e \o rest \in Seq(TasksOf(s))
          BY ONLY <4>0, <5>1, ConcatProperties
        <5>3. <<>> \o (e \o rest) = e \o rest
          BY ONLY <5>2, ConcatEmptySeq
        <5> QED
          BY ONLY <5>2, <5>3 DEF e
      <4>2. Distinct(<<>> \o (<<x>> \o rest))
        BY <3>2, <4>1 DEF IInv, LivesDistinct, rest
      <4>3. x \notin ToSet(rest)
        BY <3>2, <4>2, EmptySeq, DistinctParts DEF rest
      <4> QED
        BY <4>3 DEF rest
    <3>8. x \notin ToSet(b) /\ x \notin ps /\ hand[o] # x
      <4>1. hand[o] = x => x \in ToSet(InHand(o))
        BY <2>1, <3>2, ToSetSmall DEF InHand
      <4> QED
        BY <3>5, <3>7, <4>1
    <3>9. /\ Content(back'[s]) = b /\ back'[o] = back[o]
          /\ post' = post /\ hand' = hand
      BY <1>1, <2>1, <3>1 DEF MapsOK
    <3>10. /\ ToSet(Content(back'[s])) = ToSet(b)
           /\ ToSet(Content(back'[o])) = bo
           /\ ToSet(Content(post'[s])) = ps /\ hand'[o] = hand[o]
           /\ ToSet(Content(post'[o])) = po /\ hand'[s] = hand[s]
      BY <3>9
    <3> HIDE DEF b, h, bs, ps, bo, po
    <3>11. Phase(x) = "executed"
      BY <2>4, <3>2, <3>6
    <3>12. Phase(x)' = "free"
      BY <2>5, <3>2, <3>8, <3>10
    <3>13. \A t \in TasksOf(s) \ {x} : Phase(t)' = Phase(t)
      BY <2>4, <2>5, <3>6, <3>10
    <3>14. \A t \in TasksOf(o) : Phase(t)' = Phase(t)
      BY <2>4, <2>5, <3>10
    <3>15. \A t \in AllTasks \ {x} : Phase(t)' = Phase(t)
      BY <2>2, <3>13, <3>14
    <3>16. Lives!Move(x, "executed", "free")
      BY <2>1, <3>2, <3>11, <3>12, <3>15, OneMoves
    <3> QED
      BY <2>1, <3>2, <3>16 DEF Lives!Next, Lives!Complete
  <2>8. CASE PopTask(s)
    <3> DEFINE x == Head(post[o].ring)
               rest == Content(Popped(post[o]))
    <3>1. /\ pc[s] = "tasks" /\ CanPop(post[o])
          /\ hand' = [hand EXCEPT ![s] = x]
          /\ post' = [post EXCEPT ![o] = Popped(@)]
          /\ back' = back
      BY <2>8 DEF PopTask, MayRunTask, o
    <3>2. /\ x \in TasksOf(o) /\ Legal(Popped(post[o]), TasksOf(o))
          /\ Content(post[o]) = <<x>> \o rest
      BY <2>3, <3>1, PopTakesFirst DEF SideOK, Legal
    <3>3. po = {x} \cup ToSet(rest)
      <4>1. rest \in Seq(TasksOf(o)) /\ <<x>> \in Seq(TasksOf(o))
        BY <3>2, QueueParts, ConcatProperties DEF Legal, Content
      <4> HIDE DEF rest, x
      <4> QED
        BY <3>2, <4>1, ToSetFirst
    <3>4. hand[s] = NoTask
      BY <2>3, <3>1 DEF SideOK
    <3>5. /\ Content(post'[o]) = rest /\ post'[s] = post[s]
          /\ hand'[s] = x /\ hand'[o] = hand[o]
      BY <1>1, <2>1, <3>1 DEF MapsOK
    <3> HIDE DEF x, rest
    <3>6. \A t \in TasksOf(s) : Phase(t)' = Phase(t)
      BY <2>4, <2>5, <3>1, <3>5
    <3>7. \A t \in TasksOf(o) : Phase(t)' = Phase(t)
      BY <2>1, <2>4, <2>5, <3>1, <3>3, <3>4, <3>5
    <3> QED
      BY <2>2, <3>6, <3>7
  <2>9. CASE ReturnTask(s)
    <3> DEFINE b == Content(back[o])
               p == Content(post[o])
    <3>1. /\ pc[s] = "execute"
          /\ back' = [back EXCEPT ![o] = Push(@, hand[s])]
          /\ hand' = [hand EXCEPT ![s] = NoTask]
          /\ post' = post
      BY <2>9 DEF ReturnTask, o
    <3>2. PICK x \in TasksOf(o) : x = hand[s] /\ InHand(s) = <<x>>
      BY <2>3, <3>1 DEF SideOK, InHand, o
    <3>3. b \in Seq(TasksOf(o)) /\ p \in Seq(TasksOf(o))
      BY <2>1, PipelineTyped DEF IInv
    <3>4. live[o] = b \o (<<x>> \o p)
      BY <2>1, <3>2 DEF IInv, PipelineInOrder, Pipeline
    <3>5. Distinct(live[o])
      BY <2>1 DEF IInv, LivesDistinct
    <3>6. back[o] \in QueueOf(TasksOf(o)) /\ Len(back[o].ring) <= Capacity
      BY <2>3 DEF SideOK, Legal
    <3>7. /\ back'[o] = Push(back[o], x) /\ back'[s] = back[s]
          /\ hand'[s] = NoTask /\ hand'[o] = hand[o]
      BY <1>1, <2>1, <3>1, <3>2 DEF MapsOK
    <3>8. bo = ToSet(b) /\ po = ToSet(p) /\ hand[s] = x /\ x # NoTask
      BY <2>1, <3>2
    <3>9. /\ ToSet(Content(back'[s])) = bs
          /\ ToSet(Content(post'[s])) = ps /\ ToSet(Content(post'[o])) = po
      BY <3>1, <3>7
    <3>10. ToSet(Content(back'[o])) = bo \cup {x}
      <4>1. Content(Push(back[o], x)) = b \o <<x>>
        BY <3>2, <3>6, PushAppends DEF b
      <4> HIDE DEF b
      <4>2. ToSet(b \o <<x>>) = ToSet(b) \cup {x}
        BY <3>3, ToSetLast
      <4> QED
        BY <3>7, <3>8, <4>1, <4>2
    <3> HIDE DEF b, p, bs, ps, bo, po
    <3>11. x \notin bo
      BY <3>2, <3>3, <3>4, <3>5, <3>8, DistinctParts
    <3>12. Phase(x) = "posted"
      BY <2>4, <3>2, <3>8, <3>11
    <3>13. Phase(x)' = "executed"
      BY <2>5, <3>2, <3>10
    <3>14. \A t \in TasksOf(s) : Phase(t)' = Phase(t)
      BY <2>4, <2>5, <3>7, <3>9
    <3>15. \A t \in TasksOf(o) \ {x} : Phase(t)' = Phase(t)
      <4>1. \A t \in TasksOf(o) : t # NoTask
        BY <2>1
      <4> QED
        BY <2>4, <2>5, <3>7, <3>8, <3>9, <3>10, <4>1
    <3>16. \A t \in AllTasks \ {x} : Phase(t)' = Phase(t)
      BY <2>2, <3>14, <3>15
    <3>17. Lives!Move(x, "posted", "executed")
      BY <2>1, <3>2, <3>12, <3>13, <3>16, OneMoves
    <3> QED
      BY <2>1, <3>2, <3>17 DEF Lives!Next, Lives!Execute
  <2>10. CASE EndFrame(s)
    <3>1. /\ back' = [back EXCEPT ![o] = CheckCache(@)]
          /\ post' = [post EXCEPT ![s] = CheckCache(@)] /\ hand' = hand
      BY <2>10 DEF EndFrame, o
    <3>2. /\ Content(CheckCache(back[o])) = Content(back[o])
          /\ Content(CheckCache(post[s])) = Content(post[s])
      BY <2>3, CheckCacheKeeps DEF SideOK, Legal
    <3>3. /\ back'[s] = back[s] /\ Content(back'[o]) = Content(back[o])
          /\ Content(post'[s]) = Content(post[s]) /\ post'[o] = post[o]
      BY <1>1, <2>1, <3>1, <3>2 DEF MapsOK
    <3> QED
      BY <2>2, <2>4, <2>5, <3>1, <3>3
  <2>11. CASE BeginFrame(s) \/ CompleteDone(s) \/ TasksDone(s)
    BY <2>11 DEF BeginFrame, CompleteDone, TasksDone, Phase
  <2> QED
    BY <1>4, <2>6, <2>7, <2>8, <2>9, <2>10, <2>11 DEF Frame
<1> QED
  BY <1>3, <1>4 DEF Next

(* The exchange implements TaskLife, for every number of tasks, capacity   *)
(* and limit: an object is executed once by the other thread, and then     *)
(* completed and freed once by its creator.                                *)
THEOREM TasksImplementLife == Spec => ImplementsTaskLife
<1>1. Init => LivesDistinct
  BY DEF Init, LivesDistinct, Distinct
<1>2. Init => Lives!Init
  <2> SUFFICES ASSUME Init, NEW t \in AllTasks PROVE Phase(t) = "free"
    BY DEF Lives!Init
  <2>1. Content(EmptyQueue) = <<>>
    BY ConcatEmptySeq, EmptySeq DEF Content, EmptyQueue
  <2>2. NoTask \notin AllTasks
    BY DEF AllTasks
  <2> QED
    BY <2>1, <2>2, ToSetSmall DEF Init, Phase
<1>3. Spec => []IInv
  BY <1>1, InitInv, TypeStep, PipelineStep, DistinctStep, PTL DEF Spec, IInv
<1> QED
  BY <1>2, <1>3, LifeStep, PTL DEF Spec, ImplementsTaskLife, Lives!Spec, PhaseMap

=============================================================================
