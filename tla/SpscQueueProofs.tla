-------------------------- MODULE SpscQueueProofs ---------------------------
(***************************************************************************)
(* For every set of values and every ring capacity: the shape invariant of *)
(* SpscQueue, that no interleaving loses, duplicates or reorders a value,  *)
(* and that the queue implements the unbounded channel of Fifo.            *)
(***************************************************************************)
EXTENDS SpscQueue, SequenceTheorems, TLAPS

(* The three producer-side sequences are sequences of values. *)
LEMMA TypedSequences ==
    ASSUME TypeOK
    PROVE  /\ m_queue \in Seq(Data)
           /\ m_cache \in Seq(Data)
           /\ data \in Seq(Data)
           /\ Waiting \in Seq(Data)
           /\ Backlog \in Seq(Data)
<1>1. m_queue \in Seq(Data) /\ m_cache \in Seq(Data)
  BY DEF TypeOK
<1>2. data \in Seq(Data)
  <2>1. CASE data = <<>>
    BY <2>1
  <2>2. ASSUME NEW d \in Data, data = <<d>> PROVE data \in Seq(Data)
    BY <2>2
  <2> QED
    BY <2>1, <2>2 DEF TypeOK
<1>3. Waiting \in Seq(Data)
  BY HeadTailProperties DEF TypeOK, Waiting
<1>4. Backlog \in Seq(Data)
  BY <1>1, <1>2, <1>3, ConcatProperties DEF Backlog
<1> QED
  BY <1>1, <1>2, <1>3, <1>4

(* Every step keeps the shape of the state. *)
LEMMA TypeOKStep ==
    ASSUME TypeOK, [Next]_vars
    PROVE  TypeOK'
<1> USE CapacityAssumption DEF TypeOK
<1>1. ASSUME NEW d \in Data, PushCall(d) PROVE TypeOK'
  BY <1>1 DEF PushCall
<1>2. CASE CheckCacheCall
  BY <1>2 DEF CheckCacheCall
<1>3. CASE PushBehindCache
  BY <1>3, TypedSequences, ConcatProperties DEF PushBehindCache
<1>4. CASE PushToRing
  <2>1. PICK d \in Data : data = <<d>>
    BY <1>4 DEF PushToRing
  <2>2. m_queue' \in Seq(Data) /\ Len(m_queue') = Len(m_queue) + 1
    BY <1>4, <2>1 DEF PushToRing
  <2> QED
    BY <1>4, <2>2 DEF PushToRing, RingHasRoom
<1>5. CASE PushOverflow
  BY <1>5, TypedSequences, ConcatProperties DEF PushOverflow
<1>6. CASE MovePublish
  BY <1>6 DEF MovePublish, RingHasRoom
<1>7. CASE MoveErase
  BY <1>7 DEF MoveErase
<1>8. CASE CheckCacheReturn
  BY <1>8 DEF CheckCacheReturn
<1>9. CASE Pop
  BY <1>9 DEF Pop
<1>10. CASE UNCHANGED vars
  BY <1>10 DEF vars
<1> QED
  BY <1>1, <1>2, <1>3, <1>4, <1>5, <1>6, <1>7, <1>8, <1>9, <1>10
     DEF Next, Producer

(* The ring never exceeds its capacity, only a push() in progress holds a  *)
(* value back, and nothing is erased from an empty m_cache: for every      *)
(* capacity and every interleaving of spsc_queue's push, checkCache, pop.  *)
THEOREM TypeCorrect == Spec => []TypeOK
<1>1. Init => TypeOK
  BY CapacityAssumption DEF Init, TypeOK
<1>2. TypeOK /\ [Next]_vars => TypeOK'
  BY TypeOKStep
<1> QED
  BY <1>1, <1>2, PTL DEF Spec

-----------------------------------------------------------------------------
(* What a step does to the values that were pushed and not popped yet.     *)

(* A call of push(d) appends d to the backlog. *)
LEMMA BacklogOfPush ==
    ASSUME TypeOK, NEW d \in Data, PushCall(d)
    PROVE  Backlog' = Backlog \o <<d>>
<1>1. data = <<>> /\ data' = <<d>> /\ <<d>> \in Seq(Data)
  BY DEF TypeOK, PushCall
<1>2. Waiting' = Waiting /\ Waiting = m_cache /\ m_queue' = m_queue
  BY DEF Waiting, PushCall
<1>3. Backlog = m_queue \o m_cache
  BY <1>1, <1>2, ConcatEmptySeq DEF Backlog, TypeOK
<1>4. Backlog' = m_queue \o (m_cache \o <<d>>)
  BY <1>1, <1>2 DEF Backlog
<1> QED
  BY <1>1, <1>3, <1>4, ConcatAssociative DEF TypeOK

(* Storing the value, spilling it and moving it back leave the backlog     *)
(* alone: the value only changes its place.                                *)
LEMMA BacklogKept ==
    ASSUME TypeOK, Producer \/ CheckCacheCall
    PROVE  Backlog' = Backlog
<1> USE TypedSequences
<1>1. CASE CheckCacheCall
  BY <1>1 DEF CheckCacheCall, Backlog, Waiting
<1>2. CASE PushBehindCache \/ PushOverflow
  <2>1. /\ m_queue' = m_queue /\ Waiting = m_cache
        /\ Waiting' = m_cache \o data /\ data' = <<>>
    BY <1>2 DEF PushBehindCache, PushOverflow, Waiting
  <2>2. (m_cache \o data) \o <<>> = m_cache \o data
    BY ConcatProperties, ConcatEmptySeq
  <2> QED
    BY <2>1, <2>2 DEF Backlog
<1>3. CASE PushToRing
  <2>1. /\ m_queue' = m_queue \o data /\ Waiting = <<>>
        /\ Waiting' = <<>> /\ data' = <<>>
    BY <1>3 DEF PushToRing, Waiting
  <2>2. <<>> \o <<>> = <<>> /\ <<>> \o data = data /\ (m_queue \o data) \o <<>> = m_queue \o data
    BY ConcatProperties, ConcatEmptySeq
  <2> QED
    BY <2>1, <2>2 DEF Backlog
<1>4. CASE MovePublish
  <2>0. m_queue \in Seq(Data) /\ m_cache \in Seq(Data) /\ data \in Seq(Data)
    OBVIOUS
  <2>1. /\ m_queue' = Append(m_queue, Head(m_cache)) /\ data' = data
        /\ Waiting = m_cache /\ Waiting' = Tail(m_cache) /\ m_cache # <<>>
    BY <1>4 DEF MovePublish, Waiting
  <2>2. m_cache = <<Head(m_cache)>> \o Tail(m_cache)
    BY <2>1
  <2>3. <<Head(m_cache)>> \in Seq(Data) /\ Tail(m_cache) \in Seq(Data)
    BY <2>1, HeadTailProperties
  <2>4. m_queue' = m_queue \o <<Head(m_cache)>>
    BY <2>1, HeadTailProperties, AppendIsConcat
  <2>5. (<<Head(m_cache)>> \o Tail(m_cache)) \o data
          = <<Head(m_cache)>> \o (Tail(m_cache) \o data)
    BY ONLY <2>3, <2>0, ConcatAssociative
  <2>6. Tail(m_cache) \o data \in Seq(Data)
    BY <2>3, ConcatProperties
  <2>7. Backlog' = (m_queue \o <<Head(m_cache)>>) \o (Tail(m_cache) \o data)
    BY <2>1, <2>4 DEF Backlog
  <2>8. Backlog = m_queue \o (<<Head(m_cache)>> \o (Tail(m_cache) \o data))
    BY <2>1, <2>2, <2>5 DEF Backlog
  <2>9. (m_queue \o <<Head(m_cache)>>) \o (Tail(m_cache) \o data)
          = m_queue \o (<<Head(m_cache)>> \o (Tail(m_cache) \o data))
    <3> DEFINE h == <<Head(m_cache)>>
               r == Tail(m_cache) \o data
    <3>1. m_queue \in Seq(Data) /\ h \in Seq(Data) /\ r \in Seq(Data)
      BY ONLY <2>0, <2>3, <2>6
    <3> HIDE DEF h, r
    <3>2. (m_queue \o h) \o r = m_queue \o (h \o r)
      BY ONLY <3>1, ConcatAssociative
    <3> QED
      BY ONLY <3>2 DEF h, r
  <2> QED
    BY ONLY <2>7, <2>8, <2>9, Zenon
<1>5. CASE MoveErase
  BY <1>5 DEF MoveErase, Backlog, Waiting
<1>6. CASE CheckCacheReturn
  BY <1>6 DEF CheckCacheReturn, Backlog, Waiting
<1> QED
  BY <1>1, <1>2, <1>3, <1>4, <1>5, <1>6 DEF Producer

(* pop() takes the oldest value of the backlog. *)
LEMMA BacklogOfPop ==
    ASSUME TypeOK, Pop
    PROVE  /\ Head(m_queue) \in Data
           /\ Backlog' \in Seq(Data)
           /\ Backlog = <<Head(m_queue)>> \o Backlog'
<1> USE TypedSequences
<1>1. m_queue # <<>> /\ m_queue' = Tail(m_queue) /\ Waiting' = Waiting /\ data' = data
  BY DEF Pop, Waiting
<1>2. /\ Head(m_queue) \in Data /\ Tail(m_queue) \in Seq(Data)
      /\ <<Head(m_queue)>> \in Seq(Data)
  BY <1>1, HeadTailProperties
<1>3. m_queue = <<Head(m_queue)>> \o Tail(m_queue)
  BY <1>1
<1>4. Waiting \o data \in Seq(Data)
  BY ConcatProperties
<1>5. Backlog' = Tail(m_queue) \o (Waiting \o data)
  BY <1>1 DEF Backlog
<1>6. Backlog = (<<Head(m_queue)>> \o Tail(m_queue)) \o (Waiting \o data)
  BY <1>3 DEF Backlog
<1>7. (<<Head(m_queue)>> \o Tail(m_queue)) \o (Waiting \o data)
        = <<Head(m_queue)>> \o (Tail(m_queue) \o (Waiting \o data))
  BY ONLY <1>2, <1>4, ConcatAssociative
<1>8. Tail(m_queue) \o (Waiting \o data) \in Seq(Data)
  BY ONLY <1>2, <1>4, ConcatProperties
<1> QED
  BY ONLY <1>2, <1>5, <1>6, <1>7, <1>8, Zenon

-----------------------------------------------------------------------------
LEMMA NothingLostStep ==
    ASSUME TypeOK, NothingLost, [Next]_vars
    PROVE  NothingLost'
<1> USE DEF NothingLost
<1>0. popped \in Seq(Data) /\ Backlog \in Seq(Data)
  BY TypedSequences DEF TypeOK
<1>1. ASSUME NEW d \in Data, PushCall(d) PROVE NothingLost'
  <2>1. Backlog' = Backlog \o <<d>> /\ <<d>> \in Seq(Data)
    BY <1>1, BacklogOfPush
  <2>2. popped' = popped /\ pushed' = pushed \o <<d>>
    BY <1>1, AppendIsConcat DEF PushCall, TypeOK
  <2>3. (popped \o Backlog) \o <<d>> = popped \o (Backlog \o <<d>>)
    BY <1>0, <2>1, ConcatAssociative
  <2> QED
    BY <2>1, <2>2, <2>3, Zenon
<1>2. CASE Producer \/ CheckCacheCall
  <2>1. popped' = popped /\ pushed' = pushed
    BY <1>2 DEF Producer, CheckCacheCall, PushBehindCache, PushToRing,
                PushOverflow, MovePublish, MoveErase, CheckCacheReturn
  <2> QED
    BY <1>2, <2>1, BacklogKept
<1>3. CASE Pop
  <2>1. /\ Head(m_queue) \in Data /\ <<Head(m_queue)>> \in Seq(Data)
        /\ Backlog' \in Seq(Data)
        /\ Backlog = <<Head(m_queue)>> \o Backlog'
    BY <1>3, BacklogOfPop
  <2>2. pushed' = pushed /\ popped' = popped \o <<Head(m_queue)>>
    BY <1>0, <1>3, <2>1, AppendIsConcat DEF Pop
  <2>3. (popped \o <<Head(m_queue)>>) \o Backlog'
          = popped \o (<<Head(m_queue)>> \o Backlog')
    BY <1>0, <2>1, ConcatAssociative
  <2> QED
    BY <2>1, <2>2, <2>3, Zenon
<1>4. CASE UNCHANGED vars
  BY <1>4 DEF vars, Backlog, Waiting
<1> QED
  BY <1>1, <1>2, <1>3, <1>4 DEF Next

(* No interleaving of push(), checkCache() and pop() loses, duplicates or  *)
(* reorders a value, whatever the capacity and however often m_cache fills *)
(* and drains.                                                             *)
THEOREM NoValueLost == Spec => []NothingLost
<1>1. Init => NothingLost
  BY DEF Init, NothingLost, Backlog, Waiting
<1>2. TypeOK /\ NothingLost /\ [Next]_vars => NothingLost'
  BY NothingLostStep
<1> QED
  BY <1>1, <1>2, TypeCorrect, PTL DEF Spec

(* The value a pop() returns is the oldest one not returned before. *)
LEMMA PopIsDeliver ==
    ASSUME TypeOK, NothingLost, Pop
    PROVE  Channel!Deliver
<1>1. /\ Head(m_queue) \in Data /\ <<Head(m_queue)>> \in Seq(Data)
      /\ Backlog' \in Seq(Data)
      /\ Backlog = <<Head(m_queue)>> \o Backlog'
  BY BacklogOfPop
<1>2. Backlog \in Seq(Data) /\ Len(Backlog) >= 1 /\ Backlog[1] = Head(m_queue)
  BY <1>1, ConcatProperties
<1>3. popped \in Seq(Data) /\ pushed = popped \o Backlog
  BY DEF TypeOK, NothingLost
<1>4. Len(popped) < Len(pushed) /\ pushed[Len(popped) + 1] = Head(m_queue)
  BY <1>2, <1>3, ConcatProperties
<1> QED
  BY <1>4 DEF Pop, Channel!Deliver

(* spsc_queue with its ring and overflow vector implements the unbounded   *)
(* FIFO channel, for every capacity.                                       *)
THEOREM QueueImplementsFifo == Spec => ImplementsFifo
<1>1. Init => Channel!Init
  BY DEF Init, Channel!Init
<1>2. TypeOK /\ NothingLost /\ [Next]_vars => [Channel!Next]_Channel!fifoVars
  <2> SUFFICES ASSUME TypeOK, NothingLost, [Next]_vars
               PROVE  [Channel!Next]_Channel!fifoVars
    OBVIOUS
  <2>1. ASSUME NEW d \in Data, PushCall(d) PROVE Channel!Next
    BY <2>1 DEF PushCall, Channel!Next, Channel!Accept
  <2>2. CASE Pop
    BY <2>2, PopIsDeliver DEF Channel!Next
  <2>3. CASE Producer \/ CheckCacheCall \/ UNCHANGED vars
    BY <2>3 DEF Channel!fifoVars, vars, Producer, CheckCacheCall,
                PushBehindCache, PushToRing, PushOverflow, MovePublish,
                MoveErase, CheckCacheReturn
  <2> QED
    BY <2>1, <2>2, <2>3 DEF Next
<1> QED
  BY <1>1, <1>2, TypeCorrect, NoValueLost, PTL
     DEF Spec, ImplementsFifo, Channel!Spec

=============================================================================
