------------------------- MODULE TimerControlProofs -------------------------
(* The timers keep their slots on a steady clock and never stall on any    *)
(* other, for every set of intervals and however far the clock jumps.      *)
EXTENDS TimerControl, TLAPS

Types ==
    /\ now \in Times
    /\ lastRunTime \in [Intervals -> Nat]
    /\ ranAt \in [Intervals -> Nat \cup {NotYet}]

(* lastRunTime is the begin of the slot of the last run, which is the one  *)
(* the clock shows; or it is 0, and the timer is due at the next turn.     *)
LastRunIsSlot ==
    \A i \in Intervals :
        \/ lastRunTime[i] = 0
        \/ /\ lastRunTime[i] = i * Slot(i, ranAt[i])
           /\ Slot(i, ranAt[i]) = Slot(i, now)

(* While the clock is steady lastRunTime is not forgotten. *)
SteadyKeeps ==
    \A i \in Intervals :
        /\ ranAt[i] = NotYet => lastRunTime[i] = 0
        /\ i \in steady /\ ranAt[i] # NotYet =>
                lastRunTime[i] = i * Slot(i, ranAt[i]) /\ ranAt[i] <= now

IInv == Types /\ LastRunIsSlot /\ SteadyKeeps

-----------------------------------------------------------------------------
(* What the clock showed at a run, or NotYet, is a number. *)
LEMMA RanAtInt ==
    ASSUME Types, NEW i \in Intervals
    PROVE  ranAt[i] \in Int /\ now \in Nat
<1>1. ranAt[i] \in Nat \/ ranAt[i] = -1
    BY DEF Types, NotYet
<1>2. now \in Nat
    BY TimeAssumption DEF Types, Times
<1> QED
    BY <1>1, <1>2

(* The slot of t is the only k with i * k <= t < i * k + i. *)
LEMMA SlotBounds ==
    ASSUME NEW i \in Nat \ {0}, NEW t \in Int
    PROVE  Slot(i, t) \in Int /\ i * Slot(i, t) <= t /\ t < i * Slot(i, t) + i
BY DEF Slot

LEMMA SmallMultiple ==
    ASSUME NEW i \in Nat \ {0}, NEW k \in Int, NEW l \in Int, i * k < i * l + i
    PROVE  k <= l
<1> SUFFICES ASSUME k >= l + 1 PROVE FALSE
    OBVIOUS
<1>1. i * k >= i * (l + 1)
    OBVIOUS
<1>2. i * (l + 1) = i * l + i
    OBVIOUS
<1> QED
    BY <1>1, <1>2

LEMMA SlotUnique ==
    ASSUME NEW i \in Nat \ {0}, NEW t \in Int, NEW k \in Int,
           i * k <= t, t < i * k + i
    PROVE  Slot(i, t) = k
<1> DEFINE q == Slot(i, t)
<1>1. q \in Int /\ i * q <= t /\ t < i * q + i
    BY SlotBounds
<1> HIDE DEF q
<1>2. i * k \in Int /\ i * q \in Int
    BY <1>1
<1>3. i * k < i * q + i /\ i * q < i * k + i
    BY <1>1, <1>2
<1> QED
    BY <1>1, <1>3, SmallMultiple DEF q

(* The end of slot k is the begin of a later one. *)
LEMMA LaterSlot ==
    ASSUME NEW i \in Nat \ {0}, NEW t \in Int, NEW k \in Int
    PROVE  t >= i * k + i <=> Slot(i, t) > k
<1> DEFINE q == Slot(i, t)
<1>1. q \in Int /\ i * q <= t /\ t < i * q + i
    BY SlotBounds
<1> HIDE DEF q
<1>2. i * k \in Int /\ i * q \in Int
    BY <1>1
<1>3. ASSUME t >= i * k + i PROVE q > k
  <2>1. i * k < i * q
      BY <1>1, <1>2, <1>3
  <2>2. ASSUME q <= k PROVE FALSE
    <3>1. i * q <= i * k
        BY <1>1, <2>2
    <3> QED
        BY <1>2, <2>1, <3>1
  <2> QED
      BY <1>1, <2>2
<1>4. ASSUME q > k PROVE t >= i * k + i
  <2>1. i * q >= i * (k + 1)
      BY <1>1, <1>4
  <2>2. i * (k + 1) = i * k + i
      OBVIOUS
  <2> QED
      BY <1>1, <1>2, <2>1, <2>2
<1> QED
    BY <1>3, <1>4 DEF q

(* What update() adds to lastRunTime takes it to the begin of the slot. *)
LEMMA AdvancedIsSlot ==
    ASSUME NEW i \in Intervals, NEW t \in Nat, Types, NEW k \in Int,
           lastRunTime[i] = i * k, Due(i, t)
    PROVE  Advanced(i, t) = i * Slot(i, t) /\ Advanced(i, t) \in Nat
<1> DEFINE last == lastRunTime[i]
           r    == (t - last) % i
           d    == (t - last) \div i
<1>1. i \in Nat \ {0} /\ last \in Nat
    BY TimeAssumption DEF Types
<1>2. d \in Int /\ r \in Int /\ 0 <= r /\ r < i /\ t - last = i * d + r
    BY <1>1
<1>3. Advanced(i, t) = last + ((t - last) - r)
    BY DEF Advanced
<1> HIDE DEF d, r
<1>4. i * (k + d) = i * k + i * d
    BY <1>1, <1>2
<1>5. i * k \in Int /\ i * d \in Int /\ last = i * k
    BY <1>1, <1>2
<1>6. Advanced(i, t) = i * (k + d)
    BY <1>1, <1>2, <1>3, <1>4, <1>5
<1>7. i * (k + d) <= t /\ t < i * (k + d) + i
    BY <1>1, <1>2, <1>4, <1>5
<1>8. Slot(i, t) = k + d
    BY <1>1, <1>2, <1>7, SlotUnique
<1>9. t - last >= 0 /\ t - last \in Nat
    BY <1>1 DEF Due
<1> QED
    BY <1>1, <1>2, <1>3, <1>6, <1>8, <1>9

(* Before a run lastRunTime is 0 or the begin of a slot. *)
LEMMA MultipleBefore ==
    ASSUME IInv, NEW i \in Intervals
    PROVE  \E k \in Int : lastRunTime[i] = i * k
<1>1. i \in Nat \ {0} /\ ranAt[i] \in Int
    BY TimeAssumption DEF IInv, Types, NotYet
<1>2. CASE lastRunTime[i] = 0
    BY <1>1, <1>2
<1>3. CASE lastRunTime[i] = i * Slot(i, ranAt[i])
    BY <1>1, <1>3, SlotBounds
<1> QED
    BY <1>2, <1>3 DEF IInv, LastRunIsSlot

-----------------------------------------------------------------------------
LEMMA UpdateKeeps ==
    ASSUME IInv, NEW t \in Times, Update(t)
    PROVE  IInv'
<1>1. t \in Nat /\ \A i \in Intervals : i \in Nat \ {0} /\ i <= t
    BY TimeAssumption DEF Times
<1>2. ASSUME NEW i \in Intervals, Due(i, t)
      PROVE  /\ i \in ran' /\ ranAt'[i] = t
             /\ lastRunTime'[i] = i * Slot(i, t) /\ lastRunTime'[i] \in Nat
    BY <1>1, <1>2, MultipleBefore, AdvancedIsSlot DEF Update, IInv, Types
<1>3. ASSUME NEW i \in Intervals, ~ Due(i, t)
      PROVE  i \notin ran' /\ ranAt'[i] = ranAt[i] /\ lastRunTime'[i] = NotDue(i, t)
    BY <1>3 DEF Update, IInv, Types
<1>4. Types'
  <2>1. lastRunTime' \in [Intervals -> Nat]
    <3>1. ASSUME NEW i \in Intervals PROVE lastRunTime'[i] \in Nat
        BY <1>2, <1>3 DEF NotDue, IInv, Types
    <3> QED
        BY <3>1 DEF Update
  <2>2. ranAt' \in [Intervals -> Nat \cup {NotYet}]
      BY <1>1 DEF Update, IInv, Types
  <2> QED
      BY <2>1, <2>2 DEF Update, Types
<1>5. LastRunIsSlot'
  <2> SUFFICES ASSUME NEW i \in Intervals
               PROVE  \/ lastRunTime'[i] = 0
                      \/ /\ lastRunTime'[i] = i * Slot(i, ranAt'[i])
                         /\ Slot(i, ranAt'[i]) = Slot(i, now')
      BY DEF LastRunIsSlot, Slot
  <2>1. now' = t
      BY DEF Update
  <2>2. CASE Due(i, t)
      BY <1>2, <2>1, <2>2
  <2>3. CASE ~ Due(i, t)
    <3>1. CASE lastRunTime[i] = 0
        BY <1>3, <2>3, <3>1 DEF NotDue
    <3>2. CASE lastRunTime[i] # 0 /\ t < lastRunTime[i]
        BY <1>3, <2>3, <3>2 DEF NotDue
    <3>3. CASE lastRunTime[i] # 0 /\ t >= lastRunTime[i]
      <4>1. lastRunTime'[i] = lastRunTime[i] /\ ranAt'[i] = ranAt[i]
          BY <1>1, <1>3, <2>3, <3>3 DEF NotDue, IInv, Types
      <4>2. lastRunTime[i] = i * Slot(i, ranAt[i])
          BY <3>3 DEF IInv, LastRunIsSlot
      <4>3. Slot(i, ranAt[i]) \in Int
          BY <1>1, SlotBounds, RanAtInt DEF IInv
      <4>4. t < lastRunTime[i] + i
          BY <1>1, <2>3 DEF Due, IInv, Types
      <4>5. Slot(i, t) = Slot(i, ranAt[i])
          BY <1>1, <3>3, <4>2, <4>3, <4>4, SlotUnique
      <4> QED
          BY <2>1, <4>1, <4>2, <4>5
    <3> QED
        BY <1>1, <3>1, <3>2, <3>3 DEF IInv, Types
  <2> QED
      BY <2>2, <2>3
<1>6. SteadyKeeps'
  <2> SUFFICES ASSUME NEW i \in Intervals
               PROVE  /\ ranAt'[i] = NotYet => lastRunTime'[i] = 0
                      /\ i \in steady' /\ ranAt'[i] # NotYet =>
                            lastRunTime'[i] = i * Slot(i, ranAt'[i]) /\ ranAt'[i] <= now'
      BY DEF SteadyKeeps, Slot
  <2>1. now' = t
      BY DEF Update
  <2>2. CASE Due(i, t)
      BY <1>1, <1>2, <2>1, <2>2 DEF NotYet
  <2>3. CASE ~ Due(i, t)
    <3>1. i \notin ran' /\ ranAt'[i] = ranAt[i] /\ lastRunTime'[i] = NotDue(i, t)
        BY <1>3, <2>3
    <3>2. ranAt[i] = NotYet => lastRunTime'[i] = 0
        BY <3>1 DEF NotDue, IInv, SteadyKeeps
    <3>3. ASSUME i \in steady', ranAt[i] # NotYet
          PROVE  lastRunTime'[i] = i * Slot(i, ranAt[i]) /\ ranAt[i] <= t
      <4>1. i \in steady /\ t >= now
          BY <1>1, <3>1, <3>3, TimeAssumption DEF Update, IInv, Types, Times
      <4>2. lastRunTime[i] = i * Slot(i, ranAt[i]) /\ ranAt[i] <= now
          BY <3>3, <4>1 DEF IInv, SteadyKeeps
      <4>3. ranAt[i] \in Int /\ now \in Int
          BY RanAtInt DEF IInv
      <4>4. i * Slot(i, ranAt[i]) <= ranAt[i]
          BY <1>1, <4>3, SlotBounds
      <4>5. lastRunTime[i] \in Nat /\ lastRunTime[i] <= t
          BY <1>1, <4>1, <4>2, <4>3, <4>4 DEF IInv, Types
      <4> QED
          BY <1>1, <3>1, <4>1, <4>2, <4>3, <4>5 DEF NotDue
    <3> QED
        BY <2>1, <3>1, <3>2, <3>3
  <2> QED
      BY <2>2, <2>3
<1> QED
    BY <1>4, <1>5, <1>6 DEF IInv

LEMMA InitHolds == Init => IInv
BY TimeAssumption
DEF Init, IInv, Types, LastRunIsSlot, SteadyKeeps, NotYet, Times

LEMMA InvHolds == Spec => []IInv
<1>1. IInv /\ [Next]_vars => IInv'
  <2> SUFFICES ASSUME IInv, [Next]_vars PROVE IInv'
      OBVIOUS
  <2>1. CASE Next
      BY <2>1, UpdateKeeps DEF Next
  <2>2. CASE UNCHANGED vars
      BY <2>2 DEF vars, IInv, Types, LastRunIsSlot, SteadyKeeps, Slot
  <2> QED
      BY <2>1, <2>2
<1> QED
    BY InitHolds, <1>1, PTL DEF Spec

(* On a clock that is not set back a timer runs at the first turn of each  *)
(* interval that has one and at no other (TimerControl.cpp:23-33).         *)
THEOREM KeepsItsSlots == Spec => OncePerInterval
<1>1. IInv /\ [Next]_vars =>
        [\A i \in Intervals :
            (i \in steady /\ now' >= now) =>
                (i \in ran' <=> Slot(i, now') > Slot(i, ranAt[i]))]_vars
  <2> SUFFICES ASSUME IInv, NEW t \in Times, Update(t), NEW i \in Intervals,
                      i \in steady, now' >= now
               PROVE  i \in ran' <=> Slot(i, now') > Slot(i, ranAt[i])
      BY DEF Next
  <2>1. t \in Nat /\ i \in Nat \ {0} /\ i <= t /\ now' = t
      BY TimeAssumption DEF Times, Update
  <2>2. i \in ran' <=> t >= lastRunTime[i] + i
      BY DEF Update, Due
  <2>3. CASE ranAt[i] = NotYet
    <3>1. lastRunTime[i] = 0
        BY <2>3 DEF IInv, SteadyKeeps
    <3>2. Slot(i, ranAt[i]) = -1
        BY <2>1, <2>3, SlotUnique DEF NotYet
    <3>3. Slot(i, t) >= 0
        BY <2>1 DEF Slot
    <3>4. Slot(i, t) > -1
        BY <2>1, <3>3, SlotBounds
    <3> QED
        BY <2>1, <2>2, <3>1, <3>2, <3>4
  <2>4. CASE ranAt[i] # NotYet
    <3>1. lastRunTime[i] = i * Slot(i, ranAt[i])
        BY <2>4 DEF IInv, SteadyKeeps
    <3>2. Slot(i, ranAt[i]) \in Int
        BY <2>1, SlotBounds, RanAtInt DEF IInv
    <3>3. t \in Int
        BY <2>1
    <3>4. t >= i * Slot(i, ranAt[i]) + i <=> Slot(i, t) > Slot(i, ranAt[i])
        BY <2>1, <3>2, <3>3, LaterSlot, Zenon
    <3> QED
        BY <2>1, <2>2, <3>1, <3>4
  <2> QED
      BY <2>3, <2>4
<1> QED
    BY InvHolds, <1>1, PTL DEF Spec, OncePerInterval

(* However the clock is set, a timer that a turn in another slot than that *)
(* of its last run left alone runs at the next (TimerControl.cpp:35-38).   *)
THEOREM NeverStalls == Spec => NoStall
<1>1. IInv /\ [Next]_vars =>
        [\A i \in Intervals : Slot(i, ranAt[i]) # Slot(i, now) => i \in ran']_vars
  <2> SUFFICES ASSUME IInv, NEW t \in Times, Update(t), NEW i \in Intervals,
                      Slot(i, ranAt[i]) # Slot(i, now)
               PROVE  i \in ran'
      BY DEF Next
  <2>1. lastRunTime[i] = 0
      BY DEF IInv, LastRunIsSlot
  <2>2. t \in Nat /\ i \in Nat /\ i <= t
      BY TimeAssumption DEF Times
  <2> QED
      BY <2>1, <2>2 DEF Update, Due
<1> QED
    BY InvHolds, <1>1, PTL DEF Spec, NoStall

=============================================================================
