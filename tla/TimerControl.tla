---------------------------- MODULE TimerControl ----------------------------
(***************************************************************************)
(* The timers of the main loop (oryx/TimerControl.cpp): each turn of the   *)
(* loop reads the wall clock and runs what is due.  lastRunTime moves by   *)
(* whole intervals, so a timer is due at the multiples of its interval;    *)
(* the clock can be set forward and back between two turns.                *)
(*                                                                         *)
(* A timer is known by its interval: ServerHandler registers one of 1000   *)
(* and one of 2000 ms, both with a function.                               *)
(***************************************************************************)
EXTENDS Integers

CONSTANTS
    Intervals,     \* interval of each timer, in ms
    Epoch,         \* the earliest time the clock can show
    MaxTime        \* bound: the latest one

ASSUME TimeAssumption ==
    /\ Intervals \subseteq Nat \ {0}
    /\ Epoch \in Nat /\ MaxTime \in Nat
    /\ \A i \in Intervals : i <= Epoch

VARIABLES
    now,           \* timeNow_MilliSecond of the last update()
    lastRunTime,   \* lastRunTime[i]
    ran,           \* timers the last update() ran
    ranAt,         \* history: what the clock showed when i ran last
    steady         \* history: timers since whose run the clock did not go back

vars == <<now, lastRunTime, ran, ranAt, steady>>

Times  == Epoch..MaxTime
NotYet == -1

Init ==
    /\ now \in Times
    /\ lastRunTime = [i \in Intervals |-> 0]
    /\ ran = {}
    /\ ranAt = [i \in Intervals |-> NotYet]
    /\ steady = Intervals

Due(i, t) == t >= lastRunTime[i] + i

(* Mutated form: one interval at a time. *)
Advanced_ByOne(i, t) == lastRunTime[i] + i

(* lastRunTime of a timer that is run at time t. *)
Advanced(i, t) ==
    LET addVal == t - lastRunTime[i]
    IN  lastRunTime[i] + (addVal - (addVal % i))

(* Mutated form: a time in the future is kept. *)
NotDue_Kept(i, t) == lastRunTime[i]

(* lastRunTime of a timer that is not run: a time in the future, left by a *)
(* clock that was set back, is forgotten.                                  *)
NotDue(i, t) == IF t < lastRunTime[i] THEN 0 ELSE lastRunTime[i]

(* update() at time t. *)
Update(t) ==
    /\ now' = t
    /\ ran' = {i \in Intervals : Due(i, t)}
    /\ lastRunTime' =
        [i \in Intervals |-> IF i \in ran' THEN Advanced(i, t) ELSE NotDue(i, t)]
    /\ ranAt' = [i \in Intervals |-> IF i \in ran' THEN t ELSE ranAt[i]]
    /\ steady' = ran' \cup (IF t < now THEN {} ELSE steady)

Next == \E t \in Times : Update(t)

Spec == Init /\ [][Next]_vars

-----------------------------------------------------------------------------
(* The slot of timer i that time t lies in. *)
Slot(i, t) == t \div i

(* While the clock is not set back, a timer runs at the first turn of each *)
(* interval that has one and at no other: it neither drifts nor catches up *)
(* on intervals that a long turn missed (TimerControl.cpp:23-33).          *)
OncePerInterval ==
    [][\A i \in Intervals :
        (i \in steady /\ now' >= now) =>
            (i \in ran' <=> Slot(i, now') > Slot(i, ranAt[i]))]_vars

(* However the clock is moved, no timer stalls: if a turn in another slot  *)
(* than that of the last run did not run the timer, the next turn does     *)
(* (TimerControl.cpp:35-38).                                               *)
NoStall ==
    [][\A i \in Intervals :
        Slot(i, ranAt[i]) # Slot(i, now) => i \in ran']_vars

=============================================================================
