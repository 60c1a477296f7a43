------------------------------ MODULE TaskLife ------------------------------
(***************************************************************************)
(* What the task machinery of oryx/thread.cpp promises whoever posts a     *)
(* task: it is executed once by the other thread, and only after that      *)
(* completed and destroyed, once, by the thread that created it.  The      *)
(* object may then be allocated again.                                     *)
(***************************************************************************)
CONSTANT Tasks           \* task objects (struct Task of oryx/task.h)

VARIABLE phase           \* where each task stands in its life

Phases == {"free", "posted", "executed"}

Init == phase = [t \in Tasks |-> "free"]

Move(t, from, to) == phase[t] = from /\ phase' = [phase EXCEPT ![t] = to]

Post(t)     == Move(t, "free", "posted")
Execute(t)  == Move(t, "posted", "executed")
Complete(t) == Move(t, "executed", "free")

Next == \E t \in Tasks : Post(t) \/ Execute(t) \/ Complete(t)

Spec == Init /\ [][Next]_phase

=============================================================================
