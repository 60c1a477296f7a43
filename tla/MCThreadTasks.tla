--------------------------- MODULE MCThreadTasks ----------------------------
(* Two or three tasks a side against rings of one slot, so that caches     *)
(* fill, and two tasks a frame, so that the limit of a frame is met.       *)
EXTENDS ThreadTasks, TLC

CONSTANTS m1, m2, m3, w1, w2

MCMainTasks   == {m1, m2, m3}
MCWorkerTasks == {w1, w2}

=============================================================================
