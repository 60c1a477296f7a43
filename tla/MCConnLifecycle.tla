-------------------------- MODULE MCConnLifecycle ---------------------------
(* Two connections, two descriptors and two workers: enough for the number *)
(* of a closed descriptor to be given to the next connection, on another   *)
(* thread, while the first one is still being removed.                     *)
EXTENDS ConnLifecycle, TLC

CONSTANTS t1, t2, fd1, fd2, c1, c2, c3, c4

MCThreads == {t1, t2}
MCFds     == {fd1, fd2}
MCConns   == {c1, c2}

(* For the runs on liveness.  With four connections and two descriptors    *)
(* one that was left behind for want of a descriptor can be taken along    *)
(* with the next, after the first of them has closed.                      *)
MCOneThread  == {t1}
MCOneConn    == {c1}
MCFourConns  == {c1, c2, c3, c4}

(* What m_pressure holds at the start: with 2 a connection goes where it    *)
(* would not go from the number of devices alone.                          *)
MCPressures == {0, 2}
MCPressure  == {0}

(* Threads, descriptors and connections are interchangeable. *)
Symmetry == Permutations(MCThreads) \cup Permutations(MCFds) \cup Permutations(MCConns)

=============================================================================
