---------------------------- MODULE FrameChannel ----------------------------
(***************************************************************************)
(* What the receive path of a connection promises the session it belongs   *)
(* to: the frames the client wrote are handed over whole, in order and     *)
(* once each, until the connection is cut.                                 *)
(***************************************************************************)
EXTENDS Naturals, Sequences

VARIABLES
    written,             \* the frames written by the client, in order
    handed,              \* the frames handed to the session, in order
    cut                  \* the connection has been given up

frameVars == <<written, handed, cut>>

Init == written = <<>> /\ handed = <<>> /\ cut = FALSE

(* The client writes one more frame, of any content. *)
Write ==
    /\ Len(written') = Len(written) + 1
    /\ written' = Append(written, written'[Len(written) + 1])
    /\ UNCHANGED <<handed, cut>>

Hand ==
    /\ ~ cut
    /\ Len(handed) < Len(written)
    /\ handed' = Append(handed, written[Len(handed) + 1])
    /\ UNCHANGED <<written, cut>>

Cut ==
    /\ ~ cut
    /\ cut' = TRUE
    /\ UNCHANGED <<written, handed>>

Next == Write \/ Hand \/ Cut

Spec == Init /\ [][Next]_frameVars

=============================================================================
