-------------------------------- MODULE Fifo --------------------------------
(***************************************************************************)
(* What the inter-thread queue of oryx/spsc_queue.h promises its users: an *)
(* unbounded first-in first-out channel between one pushing and one        *)
(* popping thread.  Nothing is lost, duplicated or reordered, and a push   *)
(* never waits.                                                            *)
(***************************************************************************)
EXTENDS Naturals, Sequences

CONSTANT Data            \* the values carried (tagThreadTaskNode in the code)

VARIABLES
    accepted,            \* every value ever pushed, in order
    delivered            \* every value ever popped, in order

fifoVars == <<accepted, delivered>>

Init == accepted = <<>> /\ delivered = <<>>

Accept(d) ==
    /\ accepted' = Append(accepted, d)
    /\ UNCHANGED delivered

Deliver ==
    /\ Len(delivered) < Len(accepted)
    /\ delivered' = Append(delivered, accepted[Len(delivered) + 1])
    /\ UNCHANGED accepted

Next == (\E d \in Data : Accept(d)) \/ Deliver

Spec == Init /\ [][Next]_fifoVars

=============================================================================
