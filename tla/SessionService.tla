--------------------------- MODULE SessionService ---------------------------
(***************************************************************************)
(* What the application sees of a connection: one session that begins,     *)
(* gives it the frames the client sent and none twice, and ends for good:  *)
(* when the client ends it nothing comes after, when the server closes it  *)
(* frames that were under way may still come.                              *)
(***************************************************************************)
EXTENDS Naturals

CONSTANT Conns

VARIABLES
    phase,       \* phase[c]: "none", "live", "closed" (by the server) or "ended"
    sent,        \* sent[c]: frames the client sent
    handled      \* handled[c]: frames the application handled

serviceVars == <<phase, sent, handled>>

Init ==
    /\ phase = [c \in Conns |-> "none"]
    /\ sent = [c \in Conns |-> 0]
    /\ handled = [c \in Conns |-> 0]

Send(c) ==
    /\ sent' = [sent EXCEPT ![c] = @ + 1]
    /\ UNCHANGED <<phase, handled>>

Begin(c) ==
    /\ phase[c] = "none"
    /\ phase' = [phase EXCEPT ![c] = "live"]
    /\ UNCHANGED <<sent, handled>>

Handle(c) ==
    /\ phase[c] \in {"live", "closed"}
    /\ handled[c] < sent[c]
    /\ handled' = [handled EXCEPT ![c] = @ + 1]
    /\ UNCHANGED <<phase, sent>>

End(c) ==
    /\ phase[c] = "live"
    /\ phase' \in {[phase EXCEPT ![c] = "closed"], [phase EXCEPT ![c] = "ended"]}
    /\ UNCHANGED <<sent, handled>>

Next == \E c \in Conns : Send(c) \/ Begin(c) \/ Handle(c) \/ End(c)

Spec == Init /\ [][Next]_serviceVars

=============================================================================
