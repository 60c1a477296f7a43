--------------------------- MODULE PlayerPresence ---------------------------
(* What the player manager promises: a player is on one live session at    *)
(* most and a session is one player's at most; the player leaves when the  *)
(* session ends; and a message for a player reaches the session the player *)
(* is on, or nobody.                                                       *)

CONSTANTS Players, Sessions, NoSession

VARIABLES
    live,     \* sessions in being
    on,       \* on[p]: the session player p is on, NoSession if offline
    reached   \* player and session of the last message, {} if it was dropped

vars == <<live, on, reached>>

Init ==
    /\ live = {}
    /\ on = [p \in Players |-> NoSession]
    /\ reached = {}

Begin(s) ==
    /\ s \notin live
    /\ live' = live \cup {s}
    /\ UNCHANGED <<on, reached>>

(* Whoever was on the session is offline. *)
End(s) ==
    /\ s \in live
    /\ live' = live \ {s}
    /\ on' = [p \in Players |-> IF on[p] = s THEN NoSession ELSE on[p]]
    /\ UNCHANGED reached

(* The player moves to a session that is nobody else's. *)
Login(p, s) ==
    /\ s \in live
    /\ \A q \in Players : on[q] # s
    /\ on' = [on EXCEPT ![p] = s]
    /\ UNCHANGED <<live, reached>>

Logoff(p) ==
    /\ on' = [on EXCEPT ![p] = NoSession]
    /\ UNCHANGED <<live, reached>>

Message(p) ==
    /\ on[p] \in live
    /\ reached' = {[player |-> p, session |-> on[p]]}
    /\ UNCHANGED <<live, on>>

(* A message that reaches no player. *)
Drop ==
    /\ reached' = {}
    /\ UNCHANGED <<live, on>>

Next ==
    \/ \E s \in Sessions : Begin(s) \/ End(s)
    \/ \E p \in Players :
        \/ Logoff(p) \/ Message(p)
        \/ \E s \in Sessions : Login(p, s)
    \/ Drop

Spec == Init /\ [][Next]_vars

=============================================================================
