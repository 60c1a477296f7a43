------------------------------ MODULE SessionId ------------------------------
(***************************************************************************)
(* ClientConnManager::getRandNewSession(): a session id is the wall clock  *)
(* in seconds times Span, plus a counter that runs through 1 .. Span.      *)
(*                                                                         *)
(* Sessions enter and leave m_MapSessionConnInfo on the main thread, but a *)
(* worker and tasks on their way may name a session that has left it, so   *)
(* an id ought not to be given again.  ConnLifecycle takes for granted     *)
(* that it is not; this module says when that is so: as long as the clock  *)
(* is not set back and no second of it sees more than Span requests.       *)
(***************************************************************************)
EXTENDS Integers, Sequences, FiniteSets

CONSTANTS
    Span,           \* 100000
    MaxTime,        \* bound: the last second of the clock
    MaxIssued       \* bound: how many ids are given

ASSUME SpanAssumption == Span \in Nat \ {0}
ASSUME BoundAssumption == MaxTime \in Nat /\ MaxIssued \in Nat

VARIABLES
    now,                    \* time(NULL)
    m_iAutoIncriSessionID,
    m_MapSessionConnInfo,   \* the ids of the sessions
    looking,                \* getRandNewSession() is in its loop
    asked,                  \* requests for an id open in this second of the clock
    issued,                 \* history: the ids given, in order
    steady                  \* history: the clock was not set back, and no
                            \* second of it saw more than Span requests

vars == <<now, m_iAutoIncriSessionID, m_MapSessionConnInfo, looking, asked, issued,
          steady>>

Init ==
    /\ now \in 0 .. MaxTime
    /\ m_iAutoIncriSessionID = 1
    /\ m_MapSessionConnInfo = {}
    /\ looking = FALSE
    /\ asked = 0
    /\ issued = <<>>
    /\ steady = TRUE

-----------------------------------------------------------------------------
(* The clock advances, or is set back. *)
Clock(t) ==
    /\ t # now
    /\ now' = t
    /\ asked' = IF looking THEN 1 ELSE 0
    /\ steady' = (steady /\ t > now)
    /\ UNCHANGED <<m_iAutoIncriSessionID, m_MapSessionConnInfo, looking, issued>>

(* A client connects; task_clientConn asks for an id. *)
Ask ==
    /\ ~ looking
    /\ Len(issued) < MaxIssued
    /\ looking' = TRUE
    /\ asked' = asked + 1
    /\ steady' = (steady /\ asked < Span)
    /\ UNCHANGED <<now, m_iAutoIncriSessionID, m_MapSessionConnInfo, issued>>

Candidate == now * Span + m_iAutoIncriSessionID

(* Mutated form: the counter leaves its last value out. *)
NextCounter_OneShort(n) == IF Span = 1 THEN n ELSE (n % (Span - 1)) + 1

NextCounter(n) == (n % Span) + 1

(* One turn of the loop: the candidate is the id of a session. *)
TryAgain ==
    /\ looking
    /\ Candidate \in m_MapSessionConnInfo
    /\ m_iAutoIncriSessionID' = NextCounter(m_iAutoIncriSessionID)
    /\ UNCHANGED <<now, m_MapSessionConnInfo, looking, asked, issued, steady>>

(* The last turn; the caller passes the id to addNewConn(). *)
NewSession ==
    /\ looking
    /\ Candidate \notin m_MapSessionConnInfo
    /\ m_iAutoIncriSessionID' = NextCounter(m_iAutoIncriSessionID)
    /\ looking' = FALSE
    /\ m_MapSessionConnInfo' = m_MapSessionConnInfo \cup {Candidate}
    /\ issued' = Append(issued, Candidate)
    /\ UNCHANGED <<now, asked, steady>>

RemoveSessionConn(id) ==
    /\ ~ looking
    /\ m_MapSessionConnInfo' = m_MapSessionConnInfo \ {id}
    /\ UNCHANGED <<now, m_iAutoIncriSessionID, looking, asked, issued, steady>>

Next ==
    \/ \E t \in 0 .. MaxTime : Clock(t)
    \/ Ask \/ TryAgain \/ NewSession
    \/ \E id \in m_MapSessionConnInfo : RemoveSessionConn(id)

Spec == Init /\ [][Next]_vars

(* The main thread goes on with its loop; the clock need not move. *)
FairSpec == Spec /\ WF_vars(TryAgain \/ NewSession)

-----------------------------------------------------------------------------
IdsDiffer == \A m, n \in DOMAIN issued : issued[m] = issued[n] => m = n

(* As long as the clock is steady no id is given twice, whatever sessions  *)
(* have ended in between and wherever in a second the counter wraps        *)
(* around: no late task can reach another session than its own             *)
(* (ClientConnManager.cpp:62-76).                                          *)
NeverReused == steady => IdsDiffer

(* While there are fewer than Span sessions the loop ends, even if the     *)
(* clock is set back to a second whose ids are taken.                      *)
LoopEnds ==
    (looking /\ Cardinality(m_MapSessionConnInfo) < Span) ~> ~ looking

=============================================================================
