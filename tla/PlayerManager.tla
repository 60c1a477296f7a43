--------------------------- MODULE PlayerManager ----------------------------
(***************************************************************************)
(* logic/PlayerManager.cpp on top of the sessions of                       *)
(* oryx/ClientConnManager.cpp: which player is on which session.  Both     *)
(* maps hold pointers to SessionConn objects, which `new' may place where  *)
(* a deleted one was.  Everything runs on the main thread, so a call is    *)
(* one step; the tasks for the workers are in module ConnLifecycle.        *)
(*                                                                         *)
(* Two things here are undefined or unforeseen in the code and free in the *)
(* model: removeSessionConn() deletes the object and then passes it on to  *)
(* onSessionClose(), which finds any player_id where it was; and a login   *)
(* may be for a session that has another player, whose entry then stays.   *)
(***************************************************************************)
EXTENDS FiniteSets

CONSTANTS
    Players,         \* player ids, all positive
    AllPlayers,      \* keys of m_mapPlayer_All
    Sessions,        \* session ids
    Addresses,       \* where `new SessionConn' can place an object
    NULL, NoPlayer, NoSession

ASSUME PlaceholderAssumption ==
    /\ AllPlayers \subseteq Players
    /\ NULL \notin Addresses
    /\ NoPlayer \notin Players
    /\ NoSession \notin Sessions

VARIABLES
    m_MapSessionConnInfo,    \* [s]: address of the SessionConn, NULL if none
    m_mapAllPlayer_Online,   \* [p]: address of a SessionConn, NULL if absent
    conn,                    \* conn[a]: what lies at address a
    outcome,                 \* of the last sendProtoToPlayer()
    intact                   \* history: no deleted object was misread and no
                             \* session taken over by another player so far

vars == <<m_MapSessionConnInfo, m_mapAllPlayer_Online, conn, outcome, intact>>

SessionConn == [allocated: BOOLEAN, session_id: Sessions \cup {NoSession},
                player_id: Players \cup {NoPlayer}]

Unused  == [allocated |-> FALSE, session_id |-> NoSession, player_id |-> NoPlayer]

(* What the caller of a send can ask for: no protobuf message, one that    *)
(* needs no bytes, or one that does; and whether it can be serialized.     *)
Protos == [body: {"none", "empty", "bytes"}, serializes: BOOLEAN]

NoOutcome == [result |-> "none", player |-> NoPlayer, session |-> NoSession]

Init ==
    /\ m_MapSessionConnInfo = [s \in Sessions |-> NULL]
    /\ m_mapAllPlayer_Online = [p \in Players |-> NULL]
    /\ conn = [a \in Addresses |-> Unused]
    /\ outcome = NoOutcome
    /\ intact = TRUE

-----------------------------------------------------------------------------
(* addNewConn: the object goes anywhere that is not allocated. *)
AddNewConn(s, a) ==
    /\ m_MapSessionConnInfo[s] = NULL
    /\ ~ conn[a].allocated
    /\ conn' = [conn EXCEPT ![a] =
                    [allocated |-> TRUE, session_id |-> s, player_id |-> NoPlayer]]
    /\ m_MapSessionConnInfo' = [m_MapSessionConnInfo EXCEPT ![s] = a]
    /\ UNCHANGED <<m_mapAllPlayer_Online, outcome, intact>>

(* What can lie where an object was deleted. *)
Freed == {r \in SessionConn : ~ r.allocated}

(* External: memory that is not allocated changes. *)
FreedChanges(a) ==
    /\ ~ conn[a].allocated
    /\ \E r \in Freed : conn' = [conn EXCEPT ![a] = r]
    /\ UNCHANGED <<m_MapSessionConnInfo, m_mapAllPlayer_Online, outcome, intact>>

(* onPlayerLogoff on the objects c. *)
LoggedOff(c, p) ==
    LET a == m_mapAllPlayer_Online[p]
    IN  IF a = NULL THEN c ELSE [c EXCEPT ![a].player_id = NoPlayer]

OnPlayerLogoff(p) ==
    /\ conn' = LoggedOff(conn, p)
    /\ m_mapAllPlayer_Online' = [m_mapAllPlayer_Online EXCEPT ![p] = NULL]
    /\ UNCHANGED <<m_MapSessionConnInfo, outcome, intact>>

(* Mutated form: the pointer is cleared by the delete, so that             *)
(* onSessionClose() sees none.                                             *)
OnSessionClose_Cleared(c, p) ==
    /\ conn' = c
    /\ UNCHANGED m_mapAllPlayer_Online

(* onSessionClose: the player found in the object is logged off. *)
OnSessionClose(c, p) ==
    IF p = NoPlayer
    THEN conn' = c /\ UNCHANGED m_mapAllPlayer_Online
    ELSE /\ conn' = LoggedOff(c, p)
         /\ m_mapAllPlayer_Online' = [m_mapAllPlayer_Online EXCEPT ![p] = NULL]

(* removeSessionConn, from closeConn() or from the task that says that the *)
(* worker lost the connection; a session that is gone is ignored.          *)
RemoveSessionConn(s) ==
    LET a == m_MapSessionConnInfo[s]
    IN  /\ a # NULL
        /\ \E r \in Freed :
                /\ OnSessionClose([conn EXCEPT ![a] = r], r.player_id)
                /\ intact' = (intact /\ r.player_id = conn[a].player_id)
        /\ m_MapSessionConnInfo' = [m_MapSessionConnInfo EXCEPT ![s] = NULL]
        /\ UNCHANGED outcome

(* Mutated form: the old session keeps the player. *)
Relogin_OldKept(p, a) ==
    /\ conn' = [conn EXCEPT ![a].player_id = p]
    /\ m_mapAllPlayer_Online' = [m_mapAllPlayer_Online EXCEPT ![p] = a]

(* The end of onPlayerLogin: the session p was on loses p, a gains p. *)
Relogin(p, a) ==
    /\ conn' = [LoggedOff(conn, p) EXCEPT ![a].player_id = p]
    /\ m_mapAllPlayer_Online' = [m_mapAllPlayer_Online EXCEPT ![p] = a]

(* onPlayerLogin with the object of a session that is in being, whoever is *)
(* on it.  Without a session, for an unknown player or for a repetition it *)
(* changes nothing.                                                        *)
OnPlayerLogin(p, s) ==
    LET a == m_MapSessionConnInfo[s]
    IN  /\ a # NULL
        /\ conn[a].player_id # p
        /\ p \in AllPlayers
        /\ Relogin(p, a)
        /\ intact' = (intact /\ conn[a].player_id = NoPlayer)
        /\ UNCHANGED <<m_MapSessionConnInfo, outcome>>

(* sendProtoToSession, and what its caller gets: SerializeToArray()        *)
(* returning true is taken for its failure (PlayerManager.cpp:113).        *)
SendResult(s, proto) ==
    CASE proto.body = "empty" \/ (proto.body = "bytes" /\ proto.serializes) -> "failed"
      [] OTHER -> IF s \in Sessions /\ m_MapSessionConnInfo[s] # NULL
                  THEN "sent" ELSE "gone"

(* sendProtoToSession, called for a session of any age. *)
SendProtoToSession(s, proto) ==
    /\ outcome' =
            [result |-> SendResult(s, proto), player |-> NoPlayer, session |-> s]
    /\ UNCHANGED <<m_MapSessionConnInfo, m_mapAllPlayer_Online, conn, intact>>

(* sendProtoToPlayer: the session id is read from the object online. *)
SendProtoToPlayer(p, proto) ==
    LET a == m_mapAllPlayer_Online[p]
    IN  /\ outcome' =
            IF a = NULL THEN [NoOutcome EXCEPT !.result = "offline", !.player = p]
            ELSE [result  |-> SendResult(conn[a].session_id, proto),
                  player  |-> p,
                  session |-> conn[a].session_id]
        /\ UNCHANGED <<m_MapSessionConnInfo, m_mapAllPlayer_Online, conn, intact>>

Next ==
    \/ \E s \in Sessions :
        \/ \E a \in Addresses : AddNewConn(s, a)
        \/ RemoveSessionConn(s)
        \/ \E proto \in Protos : SendProtoToSession(s, proto)
    \/ \E p \in Players :
        \/ OnPlayerLogoff(p)
        \/ \E s \in Sessions : OnPlayerLogin(p, s)
        \/ \E proto \in Protos : SendProtoToPlayer(p, proto)
    \/ \E a \in Addresses : FreedChanges(a)

Spec == Init /\ [][Next]_vars

-----------------------------------------------------------------------------
TypeOK ==
    /\ m_MapSessionConnInfo \in [Sessions -> Addresses \cup {NULL}]
    /\ m_mapAllPlayer_Online \in [Players -> Addresses \cup {NULL}]
    /\ conn \in [Addresses -> SessionConn]
    /\ outcome \in [result: {"none", "offline", "failed", "gone", "sent"},
                    player: Players \cup {NoPlayer},
                    session: Sessions \cup {NoSession}]
    /\ intact \in BOOLEAN

(* The map of sessions and the allocated objects correspond. *)
SessionsAreAllocated ==
    /\ \A s \in Sessions : LET a == m_MapSessionConnInfo[s] IN
        a # NULL => conn[a].allocated /\ conn[a].session_id = s
    /\ \A a \in Addresses : conn[a].allocated =>
        /\ conn[a].session_id \in Sessions
        /\ m_MapSessionConnInfo[conn[a].session_id] = a

(* The entry of a player leads to an allocated object with its name, *)
OnlineIsAllocated ==
    \A p \in Players : LET a == m_mapAllPlayer_Online[p] IN
        a # NULL => conn[a].allocated /\ conn[a].player_id = p

(* and a player named in an allocated object has its entry there. *)
AllocatedIsOnline ==
    \A a \in Addresses : LET p == conn[a].player_id IN
        conn[a].allocated /\ p # NoPlayer => m_mapAllPlayer_Online[p] = a

(* Whatever logins, closes and reads of deleted objects do: a session in   *)
(* being has its object, and a player named in one is found there through  *)
(* the map of players online, so that it can be logged off and is never    *)
(* named in two (PlayerManager.cpp:13-75, ClientConnManager.cpp:50-60).    *)
NamedIsOnline == SessionsAreAllocated /\ AllocatedIsOnline

(* PlayerManager.h:11 has the map as `playeID : sessionID': each entry is  *)
(* the session the player is on.                                           *)
OnlineIsSession == NamedIsOnline /\ OnlineIsAllocated

(* Only the two misuses part entries and sessions.  Until the first one no *)
(* entry outlives its session, where it would come to mean the next one    *)
(* placed at that address, and a player who logs in elsewhere leaves       *)
(* nothing behind (PlayerManager.cpp:47-55).                               *)
OnlineUntilMisuse == intact => OnlineIsSession

(* The session the entry of p leads to. *)
SessionOf(p) ==
    IF m_mapAllPlayer_Online[p] = NULL THEN NoSession
    ELSE conn[m_mapAllPlayer_Online[p]].session_id

Live == {s \in Sessions : m_MapSessionConnInfo[s] # NULL}
On   == [p \in Players |-> SessionOf(p)]

Reached ==
    IF outcome.result # "sent" \/ outcome.player = NoPlayer THEN {}
    ELSE {[player |-> outcome.player, session |-> outcome.session]}

Presence == INSTANCE PlayerPresence WITH live <- Live, on <- On, reached <- Reached

(* Until the first misuse, calls in any order keep a player on one session *)
(* at most, end the player's presence with the session, and send a         *)
(* player's message to no other session (PlayerManager.cpp:13-91).         *)
PresenceUntilMisuse ==
    Presence!Init /\ [][intact' => Presence!Next \/ UNCHANGED Presence!vars]_vars

=============================================================================
