-------------------------- MODULE MainThreadProofs --------------------------
(* Proofs about PlayerManager and Dispatch, for any number of players,     *)
(* sessions, addresses and messages, and whatever a deleted object is read *)
(* as.  A session in being and the player named in it correspond always;   *)
(* entries of players online lead to their sessions until the first misuse *)
(* of a deleted object or of a session that has a player.                  *)
EXTENDS Dispatch, TLAPS

Named == TypeOK /\ NamedIsOnline
IInv  == Named /\ OnlineUntilMisuse

(* onPlayerLogoff() on any objects of the right shape takes the name out   *)
(* of the object that the entry of the player leads to.                    *)
LEMMA LoggedOffEffect ==
    ASSUME TypeOK, NEW c \in [Addresses -> SessionConn], NEW p \in Players
    PROVE  /\ LoggedOff(c, p) \in [Addresses -> SessionConn]
           /\ \A b \in Addresses :
                /\ LoggedOff(c, p)[b].allocated = c[b].allocated
                /\ LoggedOff(c, p)[b].session_id = c[b].session_id
                /\ LoggedOff(c, p)[b].player_id =
                        IF b = m_mapAllPlayer_Online[p] THEN NoPlayer ELSE c[b].player_id
<1>1. NULL \notin Addresses /\ m_mapAllPlayer_Online[p] \in Addresses \cup {NULL}
    BY PlaceholderAssumption DEF TypeOK
<1> QED
    BY <1>1 DEF LoggedOff, SessionConn

(* The shape of the maps and of the objects (PlayerManager.cpp,            *)
(* ClientConnManager.cpp) does not depend on what callers do.              *)
LEMMA TypeStep == TypeOK /\ [Next]_vars => TypeOK'
<1> SUFFICES ASSUME TypeOK, [Next]_vars PROVE TypeOK'
    OBVIOUS
<1>1. ASSUME NEW s \in Sessions, NEW a \in Addresses, AddNewConn(s, a)
      PROVE  TypeOK'
    BY <1>1 DEF TypeOK, AddNewConn, SessionConn
<1>a. ASSUME NEW a \in Addresses, FreedChanges(a) PROVE TypeOK'
    BY <1>a DEF TypeOK, FreedChanges, Freed
<1>2. ASSUME NEW s \in Sessions, RemoveSessionConn(s) PROVE TypeOK'
  <2> DEFINE a == m_MapSessionConnInfo[s]
  <2>1. PICK r \in Freed :
            /\ OnSessionClose([conn EXCEPT ![a] = r], r.player_id)
            /\ intact' = (intact /\ r.player_id = conn[a].player_id)
      BY <1>2 DEF RemoveSessionConn
  <2>4. intact' \in BOOLEAN
      BY <2>1, Zenon
  <2> DEFINE c == [conn EXCEPT ![a] = r]
  <2>2. r \in SessionConn /\ c \in [Addresses -> SessionConn]
      BY DEF Freed, TypeOK
  <2>3. conn' \in [Addresses -> SessionConn]
            /\ m_mapAllPlayer_Online' \in [Players -> Addresses \cup {NULL}]
    <3>1. CASE r.player_id = NoPlayer
        BY <2>1, <2>2, <3>1 DEF OnSessionClose, TypeOK
    <3>2. CASE r.player_id # NoPlayer
      <4>1. r.player_id \in Players
          BY <2>2, <3>2 DEF SessionConn
      <4>2. /\ conn' = LoggedOff(c, r.player_id)
            /\ m_mapAllPlayer_Online' =
                    [m_mapAllPlayer_Online EXCEPT ![r.player_id] = NULL]
          BY <2>1, <3>2 DEF OnSessionClose
      <4>3. conn' \in [Addresses -> SessionConn]
        <5> HIDE DEF c
        <5> QED
          BY <2>2, <4>1, <4>2, LoggedOffEffect
      <4> QED
          BY <4>2, <4>3 DEF TypeOK
    <3> QED
        BY <3>1, <3>2
  <2> QED
      BY <1>2, <2>3, <2>4 DEF RemoveSessionConn, TypeOK
<1>3. ASSUME NEW p \in Players, OnPlayerLogoff(p) PROVE TypeOK'
  <2>1. LoggedOff(conn, p) \in [Addresses -> SessionConn]
      BY LoggedOffEffect DEF TypeOK
  <2> QED
      BY <1>3, <2>1 DEF OnPlayerLogoff, TypeOK
<1>4. ASSUME NEW p \in Players, NEW s \in Sessions, OnPlayerLogin(p, s)
      PROVE  TypeOK'
  <2> DEFINE a == m_MapSessionConnInfo[s]
  <2>1. a \in Addresses /\ conn \in [Addresses -> SessionConn]
      BY <1>4 DEF OnPlayerLogin, TypeOK
  <2>2. LoggedOff(conn, p) \in [Addresses -> SessionConn]
      BY <2>1, LoggedOffEffect
  <2>3. [LoggedOff(conn, p) EXCEPT ![a].player_id = p] \in [Addresses -> SessionConn]
      BY <2>1, <2>2 DEF SessionConn
  <2>4. intact' \in BOOLEAN
      BY <1>4, Zenon DEF OnPlayerLogin
  <2> QED
      BY <1>4, <2>1, <2>3, <2>4 DEF OnPlayerLogin, Relogin, TypeOK
<1>5. ASSUME NEW s \in Sessions, NEW proto \in Protos, SendProtoToSession(s, proto)
      PROVE  TypeOK'
    BY <1>5 DEF SendProtoToSession, SendResult, Protos, TypeOK
<1>6. ASSUME NEW p \in Players, NEW proto \in Protos, SendProtoToPlayer(p, proto)
      PROVE  TypeOK'
    BY <1>6 DEF SendProtoToPlayer, SendResult, NoOutcome, Protos, SessionConn, TypeOK
<1>7. CASE UNCHANGED vars
    BY <1>7 DEF vars, TypeOK
<1> QED
    BY <1>1, <1>a, <1>2, <1>3, <1>4, <1>5, <1>6, <1>7 DEF Next

(* Every entry of the online map and of the session map is NULL or the     *)
(* address of an object, and every object has a session and a player or    *)
(* the absence of one (PlayerManager.h:65-69).                             *)
THEOREM TypeCorrect == Spec => []TypeOK
<1>1. Init => TypeOK
    BY DEF Init, TypeOK, Unused, SessionConn, NoOutcome
<1> QED
    BY <1>1, TypeStep, PTL DEF Spec

-----------------------------------------------------------------------------
(* removeSessionConn() takes one object away, and the entry of whatever    *)
(* player x it reads where the object was.                                 *)
LEMMA RemoveEffect ==
    ASSUME Named, NEW s \in Sessions, RemoveSessionConn(s),
           NEW a, a = m_MapSessionConnInfo[s]
    PROVE  /\ a \in Addresses /\ conn[a].allocated /\ conn[a].session_id = s
           /\ ~ conn'[a].allocated
           /\ \E x \in Players \cup {NoPlayer} :
                /\ \A b \in Addresses \ {a} :
                    /\ conn'[b].allocated = conn[b].allocated
                    /\ conn'[b].session_id = conn[b].session_id
                    /\ conn'[b].player_id =
                            IF x # NoPlayer /\ b = m_mapAllPlayer_Online[x] THEN NoPlayer
                            ELSE conn[b].player_id
                /\ \A q \in Players : m_mapAllPlayer_Online'[q] =
                        IF q = x THEN NULL ELSE m_mapAllPlayer_Online[q]
                /\ intact' => intact /\ x = conn[a].player_id
<1>1. PICK r \in Freed : /\ OnSessionClose([conn EXCEPT ![a] = r], r.player_id)
                         /\ intact' = (intact /\ r.player_id = conn[a].player_id)
    BY DEF RemoveSessionConn
<1>2. /\ a \in Addresses /\ conn[a] \in SessionConn
      /\ conn[a].allocated /\ conn[a].session_id = s
    BY DEF RemoveSessionConn, Named, TypeOK, NamedIsOnline, SessionsAreAllocated
<1>3. r \in SessionConn /\ ~ r.allocated
    BY DEF Freed
<1> DEFINE x == r.player_id
           c == [conn EXCEPT ![a] = r]
<1>4. x \in Players \cup {NoPlayer}
    BY <1>3 DEF SessionConn
<1>5. /\ c \in [Addresses -> SessionConn]
      /\ c[a] = r /\ \A b \in Addresses \ {a} : c[b] = conn[b]
    BY <1>2, <1>3 DEF Named, TypeOK
<1>6. intact' => intact /\ x = conn[a].player_id
    BY <1>1, Zenon
<1>7. CASE x = NoPlayer
  <2>1. conn' = c /\ UNCHANGED m_mapAllPlayer_Online
      BY <1>1, <1>7 DEF OnSessionClose
  <2>2. \A q \in Players : q # x
      BY <1>7, PlaceholderAssumption
  <2> HIDE DEF c
  <2> QED
      BY <1>2, <1>3, <1>4, <1>5, <1>6, <1>7, <2>1, <2>2
<1>8. CASE x # NoPlayer
  <2>1. x \in Players
      BY <1>4, <1>8
  <2>2. /\ conn' = LoggedOff(c, x)
        /\ m_mapAllPlayer_Online' = [m_mapAllPlayer_Online EXCEPT ![x] = NULL]
      BY <1>1, <1>8 DEF OnSessionClose
  <2>3. \A b \in Addresses :
            /\ conn'[b].allocated = c[b].allocated
            /\ conn'[b].session_id = c[b].session_id
            /\ conn'[b].player_id = IF b = m_mapAllPlayer_Online[x] THEN NoPlayer
                                    ELSE c[b].player_id
    <3> HIDE DEF c, x
    <3> QED
      BY <1>5, <2>1, <2>2, LoggedOffEffect DEF Named
  <2>4. \A q \in Players : m_mapAllPlayer_Online'[q] =
            IF q = x THEN NULL ELSE m_mapAllPlayer_Online[q]
      BY <2>1, <2>2 DEF Named, TypeOK
  <2> HIDE DEF c
  <2> QED
      BY <1>2, <1>3, <1>4, <1>5, <1>6, <1>8, <2>3, <2>4
<1> QED
    BY <1>7, <1>8

(* onPlayerLogoff() empties one entry and the object it led to. *)
LEMMA LogoffEffect ==
    ASSUME Named, NEW p \in Players, OnPlayerLogoff(p)
    PROVE  /\ \A b \in Addresses :
                /\ conn'[b].allocated = conn[b].allocated
                /\ conn'[b].session_id = conn[b].session_id
                /\ conn'[b].player_id = IF b = m_mapAllPlayer_Online[p] THEN NoPlayer
                                        ELSE conn[b].player_id
           /\ m_mapAllPlayer_Online' = [m_mapAllPlayer_Online EXCEPT ![p] = NULL]
           /\ UNCHANGED m_MapSessionConnInfo
<1>1. conn \in [Addresses -> SessionConn] /\ conn' = LoggedOff(conn, p)
    BY DEF OnPlayerLogoff, Named, TypeOK
<1>2. TypeOK
    BY DEF Named
<1>3. \A b \in Addresses :
            /\ conn'[b].allocated = conn[b].allocated
            /\ conn'[b].session_id = conn[b].session_id
            /\ conn'[b].player_id = IF b = m_mapAllPlayer_Online[p] THEN NoPlayer
                                    ELSE conn[b].player_id
    BY <1>1, <1>2, LoggedOffEffect
<1> QED
    BY <1>3 DEF OnPlayerLogoff

(* onPlayerLogin() does that too, then gives the player to the object a.   *)
LEMMA LoginEffect ==
    ASSUME Named, NEW p \in Players, NEW s \in Sessions,
           OnPlayerLogin(p, s), NEW a, a = m_MapSessionConnInfo[s]
    PROVE  /\ a \in Addresses /\ conn[a].allocated /\ conn[a].session_id = s
           /\ \A b \in Addresses :
                /\ conn'[b].allocated = conn[b].allocated
                /\ conn'[b].session_id = conn[b].session_id
                /\ conn'[b].player_id =
                        IF b = a THEN p
                        ELSE IF b = m_mapAllPlayer_Online[p] THEN NoPlayer
                        ELSE conn[b].player_id
           /\ m_mapAllPlayer_Online' = [m_mapAllPlayer_Online EXCEPT ![p] = a]
           /\ UNCHANGED m_MapSessionConnInfo
           /\ intact' => intact /\ conn[a].player_id = NoPlayer
<1> DEFINE c == LoggedOff(conn, p)
<1>1. a \in Addresses /\ conn[a].allocated /\ conn[a].session_id = s
    BY DEF OnPlayerLogin, Named, TypeOK, NamedIsOnline, SessionsAreAllocated
<1>2. intact' => intact /\ conn[a].player_id = NoPlayer
    BY Zenon DEF OnPlayerLogin
<1>3. /\ conn' = [c EXCEPT ![a].player_id = p]
      /\ m_mapAllPlayer_Online' = [m_mapAllPlayer_Online EXCEPT ![p] = a]
      /\ UNCHANGED m_MapSessionConnInfo
    BY DEF OnPlayerLogin, Relogin
<1>4. conn \in [Addresses -> SessionConn] /\ TypeOK
    BY DEF Named, TypeOK
<1>5. /\ c \in [Addresses -> SessionConn]
      /\ \A b \in Addresses :
            /\ c[b].allocated = conn[b].allocated
            /\ c[b].session_id = conn[b].session_id
            /\ c[b].player_id = IF b = m_mapAllPlayer_Online[p] THEN NoPlayer
                                ELSE conn[b].player_id
    BY <1>4, LoggedOffEffect
<1> HIDE DEF c
<1>6. \A b \in Addresses :
            /\ conn'[b].allocated = c[b].allocated
            /\ conn'[b].session_id = c[b].session_id
            /\ conn'[b].player_id = IF b = a THEN p ELSE c[b].player_id
    BY <1>1, <1>3, <1>5 DEF SessionConn
<1>7. \A b \in Addresses :
            /\ conn'[b].allocated = conn[b].allocated
            /\ conn'[b].session_id = conn[b].session_id
            /\ conn'[b].player_id = IF b = a THEN p
                                    ELSE IF b = m_mapAllPlayer_Online[p] THEN NoPlayer
                                    ELSE conn[b].player_id
    BY <1>5, <1>6
<1> QED
    BY <1>1, <1>2, <1>3, <1>7

(* What the calls that touch neither maps nor allocated objects leave.     *)
LEMMA Untouched ==
    ASSUME Named, \/ \E a \in Addresses : FreedChanges(a)
                  \/ \E s \in Sessions, proto \in Protos : SendProtoToSession(s, proto)
                  \/ \E p \in Players, proto \in Protos : SendProtoToPlayer(p, proto)
                  \/ UNCHANGED vars
    PROVE  /\ UNCHANGED <<m_MapSessionConnInfo, m_mapAllPlayer_Online, intact>>
           /\ \A b \in Addresses : conn[b].allocated \/ conn'[b].allocated
                                        => conn'[b] = conn[b]
<1>1. ASSUME NEW a \in Addresses, FreedChanges(a)
      PROVE  /\ UNCHANGED <<m_MapSessionConnInfo, m_mapAllPlayer_Online, intact>>
             /\ \A b \in Addresses : conn[b].allocated \/ conn'[b].allocated
                                        => conn'[b] = conn[b]
  <2>1. PICK r \in Freed : conn' = [conn EXCEPT ![a] = r]
      BY <1>1 DEF FreedChanges
  <2>2. ~ conn[a].allocated /\ ~ conn'[a].allocated
      BY <1>1, <2>1 DEF FreedChanges, Freed, Named, TypeOK
  <2> QED
      BY <1>1, <2>1, <2>2 DEF FreedChanges, Named, TypeOK
<1>2. CASE \/ \E s \in Sessions, proto \in Protos : SendProtoToSession(s, proto)
           \/ \E p \in Players, proto \in Protos : SendProtoToPlayer(p, proto)
           \/ UNCHANGED vars
    BY <1>2 DEF SendProtoToSession, SendProtoToPlayer, vars
<1> QED
    BY <1>1, <1>2

-----------------------------------------------------------------------------
(* No call breaks the correspondence of sessions, objects and names. *)
LEMMA NamedStep ==
    ASSUME Named, [Next]_vars
    PROVE  Named'
<1>0. TypeOK' /\ NULL \notin Addresses /\ NoPlayer \notin Players
    BY TypeStep, PlaceholderAssumption DEF Named
<1>1. ASSUME NEW s \in Sessions, NEW b \in Addresses, AddNewConn(s, b)
      PROVE  NamedIsOnline'
  <2>1. /\ ~ conn[b].allocated /\ m_MapSessionConnInfo[s] = NULL
        /\ conn'[b] = [allocated |-> TRUE, session_id |-> s, player_id |-> NoPlayer]
        /\ \A d \in Addresses \ {b} : conn'[d] = conn[d]
        /\ m_MapSessionConnInfo' = [m_MapSessionConnInfo EXCEPT ![s] = b]
        /\ UNCHANGED m_mapAllPlayer_Online
      BY <1>1 DEF AddNewConn, Named, TypeOK
  <2>2. SessionsAreAllocated'
      BY <1>0, <2>1 DEF Named, TypeOK, NamedIsOnline, SessionsAreAllocated
  <2>3. AllocatedIsOnline'
      BY <1>0, <2>1 DEF Named, TypeOK, NamedIsOnline, AllocatedIsOnline
  <2> QED
      BY <2>2, <2>3 DEF NamedIsOnline
<1>2. ASSUME NEW s \in Sessions, RemoveSessionConn(s) PROVE NamedIsOnline'
  <2> DEFINE a == m_MapSessionConnInfo[s]
  <2>1. PICK x \in Players \cup {NoPlayer} :
            /\ \A b \in Addresses \ {a} :
                /\ conn'[b].allocated = conn[b].allocated
                /\ conn'[b].session_id = conn[b].session_id
                /\ conn'[b].player_id =
                        IF x # NoPlayer /\ b = m_mapAllPlayer_Online[x] THEN NoPlayer
                        ELSE conn[b].player_id
            /\ \A q \in Players : m_mapAllPlayer_Online'[q] =
                    IF q = x THEN NULL ELSE m_mapAllPlayer_Online[q]
      BY <1>2, RemoveEffect
  <2>2. /\ a \in Addresses /\ conn[a].session_id = s /\ ~ conn'[a].allocated
        /\ m_MapSessionConnInfo' = [m_MapSessionConnInfo EXCEPT ![s] = NULL]
      BY <1>2, RemoveEffect DEF RemoveSessionConn
  <2> HIDE DEF a
  <2>3. SessionsAreAllocated'
      BY <1>0, <2>1, <2>2 DEF a, Named, TypeOK, NamedIsOnline, SessionsAreAllocated
  <2>4. AllocatedIsOnline'
    <3> SUFFICES ASSUME NEW b \in Addresses, conn'[b].allocated,
                        conn'[b].player_id # NoPlayer
                 PROVE  m_mapAllPlayer_Online'[conn'[b].player_id] = b
        BY DEF AllocatedIsOnline
    <3> DEFINE y == conn[b].player_id
    <3>1. /\ b # a /\ conn[b].allocated
          /\ conn'[b].player_id = y /\ y # NoPlayer
          /\ ~ (x # NoPlayer /\ b = m_mapAllPlayer_Online[x])
        BY <2>1, <2>2
    <3>2. y \in Players
        BY <3>1 DEF Named, TypeOK, SessionConn
    <3>3. m_mapAllPlayer_Online[y] = b
        BY <3>1 DEF Named, NamedIsOnline, AllocatedIsOnline
    <3>4. y # x
        BY <3>1, <3>3
    <3> QED
        BY <2>1, <3>1, <3>2, <3>3, <3>4
  <2> QED
      BY <2>3, <2>4 DEF NamedIsOnline
<1>3. ASSUME NEW p \in Players, OnPlayerLogoff(p) PROVE NamedIsOnline'
  <2>1. /\ \A b \in Addresses :
                /\ conn'[b].allocated = conn[b].allocated
                /\ conn'[b].session_id = conn[b].session_id
                /\ conn'[b].player_id = IF b = m_mapAllPlayer_Online[p] THEN NoPlayer
                                        ELSE conn[b].player_id
        /\ m_mapAllPlayer_Online' = [m_mapAllPlayer_Online EXCEPT ![p] = NULL]
        /\ UNCHANGED m_MapSessionConnInfo
      BY <1>3, LogoffEffect
  <2>2. SessionsAreAllocated'
      BY <1>0, <2>1 DEF Named, TypeOK, NamedIsOnline, SessionsAreAllocated
  <2>3. AllocatedIsOnline'
    <3> SUFFICES ASSUME NEW b \in Addresses, conn'[b].allocated,
                        conn'[b].player_id # NoPlayer
                 PROVE  m_mapAllPlayer_Online'[conn'[b].player_id] = b
        BY DEF AllocatedIsOnline
    <3>1. /\ b # m_mapAllPlayer_Online[p] /\ conn'[b].player_id = conn[b].player_id
          /\ conn[b].player_id \in Players
        BY <2>1 DEF Named, TypeOK, SessionConn
    <3>2. m_mapAllPlayer_Online[conn[b].player_id] = b
        BY <2>1, <3>1 DEF Named, NamedIsOnline, AllocatedIsOnline
    <3> QED
        BY <2>1, <3>1, <3>2 DEF Named, TypeOK
  <2> QED
      BY <2>2, <2>3 DEF NamedIsOnline
<1>4. ASSUME NEW p \in Players, NEW s \in Sessions, OnPlayerLogin(p, s)
      PROVE  NamedIsOnline'
  <2> DEFINE a == m_MapSessionConnInfo[s]
  <2>1. /\ a \in Addresses
        /\ \A b \in Addresses :
                /\ conn'[b].allocated = conn[b].allocated
                /\ conn'[b].session_id = conn[b].session_id
                /\ conn'[b].player_id =
                        IF b = a THEN p
                        ELSE IF b = m_mapAllPlayer_Online[p] THEN NoPlayer
                        ELSE conn[b].player_id
        /\ m_mapAllPlayer_Online' = [m_mapAllPlayer_Online EXCEPT ![p] = a]
        /\ UNCHANGED m_MapSessionConnInfo
      BY <1>4, LoginEffect
  <2> HIDE DEF a
  <2>2. SessionsAreAllocated'
      BY <1>0, <2>1 DEF Named, TypeOK, NamedIsOnline, SessionsAreAllocated
  <2>3. AllocatedIsOnline'
    <3> SUFFICES ASSUME NEW b \in Addresses, conn'[b].allocated,
                        conn'[b].player_id # NoPlayer
                 PROVE  m_mapAllPlayer_Online'[conn'[b].player_id] = b
        BY DEF AllocatedIsOnline
    <3>1. CASE b = a
        BY <2>1, <3>1 DEF Named, TypeOK
    <3>2. CASE b # a
      <4>1. /\ b # m_mapAllPlayer_Online[p] /\ conn'[b].player_id = conn[b].player_id
            /\ conn[b].player_id \in Players
          BY <2>1, <3>2 DEF Named, TypeOK, SessionConn
      <4>2. m_mapAllPlayer_Online[conn[b].player_id] = b
          BY <2>1, <4>1 DEF Named, NamedIsOnline, AllocatedIsOnline
      <4> QED
          BY <2>1, <4>1, <4>2 DEF Named, TypeOK
    <3> QED
        BY <3>1, <3>2
  <2> QED
      BY <2>2, <2>3 DEF NamedIsOnline
<1>5. ASSUME /\ UNCHANGED <<m_MapSessionConnInfo, m_mapAllPlayer_Online, intact>>
             /\ \A b \in Addresses : conn[b].allocated \/ conn'[b].allocated
                                        => conn'[b] = conn[b]
      PROVE  NamedIsOnline'
  <2>1. SessionsAreAllocated'
      BY <1>5 DEF Named, TypeOK, NamedIsOnline, SessionsAreAllocated
  <2>2. AllocatedIsOnline'
      BY <1>5 DEF Named, NamedIsOnline, AllocatedIsOnline
  <2> QED
      BY <2>1, <2>2 DEF NamedIsOnline
<1>6. NamedIsOnline'
    BY <1>1, <1>2, <1>3, <1>4, <1>5, Untouched DEF Next
<1> QED
    BY <1>0, <1>6 DEF Named

(* A call that misuses nothing leaves no entry without its object. *)
LEMMA OnlineStep ==
    ASSUME IInv, [Next]_vars
    PROVE  OnlineUntilMisuse'
<1> SUFFICES ASSUME intact' PROVE OnlineIsAllocated'
    BY NamedStep DEF IInv, Named, OnlineUntilMisuse, OnlineIsSession
<1>0. NULL \notin Addresses /\ NoPlayer \notin Players /\ TypeOK /\ Named
    BY PlaceholderAssumption DEF IInv, Named
<1>a. ASSUME intact
      PROVE  \A q \in Players : m_mapAllPlayer_Online[q] # NULL =>
                /\ m_mapAllPlayer_Online[q] \in Addresses
                /\ conn[m_mapAllPlayer_Online[q]].allocated
                /\ conn[m_mapAllPlayer_Online[q]].player_id = q
    BY <1>0, <1>a DEF IInv, TypeOK, OnlineUntilMisuse, OnlineIsSession, OnlineIsAllocated
<1>1. ASSUME NEW s \in Sessions, NEW b \in Addresses, AddNewConn(s, b)
      PROVE  OnlineIsAllocated'
  <2>1. /\ ~ conn[b].allocated /\ UNCHANGED <<m_mapAllPlayer_Online, intact>>
        /\ \A d \in Addresses \ {b} : conn'[d] = conn[d]
      BY <1>0, <1>1 DEF AddNewConn, TypeOK
  <2> QED
      BY <1>a, <2>1 DEF OnlineIsAllocated
<1>2. ASSUME NEW s \in Sessions, RemoveSessionConn(s) PROVE OnlineIsAllocated'
  <2> DEFINE a == m_MapSessionConnInfo[s]
  <2>1. PICK x \in Players \cup {NoPlayer} :
            /\ \A b \in Addresses \ {a} :
                /\ conn'[b].allocated = conn[b].allocated
                /\ conn'[b].player_id =
                        IF x # NoPlayer /\ b = m_mapAllPlayer_Online[x] THEN NoPlayer
                        ELSE conn[b].player_id
            /\ \A q \in Players : m_mapAllPlayer_Online'[q] =
                    IF q = x THEN NULL ELSE m_mapAllPlayer_Online[q]
            /\ intact' => intact /\ x = conn[a].player_id
      BY <1>0, <1>2, RemoveEffect
  <2> SUFFICES ASSUME NEW q \in Players, m_mapAllPlayer_Online'[q] # NULL
               PROVE  /\ conn'[m_mapAllPlayer_Online'[q]].allocated
                      /\ conn'[m_mapAllPlayer_Online'[q]].player_id = q
      BY DEF OnlineIsAllocated
  <2> DEFINE b == m_mapAllPlayer_Online[q]
  <2>2. q # x /\ m_mapAllPlayer_Online'[q] = b /\ b # NULL
      BY <2>1
  <2>3. intact /\ x = conn[a].player_id
      BY <2>1
  <2>4. b \in Addresses /\ conn[b].allocated /\ conn[b].player_id = q
      BY <1>a, <2>2, <2>3
  <2>5. b # a
      BY <2>2, <2>3, <2>4
  <2>6. ~ (x # NoPlayer /\ b = m_mapAllPlayer_Online[x])
    <3> SUFFICES ASSUME x # NoPlayer, b = m_mapAllPlayer_Online[x] PROVE FALSE
        OBVIOUS
    <3>1. x \in Players
        OBVIOUS
    <3>2. conn[b].player_id = x
        BY <1>a, <2>2, <2>3, <3>1
    <3> QED
        BY <2>2, <2>4, <3>2
  <2> QED
      BY <2>1, <2>2, <2>4, <2>5, <2>6
<1>3. ASSUME NEW p \in Players, OnPlayerLogoff(p) PROVE OnlineIsAllocated'
  <2>1. /\ \A b \in Addresses :
                /\ conn'[b].allocated = conn[b].allocated
                /\ conn'[b].player_id = IF b = m_mapAllPlayer_Online[p] THEN NoPlayer
                                        ELSE conn[b].player_id
        /\ m_mapAllPlayer_Online' = [m_mapAllPlayer_Online EXCEPT ![p] = NULL]
      BY <1>0, <1>3, LogoffEffect
  <2>2. intact
      BY <1>3 DEF OnPlayerLogoff
  <2> SUFFICES ASSUME NEW q \in Players, m_mapAllPlayer_Online'[q] # NULL
               PROVE  /\ conn'[m_mapAllPlayer_Online'[q]].allocated
                      /\ conn'[m_mapAllPlayer_Online'[q]].player_id = q
      BY DEF OnlineIsAllocated
  <2> DEFINE b == m_mapAllPlayer_Online[q]
  <2>3. q # p /\ m_mapAllPlayer_Online'[q] = b /\ b # NULL
      BY <1>0, <2>1 DEF TypeOK
  <2>4. b \in Addresses /\ conn[b].allocated /\ conn[b].player_id = q
      BY <1>a, <2>2, <2>3
  <2>5. b # m_mapAllPlayer_Online[p]
      BY <1>a, <2>2, <2>3, <2>4
  <2> QED
      BY <2>1, <2>3, <2>4, <2>5
<1>4. ASSUME NEW p \in Players, NEW s \in Sessions, OnPlayerLogin(p, s)
      PROVE  OnlineIsAllocated'
  <2> DEFINE a == m_MapSessionConnInfo[s]
  <2>1. /\ a \in Addresses /\ conn[a].allocated
        /\ \A b \in Addresses :
                /\ conn'[b].allocated = conn[b].allocated
                /\ conn'[b].player_id =
                        IF b = a THEN p
                        ELSE IF b = m_mapAllPlayer_Online[p] THEN NoPlayer
                        ELSE conn[b].player_id
        /\ m_mapAllPlayer_Online' = [m_mapAllPlayer_Online EXCEPT ![p] = a]
        /\ intact /\ conn[a].player_id = NoPlayer
      BY <1>0, <1>4, LoginEffect
  <2> HIDE DEF a
  <2> SUFFICES ASSUME NEW q \in Players, m_mapAllPlayer_Online'[q] # NULL
               PROVE  /\ conn'[m_mapAllPlayer_Online'[q]].allocated
                      /\ conn'[m_mapAllPlayer_Online'[q]].player_id = q
      BY DEF OnlineIsAllocated
  <2>2. CASE q = p
      BY <1>0, <2>1, <2>2 DEF TypeOK
  <2>3. CASE q # p
    <3> DEFINE b == m_mapAllPlayer_Online[q]
    <3>1. m_mapAllPlayer_Online'[q] = b /\ b # NULL
        BY <1>0, <2>1, <2>3 DEF TypeOK
    <3>2. b \in Addresses /\ conn[b].allocated /\ conn[b].player_id = q
        BY <1>a, <2>1, <3>1
    <3>3. b # a
        BY <1>0, <2>1, <3>2
    <3>4. b # m_mapAllPlayer_Online[p]
        BY <1>a, <2>1, <2>3, <3>1, <3>2
    <3> QED
        BY <2>1, <3>1, <3>2, <3>3, <3>4
  <2> QED
      BY <2>2, <2>3
<1>5. ASSUME /\ UNCHANGED <<m_MapSessionConnInfo, m_mapAllPlayer_Online, intact>>
             /\ \A b \in Addresses : conn[b].allocated \/ conn'[b].allocated
                                        => conn'[b] = conn[b]
      PROVE  OnlineIsAllocated'
    BY <1>a, <1>5 DEF OnlineIsAllocated
<1> QED
    BY <1>0, <1>1, <1>2, <1>3, <1>4, <1>5, Untouched DEF Next

LEMMA InvStep == IInv /\ [Next]_vars => IInv'
BY NamedStep, OnlineStep DEF IInv

LEMMA InitCorresponds == Init => IInv
<1> SUFFICES ASSUME Init PROVE IInv
    OBVIOUS
<1>1. TypeOK
    BY DEF Init, TypeOK, Unused, SessionConn, NoOutcome
<1>2. SessionsAreAllocated /\ AllocatedIsOnline /\ OnlineIsAllocated
    BY PlaceholderAssumption
    DEF Init, Unused, SessionsAreAllocated, AllocatedIsOnline, OnlineIsAllocated
<1> QED
    BY <1>1, <1>2 DEF IInv, Named, NamedIsOnline, OnlineUntilMisuse, OnlineIsSession

(* Whatever deleted objects are read as and whoever logs in where, each    *)
(* session in being has its object, and the player named in it is found    *)
(* there through the map of players online (ClientConnManager.cpp:50-60,   *)
(* PlayerManager.cpp:13-75).                                               *)
THEOREM NamesCorrect == Spec => []NamedIsOnline
<1>1. IInv => NamedIsOnline
    BY DEF IInv, Named
<1> QED
    BY InitCorresponds, InvStep, <1>1, PTL DEF Spec

(* The entries of players online lead to their sessions for as long as no  *)
(* deleted object was misread and no session taken over by another player  *)
(* (ClientConnManager.cpp:56-57, PlayerManager.cpp:54-55).                 *)
THEOREM OnlineCorrect == Spec => []OnlineUntilMisuse
<1>1. IInv => OnlineUntilMisuse
    BY DEF IInv
<1> QED
    BY InitCorresponds, InvStep, <1>1, PTL DEF Spec

-----------------------------------------------------------------------------
(* The session of a player online is in being, and no other player is on   *)
(* it: each entry leads to the object of its own session.                  *)
Corresponding == Named /\ OnlineIsAllocated

LEMMA OnIsLive ==
    ASSUME Corresponding, NEW p \in Players, On[p] # NoSession
    PROVE  /\ m_mapAllPlayer_Online[p] \in Addresses
           /\ conn[m_mapAllPlayer_Online[p]].allocated
           /\ conn[m_mapAllPlayer_Online[p]].player_id = p
           /\ On[p] = conn[m_mapAllPlayer_Online[p]].session_id
           /\ On[p] \in Live
           /\ m_MapSessionConnInfo[On[p]] = m_mapAllPlayer_Online[p]
<1> DEFINE a == m_mapAllPlayer_Online[p]
<1>1. a \in Addresses /\ a # NULL /\ On[p] = conn[a].session_id
    BY DEF On, SessionOf, Corresponding, Named, TypeOK
<1>2. conn[a].allocated /\ conn[a].player_id = p
    BY <1>1 DEF Corresponding, OnlineIsAllocated
<1>3. On[p] \in Sessions /\ m_MapSessionConnInfo[On[p]] = a
    BY <1>1, <1>2 DEF Corresponding, Named, NamedIsOnline, SessionsAreAllocated
<1> QED
    BY <1>1, <1>2, <1>3 DEF Live

(* A player without an entry, and only such a player, is offline. *)
LEMMA OfflineHasNoEntry ==
    ASSUME Corresponding, NEW p \in Players
    PROVE  On[p] = NoSession <=> m_mapAllPlayer_Online[p] = NULL
<1>1. CASE m_mapAllPlayer_Online[p] = NULL
    BY <1>1 DEF On, SessionOf
<1>2. CASE m_mapAllPlayer_Online[p] # NULL
  <2> DEFINE a == m_mapAllPlayer_Online[p]
  <2>1. a \in Addresses /\ conn[a].allocated /\ On[p] = conn[a].session_id
      BY <1>2 DEF On, SessionOf, Corresponding, Named, TypeOK, OnlineIsAllocated
  <2>2. On[p] \in Sessions
      BY <2>1 DEF Corresponding, Named, NamedIsOnline, SessionsAreAllocated
  <2> QED
      BY <1>2, <2>2, PlaceholderAssumption
<1> QED
    BY <1>1, <1>2

(* Each call is one step of PlayerPresence, or none. *)
LEMMA PresenceStep ==
    ASSUME IInv, [Next]_vars, intact'
    PROVE  Presence!Next \/ UNCHANGED Presence!vars
<1>0. NULL \notin Addresses /\ NoPlayer \notin Players /\ NoSession \notin Sessions
    BY PlaceholderAssumption
<1>a. intact => Corresponding
    BY DEF IInv, OnlineUntilMisuse, OnlineIsSession, Corresponding
<1>b. Named /\ TypeOK
    BY DEF IInv, Named
<1>1. ASSUME NEW s \in Sessions, NEW b \in Addresses, AddNewConn(s, b)
      PROVE  Presence!Begin(s)
  <2>0. Corresponding
      BY <1>1, <1>a DEF AddNewConn
  <2>1. s \notin Live /\ Live' = Live \cup {s}
      BY <1>0, <1>1, <1>b DEF AddNewConn, Live, TypeOK
  <2>2. ASSUME NEW p \in Players PROVE SessionOf(p)' = SessionOf(p)
    <3>1. CASE m_mapAllPlayer_Online[p] = NULL
        BY <1>1, <3>1 DEF AddNewConn, SessionOf
    <3>2. CASE m_mapAllPlayer_Online[p] # NULL
      <4>1. m_mapAllPlayer_Online[p] \in Addresses \ {b}
          BY <1>1, <1>b, <2>0, <3>2 DEF AddNewConn, TypeOK, Corresponding, OnlineIsAllocated
      <4> QED
          BY <1>1, <1>b, <3>2, <4>1 DEF AddNewConn, SessionOf, TypeOK
    <3> QED
        BY <3>1, <3>2
  <2>3. On' = On /\ Reached' = Reached
      BY <1>1, <2>2 DEF On, Reached, AddNewConn
  <2> QED
      BY <2>1, <2>3 DEF Presence!Begin
<1>2. ASSUME NEW s \in Sessions, RemoveSessionConn(s) PROVE Presence!End(s)
  <2> DEFINE a == m_MapSessionConnInfo[s]
  <2>a. PICK x \in Players \cup {NoPlayer} :
            /\ \A b \in Addresses \ {a} : conn'[b].session_id = conn[b].session_id
            /\ \A q \in Players : m_mapAllPlayer_Online'[q] =
                    IF q = x THEN NULL ELSE m_mapAllPlayer_Online[q]
            /\ intact' => intact /\ x = conn[a].player_id
      BY <1>2, <1>b, RemoveEffect
  <2>b. /\ a \in Addresses /\ a # NULL
        /\ conn[a].allocated /\ conn[a].session_id = s
      BY <1>0, <1>2, <1>b, RemoveEffect
  <2>0. Corresponding
      BY <1>a, <2>a
  <2>1. ASSUME NEW q \in Players
        PROVE  m_mapAllPlayer_Online'[q] =
                  IF m_mapAllPlayer_Online[q] = a THEN NULL ELSE m_mapAllPlayer_Online[q]
    <3>1. CASE q = x
      <4>1. m_mapAllPlayer_Online[q] = a
          BY <1>0, <2>a, <2>b, <3>1 DEF Corresponding, Named, NamedIsOnline, AllocatedIsOnline, IInv
      <4> QED
          BY <2>a, <3>1, <4>1
    <3>2. CASE q # x
      <4>1. m_mapAllPlayer_Online[q] # a
          BY <2>0, <2>a, <2>b, <3>2 DEF Corresponding, OnlineIsAllocated
      <4> QED
          BY <2>a, <3>2, <4>1
    <3> QED
        BY <3>1, <3>2
  <2>2. s \in Live /\ Live' = Live \ {s}
      BY <1>0, <1>2, <1>b DEF RemoveSessionConn, Live, TypeOK
  <2>3. ASSUME NEW p \in Players
        PROVE  SessionOf(p)' = IF On[p] = s THEN NoSession ELSE On[p]
    <3>1. CASE m_mapAllPlayer_Online[p] = NULL
      <4>1. m_mapAllPlayer_Online'[p] = NULL /\ On[p] = NoSession
          BY <2>1, <3>1 DEF On, SessionOf
      <4> QED
          BY <4>1 DEF SessionOf
    <3>2. CASE m_mapAllPlayer_Online[p] # NULL
      <4>1. On[p] # NoSession
          BY <2>0, <3>2, OfflineHasNoEntry
      <4>2. /\ m_mapAllPlayer_Online[p] \in Addresses
            /\ On[p] = conn[m_mapAllPlayer_Online[p]].session_id
            /\ m_MapSessionConnInfo[On[p]] = m_mapAllPlayer_Online[p]
          BY <2>0, <4>1, OnIsLive
      <4>3. CASE On[p] = s
        <5>1. m_mapAllPlayer_Online'[p] = NULL
            BY <2>1, <4>2, <4>3
        <5> QED
            BY <4>3, <5>1 DEF SessionOf
      <4>4. CASE On[p] # s
        <5>2. m_mapAllPlayer_Online[p] # a
            BY <2>b, <4>2, <4>4
        <5>3. /\ m_mapAllPlayer_Online'[p] = m_mapAllPlayer_Online[p]
              /\ conn'[m_mapAllPlayer_Online[p]].session_id =
                    conn[m_mapAllPlayer_Online[p]].session_id
            BY <2>1, <2>a, <4>2, <5>2
        <5> QED
            BY <3>2, <4>2, <4>4, <5>3 DEF SessionOf
      <4> QED
          BY <4>3, <4>4
    <3> QED
        BY <3>1, <3>2
  <2>4. On' = [p \in Players |-> IF On[p] = s THEN NoSession ELSE On[p]]
      BY <2>3 DEF On
  <2>5. Reached' = Reached
      BY <1>2 DEF RemoveSessionConn, Reached
  <2> QED
      BY <2>2, <2>4, <2>5 DEF Presence!End
<1>3. ASSUME NEW p \in Players, OnPlayerLogoff(p) PROVE Presence!Logoff(p)
  <2>1. /\ \A b \in Addresses : conn'[b].session_id = conn[b].session_id
        /\ m_mapAllPlayer_Online' = [m_mapAllPlayer_Online EXCEPT ![p] = NULL]
      BY <1>3, <1>b, LogoffEffect
  <2>2. ASSUME NEW q \in Players
        PROVE  SessionOf(q)' = IF q = p THEN NoSession ELSE SessionOf(q)
      BY <1>0, <1>b, <2>1 DEF SessionOf, TypeOK
  <2>3. On' = [On EXCEPT ![p] = NoSession]
      BY <2>2 DEF On
  <2>4. Live' = Live /\ Reached' = Reached
      BY <1>3 DEF OnPlayerLogoff, Live, Reached
  <2> QED
      BY <2>3, <2>4 DEF Presence!Logoff
<1>4. ASSUME NEW p \in Players, NEW s \in Sessions, OnPlayerLogin(p, s)
      PROVE  Presence!Login(p, s)
  <2> DEFINE a == m_MapSessionConnInfo[s]
  <2>1. /\ a \in Addresses /\ conn[a].allocated /\ conn[a].session_id = s
        /\ \A b \in Addresses : conn'[b].session_id = conn[b].session_id
        /\ m_mapAllPlayer_Online' = [m_mapAllPlayer_Online EXCEPT ![p] = a]
        /\ intact /\ conn[a].player_id = NoPlayer
      BY <1>4, <1>b, LoginEffect
  <2>2. Corresponding
      BY <1>a, <2>1
  <2>3. ASSUME NEW q \in Players PROVE SessionOf(q)' = IF q = p THEN s ELSE SessionOf(q)
      BY <1>0, <1>b, <2>1 DEF SessionOf, TypeOK
  <2>4. On' = [On EXCEPT ![p] = s]
      BY <2>3 DEF On
  <2>5. s \in Live /\ Live' = Live /\ Reached' = Reached
      BY <1>4 DEF OnPlayerLogin, Live, Reached
  <2>6. \A q \in Players : On[q] # s
    <3> SUFFICES ASSUME NEW q \in Players, On[q] = s PROVE FALSE
        OBVIOUS
    <3>1. a = m_mapAllPlayer_Online[q] /\ conn[a].player_id = q
        BY <1>0, <2>2, OnIsLive
    <3> QED
        BY <1>0, <2>1, <3>1
  <2> QED
      BY <2>4, <2>5, <2>6 DEF Presence!Login
<1>5. ASSUME NEW s \in Sessions, NEW proto \in Protos, SendProtoToSession(s, proto)
      PROVE  Presence!Drop
  <2>1. Live' = Live
      BY <1>5 DEF SendProtoToSession, Live
  <2>2. On' = On
      BY <1>5 DEF SendProtoToSession, On, SessionOf
  <2>3. Reached' = {}
      BY <1>5 DEF SendProtoToSession, Reached
  <2> QED
      BY <2>1, <2>2, <2>3 DEF Presence!Drop
<1>6. ASSUME NEW p \in Players, NEW proto \in Protos, SendProtoToPlayer(p, proto)
      PROVE  Presence!Drop \/ Presence!Message(p)
  <2>0. Corresponding
      BY <1>6, <1>a DEF SendProtoToPlayer
  <2>1. Live' = Live /\ On' = On
      BY <1>6 DEF SendProtoToPlayer, Live, On, SessionOf
  <2>2. CASE outcome'.result # "sent"
      BY <2>1, <2>2 DEF Reached, Presence!Drop
  <2>3. CASE outcome'.result = "sent"
    <3>1. m_mapAllPlayer_Online[p] # NULL
        BY <1>6, <2>3 DEF SendProtoToPlayer, NoOutcome
    <3>2. outcome'.player = p /\ outcome'.session = On[p]
        BY <1>6, <3>1 DEF SendProtoToPlayer, On, SessionOf
    <3>3. On[p] \in Live
        BY <2>0, <3>1, OfflineHasNoEntry, OnIsLive
    <3>4. Reached' = {[player |-> p, session |-> On[p]]}
        BY <1>0, <2>3, <3>2 DEF Reached
    <3> QED
        BY <2>1, <3>3, <3>4 DEF Presence!Message
  <2> QED
      BY <2>2, <2>3
<1>7. CASE UNCHANGED vars
    BY <1>7 DEF vars, Presence!vars, Live, On, SessionOf, Reached
<1>8. ASSUME NEW a \in Addresses, FreedChanges(a) PROVE UNCHANGED Presence!vars
  <2>1. /\ Corresponding
        /\ UNCHANGED <<m_MapSessionConnInfo, m_mapAllPlayer_Online, outcome>>
        /\ ~ conn[a].allocated
        /\ \A b \in Addresses \ {a} : conn'[b] = conn[b]
      BY <1>8, <1>a, <1>b DEF FreedChanges, TypeOK
  <2>2. ASSUME NEW p \in Players PROVE SessionOf(p)' = SessionOf(p)
    <3>1. CASE m_mapAllPlayer_Online[p] = NULL
        BY <2>1, <3>1 DEF SessionOf
    <3>2. CASE m_mapAllPlayer_Online[p] # NULL
      <4>1. m_mapAllPlayer_Online[p] \in Addresses \ {a}
          BY <1>b, <2>1, <3>2 DEF TypeOK, Corresponding, OnlineIsAllocated
      <4> QED
          BY <2>1, <3>2, <4>1 DEF SessionOf
    <3> QED
        BY <3>1, <3>2
  <2>3. On' = On /\ Live' = Live /\ Reached' = Reached
      BY <2>1, <2>2 DEF On, Live, Reached
  <2> QED
      BY <2>3 DEF Presence!vars
<1> QED
    BY <1>1, <1>2, <1>3, <1>4, <1>5, <1>6, <1>7, <1>8 DEF Next, Presence!Next

(* The pointers to SessionConn objects of PlayerManager.cpp implement one  *)
(* live session per player and one player per session until a deleted      *)
(* object is misread or a session taken over.                              *)
THEOREM PresenceImplemented == Spec => PresenceUntilMisuse
<1>1. Init => Presence!Init
    BY DEF Init, Presence!Init, Live, On, SessionOf, Reached, NoOutcome
<1>2. IInv /\ [Next]_vars => [intact' => Presence!Next \/ UNCHANGED Presence!vars]_vars
    BY PresenceStep
<1> QED
    BY InitCorresponds, InvStep, <1>1, <1>2, PTL DEF Spec, PresenceUntilMisuse

-----------------------------------------------------------------------------
(* Messages among them, the steps of main are those of the players and     *)
(* sessions, and these keep their correspondence (PlayerManager.cpp:13-75, *)
(* MessageHandler.cpp:15-61).                                              *)
THEOREM MainOnlineCorrect ==
    MainSpec => [](NamedIsOnline /\ OnlineUntilMisuse) /\ PresenceUntilMisuse
<1>1. MainInit => Init
    BY DEF MainInit
<1>2. [MainNext]_<<vars, messageVars>> => [Next]_vars
    BY DEF MainNext
<1> QED
    BY <1>1, <1>2, NamesCorrect, OnlineCorrect, PresenceImplemented, PTL DEF MainSpec, Spec

=============================================================================
