--------------------------- MODULE SessionIdProofs ---------------------------
(***************************************************************************)
(* Proofs about SessionId for every Span: the types, and that a steady     *)
(* clock never gives an id twice.                                          *)
(***************************************************************************)
EXTENDS SessionId, TLAPS

Types ==
    /\ now \in Nat
    /\ m_iAutoIncriSessionID \in 1 .. Span
    /\ looking \in BOOLEAN
    /\ asked \in Nat
    /\ issued \in Seq(Nat \ {0})
    /\ steady \in BOOLEAN

SessionsIssued ==
    m_MapSessionConnInfo \subseteq {issued[n] : n \in DOMAIN issued}

(* How many turns of the loop it takes the counter to go from c to k. *)
Turns(c, k) == IF k >= c THEN k - c ELSE k - c + Span

(* Ids given in this second of the clock. *)
Given == IF looking THEN asked - 1 ELSE asked

AskedInBounds == asked \in 0 .. Span /\ (looking => asked >= 1)

(* No id is of a later second; the ids of this one lie behind the counter, *)
(* and there are too few of them for it to have come round.                *)
IdsBehindCounter ==
    \A n \in DOMAIN issued :
        /\ issued[n] <= now * Span + Span
        /\ issued[n] > now * Span
              => Turns(m_iAutoIncriSessionID, issued[n] - now * Span)
                    >= Span - Given

Base   == Types /\ SessionsIssued
Steady == AskedInBounds /\ IdsBehindCounter /\ IdsDiffer

IInv == Base /\ (steady => Steady)

-----------------------------------------------------------------------------
(* The counter after n is n + 1, and 1 after Span. *)
LEMMA NextCounterValue ==
    ASSUME NEW n \in 1 .. Span
    PROVE  NextCounter(n) = IF n = Span THEN 1 ELSE n + 1
<1>1. Span \in Nat /\ Span >= 1
  BY SpanAssumption
<1>2. CASE n = Span
  <2>1. n % Span = 0
    BY <1>1, <1>2
  <2> QED
    BY <1>2, <2>1 DEF NextCounter
<1>3. CASE n # Span
  <2>1. n \in Nat /\ 0 <= n /\ n < Span
    BY <1>1, <1>3
  <2>2. n % Span = n
    BY <1>1, <2>1
  <2> QED
    BY <1>3, <2>2 DEF NextCounter
<1> QED
  BY <1>2, <1>3

(* The seconds of the clock do not overlap. *)
LEMMA SecondsApart ==
    ASSUME NEW s \in Nat, NEW t \in Nat, s < t
    PROVE  s * Span + Span <= t * Span /\ s * Span \in Nat /\ t * Span \in Nat
<1>1. Span \in Nat
  BY SpanAssumption
<1>2. PICK d \in Nat : t = s + 1 + d
  <2>1. t - s - 1 \in Nat /\ t = s + 1 + (t - s - 1)
    OBVIOUS
  <2> QED
    BY <2>1
<1>3. d * Span \in Nat /\ s * Span \in Nat
  BY <1>1
<1>4. t * Span = s * Span + Span + d * Span
  BY <1>1, <1>2
<1> QED
  BY <1>1, <1>3, <1>4

LEMMA CandidateBounds ==
    ASSUME Types
    PROVE  /\ now * Span \in Nat
           /\ Candidate \in Nat \ {0}
           /\ Candidate > now * Span
           /\ Candidate <= now * Span + Span
           /\ Candidate - now * Span = m_iAutoIncriSessionID
<1>1. Span \in Nat /\ now \in Nat
  BY SpanAssumption DEF Types
<1>2. now * Span \in Nat
  BY <1>1
<1> QED
  BY <1>1, <1>2 DEF Types, Candidate

-----------------------------------------------------------------------------
LEMMA InitInvariant == Init => IInv
<1> SUFFICES ASSUME Init
             PROVE  IInv
  OBVIOUS
<1>1. issued = <<>> /\ DOMAIN issued = {} /\ m_MapSessionConnInfo = {}
  BY DEF Init
<1>2. now \in Nat /\ 1 \in 1 .. Span
  BY SpanAssumption, BoundAssumption DEF Init
<1>3. Types
  <2>1. issued \in Seq(Nat \ {0})
    BY DEF Init
  <2>2. /\ looking \in BOOLEAN /\ asked \in Nat /\ m_iAutoIncriSessionID = 1
        /\ steady \in BOOLEAN
    BY DEF Init
  <2> QED
    BY <1>2, <2>1, <2>2 DEF Types
<1>4. AskedInBounds
  BY SpanAssumption DEF Init, AskedInBounds
<1> QED
  BY <1>1, <1>3, <1>4
  DEF IInv, Base, Steady, SessionsIssued, IdsBehindCounter, IdsDiffer

(* In the loop, the candidate has not been given before. *)
LEMMA CandidateIsFresh ==
    ASSUME Base, Steady, looking
    PROVE  \A n \in DOMAIN issued : issued[n] # Candidate
<1> SUFFICES ASSUME NEW n \in DOMAIN issued, issued[n] = Candidate
             PROVE  FALSE
  OBVIOUS
<1>1. Span \in Nat
  BY SpanAssumption
<1>2. Turns(m_iAutoIncriSessionID, m_iAutoIncriSessionID) = 0
  BY <1>1 DEF Turns, Base, Types
<1>3. Turns(m_iAutoIncriSessionID, issued[n] - now * Span) >= Span - Given
  BY CandidateBounds DEF Base, Steady, IdsBehindCounter
<1>4. issued[n] - now * Span = m_iAutoIncriSessionID
  BY CandidateBounds DEF Base
<1>5. Given = asked - 1 /\ asked \in 0 .. Span
  BY DEF Given, Steady, AskedInBounds
<1> QED
  BY <1>1, <1>2, <1>3, <1>4, <1>5

LEMMA ClockKeepsInvariant ==
    ASSUME Base, Steady, NEW t \in 0 .. MaxTime, Clock(t), steady'
    PROVE  Steady'
<1> USE DEF Base, Steady
<1>0. t > now /\ now' = t
  BY Zenon DEF Clock
<1>1. t \in Nat /\ now \in Nat /\ now < t /\ now' = t
  BY <1>0, BoundAssumption DEF Types
<1>3. IdsDiffer'
  BY DEF Clock, IdsDiffer
<1>4. AskedInBounds'
  BY SpanAssumption DEF Clock, AskedInBounds, Types
<1>5. IdsBehindCounter'
  <2> SUFFICES ASSUME NEW n \in DOMAIN issued
               PROVE  issued[n] <= t * Span
    <3>1. \A n \in DOMAIN issued : issued[n] \in Nat
      BY DEF Types
    <3>2. Span \in Nat /\ t * Span \in Nat
      BY <1>1, SecondsApart, SpanAssumption
    <3>3. issued' = issued
      BY DEF Clock
    <3> QED
      BY <1>1, <3>1, <3>2, <3>3 DEF IdsBehindCounter
  <2>1. issued[n] \in Nat /\ issued[n] <= now * Span + Span
    BY DEF Types, IdsBehindCounter
  <2>2. now * Span + Span <= t * Span /\ now * Span \in Nat /\ t * Span \in Nat
    BY <1>1, SecondsApart
  <2>3. Span \in Nat
    BY SpanAssumption
  <2> QED
    BY <2>1, <2>2, <2>3
<1> QED
  BY <1>3, <1>4, <1>5

LEMMA NewSessionKeepsInvariant ==
    ASSUME Base, NewSession
    PROVE  Base' /\ (Steady => Steady')
<1> USE DEF Base
<1>1. /\ looking /\ looking' = FALSE /\ now' = now /\ asked' = asked
      /\ issued' = Append(issued, Candidate)
      /\ m_iAutoIncriSessionID' = NextCounter(m_iAutoIncriSessionID)
  BY DEF NewSession
<1>2. Candidate \in Nat \ {0} /\ now * Span \in Nat
  BY CandidateBounds
<1>3. issued \in Seq(Nat \ {0}) /\ Len(issued) \in Nat
      /\ issued' \in Seq(Nat \ {0}) /\ Len(issued') = Len(issued) + 1
  BY <1>1, <1>2 DEF Types
<1>4. /\ DOMAIN issued = 1 .. Len(issued)
      /\ DOMAIN issued' = 1 .. Len(issued) + 1
  BY <1>3
<1>5. /\ \A n \in DOMAIN issued : issued'[n] = issued[n]
      /\ issued'[Len(issued) + 1] = Candidate
  BY <1>1, <1>2, <1>3
<1>6. /\ Span \in Nat /\ Span >= 1
      /\ m_iAutoIncriSessionID \in 1 .. Span
      /\ m_iAutoIncriSessionID' =
            IF m_iAutoIncriSessionID = Span THEN 1 ELSE m_iAutoIncriSessionID + 1
  BY <1>1, SpanAssumption, NextCounterValue DEF Types
<1>7. Types'
  <2>1. m_iAutoIncriSessionID' \in 1 .. Span
    BY <1>6
  <2> QED
    BY <1>1, <1>3, <2>1 DEF Types, NewSession
<1>8. SessionsIssued'
  BY <1>4, <1>5 DEF NewSession, SessionsIssued
<1>9. Steady => AskedInBounds'
  BY <1>1 DEF AskedInBounds, Steady
<1>10. ASSUME Steady PROVE IdsDiffer'
  <2>1. \A n \in DOMAIN issued : issued[n] # Candidate
    BY <1>1, <1>10, CandidateIsFresh
  <2> SUFFICES ASSUME NEW m \in DOMAIN issued', NEW n \in DOMAIN issued',
                      issued'[m] = issued'[n]
               PROVE  m = n
    BY DEF IdsDiffer
  <2>2. CASE m \in DOMAIN issued /\ n \in DOMAIN issued
    BY <1>5, <1>10, <2>2 DEF IdsDiffer, Steady
  <2>3. CASE m \notin DOMAIN issued \/ n \notin DOMAIN issued
    <3>1. \A i \in DOMAIN issued' : i \in DOMAIN issued \/ i = Len(issued) + 1
      BY <1>3, <1>4
    <3> QED
      BY <1>5, <2>1, <2>3, <3>1
  <2> QED
    BY <2>2, <2>3
<1>11. ASSUME Steady PROVE IdsBehindCounter'
  <2> USE <1>11 DEF Steady
  <2>1. Given' = asked /\ Given = asked - 1 /\ asked \in 0 .. Span /\ asked >= 1
    BY <1>1 DEF Given, AskedInBounds
  <2> SUFFICES ASSUME NEW n \in DOMAIN issued'
               PROVE  /\ issued'[n] <= now * Span + Span
                      /\ issued'[n] > now * Span
                            => Turns(m_iAutoIncriSessionID', issued'[n] - now * Span)
                                  >= Span - asked
    BY <1>1, <2>1 DEF IdsBehindCounter
  <2>2. CASE n = Len(issued) + 1
    <3>1. issued'[n] - now * Span = m_iAutoIncriSessionID
          /\ issued'[n] <= now * Span + Span
      BY <1>5, <2>2, CandidateBounds
    <3>2. Turns(m_iAutoIncriSessionID', issued'[n] - now * Span) = Span - 1
      BY <1>1, <1>6, <3>1 DEF Turns
    <3> QED
      BY <1>6, <2>1, <3>1, <3>2
  <2>3. CASE n \in DOMAIN issued
    <3> DEFINE k == issued[n] - now * Span
    <3>1. issued'[n] = issued[n] /\ issued[n] \in Nat
          /\ issued[n] <= now * Span + Span
      BY <1>5, <2>3 DEF IdsBehindCounter, Types
    <3>2. ASSUME issued[n] > now * Span
          PROVE  Turns(m_iAutoIncriSessionID', k) >= Span - asked
      <4>1. Turns(m_iAutoIncriSessionID, k) >= Span - (asked - 1)
        BY <2>1, <2>3, <3>2 DEF IdsBehindCounter
      <4>2. k \in 1 .. Span
        BY <1>2, <1>6, <3>1, <3>2
      <4>3. Turns(m_iAutoIncriSessionID, k) >= 1
        BY <1>6, <2>1, <4>1, <4>2 DEF Turns
      <4>4. Turns(m_iAutoIncriSessionID', k) = Turns(m_iAutoIncriSessionID, k) - 1
        <5>1. k # m_iAutoIncriSessionID
          BY <1>6, <4>2, <4>3 DEF Turns
        <5> HIDE DEF k
        <5> QED
          BY <1>6, <4>2, <5>1 DEF Turns
      <4> HIDE DEF k
      <4>5. Turns(m_iAutoIncriSessionID, k) \in Int
        BY <1>6, <4>2 DEF Turns
      <4> QED
        BY <1>6, <2>1, <4>1, <4>4, <4>5
    <3> QED
      BY <3>1, <3>2
  <2> QED
    BY <1>3, <1>4, <2>2, <2>3
<1> QED
  BY <1>7, <1>8, <1>9, <1>10, <1>11 DEF Steady

LEMMA StepKeepsInvariant ==
    ASSUME IInv, [Next]_vars
    PROVE  IInv'
<1> USE DEF IInv, Base
<1>1. ASSUME NEW t \in 0 .. MaxTime, Clock(t)
      PROVE  IInv'
  <2>1. Base'
    BY <1>1, BoundAssumption DEF Clock, Types, SessionsIssued
  <2>2. steady' => steady
    BY <1>1 DEF Clock
  <2> QED
    BY <1>1, <2>1, <2>2, ClockKeepsInvariant
<1>2. CASE Ask
  <2>1. /\ ~ looking /\ asked' = asked + 1 /\ looking' = TRUE
        /\ steady' => steady /\ asked < Span
    BY <1>2 DEF Ask, Types
  <2>2. Given' = Given
    BY <2>1 DEF Given, Types
  <2>3. Base'
    BY <1>2, <2>1 DEF Ask, Types, SessionsIssued
  <2>4. ASSUME steady'
        PROVE  Steady'
    <3>1. Steady /\ asked < Span
      BY <2>1, <2>4
    <3>2. AskedInBounds'
      BY <2>1, <3>1, SpanAssumption DEF Steady, AskedInBounds, Types
    <3>3. IdsDiffer'
      BY <1>2, <3>1 DEF Ask, Steady, IdsDiffer
    <3>4. IdsBehindCounter'
      BY <1>2, <2>2, <3>1 DEF Ask, Steady, IdsBehindCounter, Turns
    <3> QED
      BY <3>2, <3>3, <3>4 DEF Steady
  <2> QED
    BY <2>3, <2>4
<1>3. CASE TryAgain
  <2>1. looking /\ Candidate \in {issued[n] : n \in DOMAIN issued}
        /\ steady' = steady
    BY <1>3 DEF TryAgain, SessionsIssued
  <2>2. ~ steady
    BY <2>1, CandidateIsFresh
  <2>3. m_iAutoIncriSessionID' \in 1 .. Span
    BY <1>3, NextCounterValue, SpanAssumption DEF TryAgain, Types
  <2>4. Base'
    BY <1>3, <2>3 DEF TryAgain, Types, SessionsIssued
  <2> QED
    BY <2>1, <2>2, <2>4
<1>4. CASE NewSession
  <2>1. steady' = steady
    BY <1>4 DEF NewSession
  <2> QED
    BY <1>4, <2>1, NewSessionKeepsInvariant
<1>5. ASSUME NEW id \in m_MapSessionConnInfo, RemoveSessionConn(id)
      PROVE  IInv'
  <2>1. Given' = Given
    BY <1>5 DEF RemoveSessionConn, Given
  <2> QED
    BY <1>5, <2>1 DEF RemoveSessionConn, Types, SessionsIssued, Steady,
           AskedInBounds, IdsBehindCounter, IdsDiffer, Turns
<1>6. CASE UNCHANGED vars
  <2>1. Given' = Given
    BY <1>6 DEF vars, Given
  <2> QED
    BY <1>6, <2>1 DEF vars, Types, SessionsIssued, Steady, AskedInBounds,
           IdsBehindCounter, IdsDiffer, Turns
<1> QED
  BY <1>1, <1>2, <1>3, <1>4, <1>5, <1>6 DEF Next

(* As long as the clock is not set back and no second of it sees more than *)
(* Span requests, getRandNewSession() never gives an id twice, for every   *)
(* Span and however many sessions come and go: a late task of a worker     *)
(* cannot name a younger session than its own.                             *)
THEOREM IdsNeverReused == Spec => []NeverReused
<1>1. Init => IInv
  BY InitInvariant
<1>2. IInv /\ [Next]_vars => IInv'
  BY StepKeepsInvariant
<1>3. IInv => NeverReused
  BY DEF IInv, Steady, NeverReused
<1> QED
  BY <1>1, <1>2, <1>3, PTL DEF Spec

=============================================================================
