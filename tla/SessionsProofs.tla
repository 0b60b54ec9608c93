---------------------------- MODULE SessionsProofs ----------------------------
(***************************************************************************)
(* Proofs about the sessions of pilots: who flies what (PilotSessions) and *)
(* how far (PoseBudget).                                                   *)
(*                                                                         *)
(* PilotSessions, for every number of tabs, pilots, tokens and sockets:    *)
(* the server's three records of who flies what agree, progress is neither *)
(* lost nor stale, no ship is taken from under a tab, and a pilot can be   *)
(* opened again.  The operations of the engine are operators on a memory,  *)
(* often applied one after another in one step; the lemmas about them are  *)
(* therefore about any memory that is Sound.                               *)
(*                                                                         *)
(* PoseBudget, for every length of a frame, every catch-up and every order *)
(* of stalls and reports: the clock accounts for every moment, and no      *)
(* session travels further than server time allows.                        *)
(***************************************************************************)
EXTENDS PilotSessions, PoseBudget, WellFoundedInduction, TLAPS

Rows == [Pilots -> SavedRow \cup {None}]

\* RecordsAgree, ProgressIsKept and TokensAgree of memory m, with the saved rows d, the
\* progress e and the open sockets op.
Agree(m, op) ==
    /\ \A p \in Pilots :
         /\ (m.actor[p] # None) <=> (m.session[p] # None)
         /\ m.session[p] # None =>
              /\ m.actor[p].ws = m.session[p].socket
              /\ (m.session[p].socket = None) <=> (m.session[p].grace # "none")
              /\ m.session[p].socket # None => /\ m.session[p].socket \in op
                                               /\ m.sockets[m.session[p].socket] = p
    /\ \A s \in Sockets : m.sockets[s] # None =>
         m.session[m.sockets[s]] # None /\ m.session[m.sockets[s]].socket = s

Preserved(m, d, e) ==
    \A p \in Pilots :
      /\ m.actor[p] # None => m.actor[p].cargo = e[p]
      /\ m.actor[p] = None /\ m.pilots[p] # None => m.pilots[p].cargo = e[p]
      /\ p \notin m.dirty => m.pilots[p] = d[p]

Known(m) ==
    \A p \in Pilots : m.session[p] # None =>
      m.pilots[p] # None /\ m.pilots[p].tokenHash = Digest(m.session[p].token)

Sound(m, d, e, op) ==
    m \in Memory /\ d \in Rows /\ e \in [Pilots -> Cargo] /\ Agree(m, op) /\ Preserved(m, d, e) /\ Known(m)

\* Who flies on which socket is the same in both memories.
SameFlights(m, n) == n.actor = m.actor /\ n.session = m.session /\ n.sockets = m.sockets

LEMMA Sentinels ==
    /\ None \notin SavedRow /\ None \notin Actor /\ None \notin Session
    /\ None \notin Pilots /\ None \notin Sockets /\ None \notin Tokens /\ None \notin Tabs
  BY PilotSessionsAssumption, SentinelAssumption

-----------------------------------------------------------------------------
(* The operations of the engine.                                           *)

\* The row a capture leaves.
CapturedRow(m, p) ==
    IF m.pilots[p] = None \/ m.actor[p] = None THEN m.pilots[p]
    ELSE [m.pilots[p] EXCEPT !.cargo = m.actor[p].cargo]

LEMMA RowType ==
    ASSUME NEW m \in Memory, NEW p \in Pilots
    PROVE  /\ CapturedRow(m, p) \in SavedRow \cup {None}
           /\ CapturedRow(m, p) = None <=> m.pilots[p] = None
           /\ m.pilots[p] # None => CapturedRow(m, p).tokenHash = m.pilots[p].tokenHash
           /\ m.pilots[p] # None /\ m.actor[p] # None => CapturedRow(m, p).cargo = m.actor[p].cargo
           /\ m.actor[p] = None => CapturedRow(m, p) = m.pilots[p]
<1>1. /\ m.pilots[p] \in SavedRow \cup {None} /\ m.actor[p] \in Actor \cup {None}
  BY DEF Memory
<1>2. CASE m.pilots[p] = None \/ m.actor[p] = None
  BY <1>1, <1>2, Sentinels DEF CapturedRow
<1>3. CASE m.pilots[p] # None /\ m.actor[p] # None
  <2>1. m.pilots[p] \in SavedRow /\ m.actor[p].cargo \in Cargo
    BY <1>1, <1>3 DEF Actor
  <2>2. CapturedRow(m, p) = [m.pilots[p] EXCEPT !.cargo = m.actor[p].cargo]
    BY <1>3 DEF CapturedRow
  <2>3. CapturedRow(m, p) \in SavedRow
    BY <2>1, <2>2 DEF SavedRow
  <2> QED
    BY <1>3, <2>1, <2>2, <2>3, Sentinels DEF SavedRow
<1> QED
  BY <1>2, <1>3

LEMMA CaptureFacts ==
    ASSUME NEW m \in Memory, NEW p \in Pilots
    PROVE  LET n == CapturePilot(m, p)
           IN  /\ n \in Memory /\ SameFlights(m, n)
               /\ n.pilots = [m.pilots EXCEPT ![p] = CapturedRow(m, p)]
               /\ n.dirty = IF m.pilots[p] = None \/ m.actor[p] = None THEN m.dirty
                            ELSE m.dirty \cup {p}
<1>1. CASE m.pilots[p] = None \/ m.actor[p] = None
  BY <1>1 DEF CapturePilot, CapturedRow, SameFlights, Memory
<1>2. CASE ~(m.pilots[p] = None \/ m.actor[p] = None)
  <2>1. CapturePilot(m, p) = [m EXCEPT !.pilots = [m.pilots EXCEPT ![p] = CapturedRow(m, p)],
                                       !.dirty = m.dirty \cup {p}]
    BY <1>2 DEF CapturePilot, SetPilot, CapturedRow
  <2> DEFINE rows == [m.pilots EXCEPT ![p] = CapturedRow(m, p)]
  <2>2. rows \in [Pilots -> SavedRow \cup {None}] /\ m.dirty \cup {p} \in SUBSET Pilots
    BY RowType DEF Memory
  <2> HIDE DEF rows
  <2>3. CapturePilot(m, p) = [m EXCEPT !.pilots = rows, !.dirty = m.dirty \cup {p}]
    BY <2>1 DEF rows
  <2>4. LET n == CapturePilot(m, p)
        IN  n \in Memory /\ SameFlights(m, n) /\ n.pilots = rows /\ n.dirty = m.dirty \cup {p}
    BY <2>2, <2>3 DEF SameFlights, Memory
  <2> QED
    BY <1>2, <2>4 DEF rows
<1> QED
  BY <1>1, <1>2

LEMMA RemoveSessionFacts ==
    ASSUME NEW m \in Memory, NEW p \in Pilots
    PROVE  LET n == RemoveSession(m, p)
           IN  /\ n \in Memory /\ n.pilots = m.pilots /\ n.dirty = m.dirty /\ n.actor = m.actor
               /\ n.session = [m.session EXCEPT ![p] = None]
               /\ n.sockets = [s \in Sockets |-> IF m.session[p] # None /\ s = m.session[p].socket
                                                 THEN None ELSE m.sockets[s]]
<1>1. CASE m.session[p] = None
  BY <1>1 DEF RemoveSession, Memory
<1>2. CASE m.session[p] # None
  <2> DEFINE socks == [s \in Sockets |-> IF s = m.session[p].socket THEN None ELSE m.sockets[s]]
  <2>1. RemoveSession(m, p) = [m EXCEPT !.session = [m.session EXCEPT ![p] = None], !.sockets = socks]
    BY <1>2 DEF RemoveSession
  <2>2. socks \in [Sockets -> Pilots \cup {None}] /\ [m.session EXCEPT ![p] = None] \in [Pilots -> Session \cup {None}]
    BY DEF Memory
  <2>3. socks = [s \in Sockets |-> IF m.session[p] # None /\ s = m.session[p].socket
                                  THEN None ELSE m.sockets[s]]
    BY <1>2
  <2> HIDE DEF socks
  <2> QED
    BY <2>1, <2>2, <2>3 DEF Memory
<1> QED
  BY <1>1, <1>2

LEMMA RemoveFacts ==
    ASSUME NEW m \in Memory, NEW p \in Pilots
    PROVE  LET n == RemovePlayer(m, p)
           IN  /\ n \in Memory
               /\ n.pilots = [m.pilots EXCEPT ![p] = CapturedRow(m, p)]
               /\ n.dirty = IF m.pilots[p] = None \/ m.actor[p] = None THEN m.dirty
                            ELSE m.dirty \cup {p}
               /\ n.actor = [m.actor EXCEPT ![p] = None]
               /\ n.session = [m.session EXCEPT ![p] = None]
               /\ n.sockets = [s \in Sockets |-> IF m.session[p] # None /\ s = m.session[p].socket
                                                 THEN None ELSE m.sockets[s]]
<1> DEFINE c == CapturePilot(m, p)
           r == RemoveSession(c, p)
<1>1. /\ c \in Memory /\ SameFlights(m, c)
      /\ c.pilots = [m.pilots EXCEPT ![p] = CapturedRow(m, p)]
      /\ c.dirty = IF m.pilots[p] = None \/ m.actor[p] = None THEN m.dirty ELSE m.dirty \cup {p}
  BY CaptureFacts
<1> HIDE DEF c
<1>2. /\ r \in Memory /\ r.pilots = c.pilots /\ r.dirty = c.dirty /\ r.actor = c.actor
      /\ r.session = [c.session EXCEPT ![p] = None]
      /\ r.sockets = [s \in Sockets |-> IF c.session[p] # None /\ s = c.session[p].socket
                                        THEN None ELSE c.sockets[s]]
  BY <1>1, RemoveSessionFacts
<1>3. RemovePlayer(m, p) = [r EXCEPT !.actor = [r.actor EXCEPT ![p] = None]]
  BY DEF RemovePlayer, c
<1> HIDE DEF r
<1> QED
  BY <1>1, <1>2, <1>3 DEF SameFlights, Memory

\* Memory n is m with pilot p on socket s, under a new token.
Registered(n, m, p, s, token, c) ==
    /\ n \in Memory
    /\ n.pilots = [m.pilots EXCEPT ![p] = [tokenHash |-> Digest(token), cargo |-> c]]
    /\ n.dirty = m.dirty \cup {p}
    /\ n.actor = [m.actor EXCEPT ![p] = [ws |-> s, cargo |-> c]]
    /\ n.session = [m.session EXCEPT ![p] = [token |-> token, socket |-> s, grace |-> "none"]]
    /\ n.sockets = [m.sockets EXCEPT ![s] = p]

LEMMA RegisterFacts ==
    ASSUME NEW m \in Memory, NEW p \in Pilots, NEW s \in Sockets, NEW token \in Tokens, NEW c \in Cargo
    PROVE  Registered(RegisterPilot(AddPlayer(m, p, s, c), p, s, token), m, p, s, token, c)
<1> DEFINE a == AddPlayer(m, p, s, c)
           sess == [token |-> token, socket |-> s, grace |-> "none"]
           hull == [ws |-> s, cargo |-> c]
           row == [tokenHash |-> Digest(token), cargo |-> c]
<1>1. a = [m EXCEPT !.actor = [m.actor EXCEPT ![p] = hull]]
  BY DEF AddPlayer
<1>2. hull \in Actor /\ sess \in Session /\ row \in SavedRow
  BY DEF Actor, Session, SavedRow
<1>3. a.actor = [m.actor EXCEPT ![p] = hull] /\ a.actor[p].cargo = c
  BY <1>1 DEF Memory
<1>4. RegisterPilot(a, p, s, token)
        = SetPilot([a EXCEPT !.session[p] = sess, !.sockets[s] = p], p, row)
  BY <1>3 DEF RegisterPilot
<1> HIDE DEF a, sess, hull, row
<1>5. a \in Memory /\ a.pilots = m.pilots /\ a.dirty = m.dirty /\ a.session = m.session /\ a.sockets = m.sockets
  BY <1>1, <1>2 DEF Memory
<1>6. RegisterPilot(a, p, s, token)
        = [a EXCEPT !.session = [a.session EXCEPT ![p] = sess], !.sockets = [a.sockets EXCEPT ![s] = p],
                    !.pilots = [a.pilots EXCEPT ![p] = row], !.dirty = a.dirty \cup {p}]
  BY <1>4, <1>5 DEF SetPilot, Memory
<1>7. /\ [a.session EXCEPT ![p] = sess] \in [Pilots -> Session \cup {None}]
      /\ [a.sockets EXCEPT ![s] = p] \in [Sockets -> Pilots \cup {None}]
      /\ [a.pilots EXCEPT ![p] = row] \in [Pilots -> SavedRow \cup {None}]
      /\ a.dirty \cup {p} \in SUBSET Pilots
  BY <1>2, <1>5 DEF Memory
<1>8. LET n == RegisterPilot(a, p, s, token)
      IN  /\ n \in Memory /\ n.pilots = [a.pilots EXCEPT ![p] = row] /\ n.dirty = a.dirty \cup {p}
          /\ n.actor = a.actor /\ n.session = [a.session EXCEPT ![p] = sess]
          /\ n.sockets = [a.sockets EXCEPT ![s] = p]
  BY <1>5, <1>6, <1>7 DEF Memory
<1> QED
  BY <1>3, <1>5, <1>8 DEF a, sess, hull, row, Registered

\* A session that moves to another socket, or to none.
LEMMA Moved ==
    ASSUME NEW u \in Session, NEW s, NEW g
    PROVE  [u EXCEPT !.socket = s, !.grace = g] = [token |-> u.token, socket |-> s, grace |-> g]
<1>1. [u EXCEPT !.socket = s, !.grace = g] = [[u EXCEPT !.socket = s] EXCEPT !.grace = g]
  BY DEF Session
<1>2. [u EXCEPT !.socket = s] = [token |-> u.token, socket |-> s, grace |-> u.grace]
  BY DEF Session
<1>3. \A t, h : [[token |-> t, socket |-> s, grace |-> h] EXCEPT !.grace = g]
                = [token |-> t, socket |-> s, grace |-> g]
  OBVIOUS
<1> QED
  BY <1>1, <1>2, <1>3

\* Memory n is m with the live pilot p moved to socket s.
TakenOver(n, m, p, s) ==
    /\ n \in Memory /\ n.pilots = m.pilots /\ n.dirty = m.dirty
    /\ n.actor = [m.actor EXCEPT ![p] = [ws |-> s, cargo |-> m.actor[p].cargo]]
    /\ n.session = [m.session EXCEPT ![p] = [token |-> m.session[p].token, socket |-> s, grace |-> "none"]]
    /\ n.sockets = [r \in Sockets |-> IF r = s THEN p
                                      ELSE IF r = m.session[p].socket THEN None
                                      ELSE m.sockets[r]]

LEMMA TakeOverFacts ==
    ASSUME NEW m \in Memory, NEW p \in Pilots, NEW s \in Sockets, m.session[p] # None, m.actor[p] # None
    PROVE  TakenOver(TakeOver(m, p, s), m, p, s)
<1> DEFINE socks == [r \in Sockets |-> IF r = s THEN p
                                      ELSE IF r = m.session[p].socket THEN None
                                      ELSE m.sockets[r]]
           sess == [token |-> m.session[p].token, socket |-> s, grace |-> "none"]
           hull == [ws |-> s, cargo |-> m.actor[p].cargo]
<1>1. m.session[p] \in Session /\ m.actor[p] \in Actor
  BY DEF Memory
<1>2. sess \in Session /\ hull \in Actor /\ socks \in [Sockets -> Pilots \cup {None}]
  BY <1>1 DEF Session, Actor, Memory
<1>3. [m.session[p] EXCEPT !.socket = s, !.grace = "none"] = sess /\ [m.actor[p] EXCEPT !.ws = s] = hull
  <2>2. PICK w, c : m.actor[p] = [ws |-> w, cargo |-> c]
    BY <1>1 DEF Actor
  <2>3. [m.session[p] EXCEPT !.socket = s, !.grace = "none"] = sess
    BY <1>1, Moved
  <2>4. [m.actor[p] EXCEPT !.ws = s] = hull
    <3>1. m.actor[p].cargo = c
      BY <2>2
    <3> QED
      BY <2>2, <3>1
  <2> QED
    BY <2>3, <2>4
<1>4. TakeOver(m, p, s) = [m EXCEPT !.sockets = socks, !.session = [m.session EXCEPT ![p] = sess],
                                    !.actor = [m.actor EXCEPT ![p] = hull]]
  BY <1>3 DEF TakeOver, Memory
<1>5. /\ [m.session EXCEPT ![p] = sess] \in [Pilots -> Session \cup {None}]
      /\ [m.actor EXCEPT ![p] = hull] \in [Pilots -> Actor \cup {None}]
  BY <1>2 DEF Memory
<1> HIDE DEF socks, sess, hull
<1>6. LET n == TakeOver(m, p, s)
      IN  /\ n \in Memory /\ n.pilots = m.pilots /\ n.dirty = m.dirty
          /\ n.actor = [m.actor EXCEPT ![p] = hull]
          /\ n.session = [m.session EXCEPT ![p] = sess]
          /\ n.sockets = socks
  BY <1>2, <1>4, <1>5 DEF Memory
<1> QED
  BY <1>6 DEF socks, sess, hull, TakenOver

\* Memory n is m with the live pilot p in grace.
InGrace(n, m, p, s) ==
    /\ n \in Memory /\ n.pilots = m.pilots /\ n.dirty = m.dirty
    /\ n.actor = [m.actor EXCEPT ![p] = [ws |-> None, cargo |-> m.actor[p].cargo]]
    /\ n.session = [m.session EXCEPT ![p] = [token |-> m.session[p].token, socket |-> None,
                                             grace |-> "running"]]
    /\ n.sockets = [m.sockets EXCEPT ![s] = None]

LEMMA ClosedFacts ==
    ASSUME NEW m \in Memory, NEW p \in Pilots, NEW s \in Sockets, m.session[p] # None, m.actor[p] # None
    PROVE  InGrace(TransportClosed(m, p, s), m, p, s)
<1> DEFINE sess == [token |-> m.session[p].token, socket |-> None, grace |-> "running"]
           hull == [ws |-> None, cargo |-> m.actor[p].cargo]
<1>1. m.session[p] \in Session /\ m.actor[p] \in Actor
  BY DEF Memory
<1>2. sess \in Session /\ hull \in Actor
  BY <1>1 DEF Session, Actor
<1>3. /\ [m.session[p] EXCEPT !.socket = None, !.grace = "running"] = sess
      /\ [m.actor[p] EXCEPT !.ws = None] = hull
  <2>2. PICK w, c : m.actor[p] = [ws |-> w, cargo |-> c]
    BY <1>1 DEF Actor
  <2>3. [m.session[p] EXCEPT !.socket = None, !.grace = "running"] = sess
    BY <1>1, Moved
  <2>4. [m.actor[p] EXCEPT !.ws = None] = hull
    <3>1. m.actor[p].cargo = c
      BY <2>2
    <3> QED
      BY <2>2, <3>1
  <2> QED
    BY <2>3, <2>4
<1>4. TransportClosed(m, p, s)
        = [m EXCEPT !.sockets = [m.sockets EXCEPT ![s] = None], !.session = [m.session EXCEPT ![p] = sess],
                    !.actor = [m.actor EXCEPT ![p] = hull]]
  BY <1>3 DEF TransportClosed, Memory
<1>5. /\ [m.session EXCEPT ![p] = sess] \in [Pilots -> Session \cup {None}]
      /\ [m.actor EXCEPT ![p] = hull] \in [Pilots -> Actor \cup {None}]
      /\ [m.sockets EXCEPT ![s] = None] \in [Sockets -> Pilots \cup {None}]
  BY <1>2 DEF Memory
<1> HIDE DEF sess, hull
<1>6. LET n == TransportClosed(m, p, s)
      IN  /\ n \in Memory /\ n.pilots = m.pilots /\ n.dirty = m.dirty
          /\ n.actor = [m.actor EXCEPT ![p] = hull]
          /\ n.session = [m.session EXCEPT ![p] = sess]
          /\ n.sockets = [m.sockets EXCEPT ![s] = None]
  BY <1>4, <1>5 DEF Memory
<1> QED
  BY <1>6 DEF sess, hull, InGrace

LEMMA RemoveAllFacts ==
    ASSUME NEW m \in Memory, NEW gone \in SUBSET Pilots
    PROVE  LET n == RemoveAll(m, gone)
           IN  /\ n \in Memory
               /\ n.pilots = [p \in Pilots |-> IF p \in gone THEN CapturedRow(m, p) ELSE m.pilots[p]]
               /\ n.dirty = m.dirty \cup {p \in gone : m.pilots[p] # None /\ m.actor[p] # None}
               /\ n.actor = [p \in Pilots |-> IF p \in gone THEN None ELSE m.actor[p]]
               /\ n.session = [p \in Pilots |-> IF p \in gone THEN None ELSE m.session[p]]
               /\ n.sockets = [s \in Sockets |->
                                 IF \E p \in gone : m.session[p] # None /\ s = m.session[p].socket
                                 THEN None ELSE m.sockets[s]]
<1> DEFINE rows == [p \in Pilots |-> IF p \in gone THEN CapturedRow(m, p) ELSE m.pilots[p]]
           marks == m.dirty \cup {p \in gone : m.pilots[p] # None /\ m.actor[p] # None}
           ships == [p \in Pilots |-> IF p \in gone THEN None ELSE m.actor[p]]
           sess == [p \in Pilots |-> IF p \in gone THEN None ELSE m.session[p]]
           socks == [s \in Sockets |-> IF \E p \in gone : m.session[p] # None /\ s = m.session[p].socket
                                      THEN None ELSE m.sockets[s]]
<1>1. ASSUME NEW p \in gone
      PROVE  /\ RemovePlayer(m, p).pilots[p] = CapturedRow(m, p)
             /\ RemovePlayer(m, p).dirty = IF m.pilots[p] = None \/ m.actor[p] = None THEN m.dirty
                                           ELSE m.dirty \cup {p}
             /\ RemovePlayer(m, p).actor[p] = None /\ RemovePlayer(m, p).session[p] = None
             /\ \A s \in Sockets : RemovePlayer(m, p).sockets[s] = None
                   <=> (m.session[p] # None /\ s = m.session[p].socket) \/ m.sockets[s] = None
  <2>1. p \in Pilots
    OBVIOUS
  <2>2. /\ RemovePlayer(m, p).pilots = [m.pilots EXCEPT ![p] = CapturedRow(m, p)]
        /\ RemovePlayer(m, p).dirty = IF m.pilots[p] = None \/ m.actor[p] = None THEN m.dirty
                                       ELSE m.dirty \cup {p}
        /\ RemovePlayer(m, p).actor = [m.actor EXCEPT ![p] = None]
        /\ RemovePlayer(m, p).session = [m.session EXCEPT ![p] = None]
        /\ RemovePlayer(m, p).sockets
             = [s \in Sockets |-> IF m.session[p] # None /\ s = m.session[p].socket
                                 THEN None ELSE m.sockets[s]]
    BY <2>1, RemoveFacts
  <2> QED
    BY <2>1, <2>2 DEF Memory
<1>2. m.dirty \cup UNION {RemovePlayer(m, p).dirty : p \in gone} = marks
  <2>1. ASSUME NEW q
        PROVE  q \in m.dirty \cup UNION {RemovePlayer(m, p).dirty : p \in gone} <=> q \in marks
    <3>1. ASSUME NEW p \in gone, q \in RemovePlayer(m, p).dirty
          PROVE  q \in marks
      <4>1. CASE m.pilots[p] = None \/ m.actor[p] = None
        <5>1. q \in m.dirty
          BY <1>1, <3>1, <4>1
        <5> QED
          BY <5>1
      <4>2. CASE m.pilots[p] # None /\ m.actor[p] # None
        <5>1. q \in m.dirty \/ q = p
          BY <1>1, <3>1, <4>2
        <5> QED
          BY <4>2, <5>1
      <4> QED
        BY <4>1, <4>2
    <3>2. ASSUME q \in gone, m.pilots[q] # None, m.actor[q] # None
          PROVE  \E p \in gone : q \in RemovePlayer(m, p).dirty
      <4>1. RemovePlayer(m, q).dirty = m.dirty \cup {q}
        BY <1>1, <3>2
      <4> QED
        BY <3>2, <4>1
    <3> QED
      BY <3>1, <3>2
  <2> QED
    BY <2>1
<1>3. /\ [p \in Pilots |-> IF p \in gone THEN RemovePlayer(m, p).pilots[p] ELSE m.pilots[p]] = rows
      /\ [p \in Pilots |-> IF p \in gone THEN RemovePlayer(m, p).actor[p] ELSE m.actor[p]] = ships
      /\ [p \in Pilots |-> IF p \in gone THEN RemovePlayer(m, p).session[p] ELSE m.session[p]] = sess
  BY <1>1
<1>4. [s \in Sockets |-> IF \E p \in gone : RemovePlayer(m, p).sockets[s] = None
                        THEN None ELSE m.sockets[s]] = socks
  <2>1. ASSUME NEW s \in Sockets
        PROVE  (IF \E p \in gone : RemovePlayer(m, p).sockets[s] = None THEN None ELSE m.sockets[s])
                 = IF \E p \in gone : m.session[p] # None /\ s = m.session[p].socket
                   THEN None ELSE m.sockets[s]
    <3>1. ASSUME NEW p \in gone
          PROVE  RemovePlayer(m, p).sockets[s] = None
                   <=> (m.session[p] # None /\ s = m.session[p].socket) \/ m.sockets[s] = None
      BY <1>1
    <3>2. CASE m.sockets[s] = None
      BY <3>2
    <3>3. CASE m.sockets[s] # None
      BY <3>1, <3>3
    <3> QED
      BY <3>2, <3>3
  <2> QED
    BY <2>1
<1>5. /\ rows \in [Pilots -> SavedRow \cup {None}] /\ marks \in SUBSET Pilots
      /\ ships \in [Pilots -> Actor \cup {None}] /\ sess \in [Pilots -> Session \cup {None}]
      /\ socks \in [Sockets -> Pilots \cup {None}]
  BY RowType DEF Memory
<1>6. RemoveAll(m, gone) = [m EXCEPT !.pilots = rows, !.dirty = marks, !.actor = ships,
                                     !.session = sess, !.sockets = socks]
  <2> HIDE DEF rows, marks, ships, sess, socks
  <2> QED
    BY <1>2, <1>3, <1>4 DEF RemoveAll
<1> HIDE DEF rows, marks, ships, sess, socks
<1>7. LET n == RemoveAll(m, gone)
      IN  /\ n \in Memory /\ n.pilots = rows /\ n.dirty = marks /\ n.actor = ships
          /\ n.session = sess /\ n.sockets = socks
  BY <1>5, <1>6 DEF Memory
<1> QED
  BY <1>7 DEF rows, marks, ships, sess, socks

LEMMA FlushFacts ==
    ASSUME NEW m \in Memory, NEW d \in Rows
    PROVE  /\ Flushed(m) \in Memory /\ SameFlights(m, Flushed(m)) /\ Flushed(m).dirty = {}
           /\ Flushed(m).pilots = [p \in Pilots |-> CapturedRow(m, p)]
           /\ Saved(m, d) = [p \in Pilots |->
                               IF p \in m.dirty \/ (m.actor[p] # None /\ m.pilots[p] # None)
                               THEN CapturedRow(m, p) ELSE d[p]]
           /\ Saved(m, d) \in Rows
<1> DEFINE rows == [p \in Pilots |-> CapturedRow(m, p)]
           marks == m.dirty \cup {p \in Present(m) : m.pilots[p] # None}
<1>1. [p \in Pilots |-> CapturePilot(m, p).pilots[p]] = rows
  <2>1. ASSUME NEW p \in Pilots
        PROVE  CapturePilot(m, p).pilots[p] = CapturedRow(m, p)
    <3>1. CapturePilot(m, p).pilots = [m.pilots EXCEPT ![p] = CapturedRow(m, p)]
      BY CaptureFacts
    <3> QED
      BY <3>1 DEF Memory
  <2> QED
    BY <2>1
<1>2. rows \in [Pilots -> SavedRow \cup {None}] /\ marks \in SUBSET Pilots
  BY RowType DEF Memory, Present
<1>3. Captured(m) = [m EXCEPT !.pilots = rows, !.dirty = marks]
  <2> HIDE DEF rows
  <2> QED
    BY <1>1 DEF Captured
<1>4. marks = {p \in Pilots : p \in m.dirty \/ (m.actor[p] # None /\ m.pilots[p] # None)}
  BY DEF Present, Memory
<1> HIDE DEF rows, marks
<1>5. /\ Captured(m) \in Memory /\ SameFlights(m, Captured(m))
      /\ Captured(m).pilots = rows /\ Captured(m).dirty = marks
  BY <1>2, <1>3 DEF Memory, SameFlights
<1>6. /\ Flushed(m) \in Memory /\ SameFlights(m, Flushed(m))
      /\ Flushed(m).pilots = rows /\ Flushed(m).dirty = {}
  BY <1>5 DEF Memory, SameFlights, Flushed
<1>7. Saved(m, d) = [p \in Pilots |-> IF p \in marks THEN rows[p] ELSE d[p]]
  BY <1>5 DEF Saved
<1>8. Saved(m, d) \in Rows
  BY <1>2, <1>7 DEF Rows
<1>9. Saved(m, d) = [p \in Pilots |-> IF p \in m.dirty \/ (m.actor[p] # None /\ m.pilots[p] # None)
                                     THEN CapturedRow(m, p) ELSE d[p]]
  BY <1>4, <1>7 DEF rows
<1> QED
  BY <1>6, <1>8, <1>9 DEF rows

-----------------------------------------------------------------------------
(* What the operations preserve.                                           *)

LEMMA RemoveAllSound ==
    ASSUME NEW m, NEW d, NEW e, NEW op, Sound(m, d, e, op), NEW gone \in SUBSET Pilots
    PROVE  Sound(RemoveAll(m, gone), d, e, op)
<1> DEFINE n == RemoveAll(m, gone)
<1>1. /\ m \in Memory /\ d \in Rows /\ e \in [Pilots -> Cargo]
      /\ Agree(m, op) /\ Preserved(m, d, e) /\ Known(m)
  BY DEF Sound
<1>2. /\ n \in Memory
      /\ n.pilots = [p \in Pilots |-> IF p \in gone THEN CapturedRow(m, p) ELSE m.pilots[p]]
      /\ n.dirty = m.dirty \cup {p \in gone : m.pilots[p] # None /\ m.actor[p] # None}
      /\ n.actor = [p \in Pilots |-> IF p \in gone THEN None ELSE m.actor[p]]
      /\ n.session = [p \in Pilots |-> IF p \in gone THEN None ELSE m.session[p]]
      /\ n.sockets = [s \in Sockets |->
                        IF \E p \in gone : m.session[p] # None /\ s = m.session[p].socket
                        THEN None ELSE m.sockets[s]]
  BY <1>1, RemoveAllFacts
<1> HIDE DEF n
<1>3. \A p \in Pilots : /\ m.session[p] \in Session \cup {None} /\ m.sockets \in [Sockets -> Pilots \cup {None}]
                        /\ m.session[p] # None => m.session[p].socket \in Sockets \cup {None}
  BY <1>1 DEF Memory, Session
<1>4. Agree(n, op)
  <2>1. ASSUME NEW p \in Pilots
        PROVE  /\ (n.actor[p] # None) <=> (n.session[p] # None)
               /\ n.session[p] # None =>
                    /\ n.actor[p].ws = n.session[p].socket
                    /\ (n.session[p].socket = None) <=> (n.session[p].grace # "none")
                    /\ n.session[p].socket # None => n.session[p].socket \in op
    BY <1>1, <1>2, <1>3, Sentinels DEF Agree
  <2>2. ASSUME NEW p \in Pilots, n.session[p] # None, n.session[p].socket # None
        PROVE  n.sockets[n.session[p].socket] = p
    <3>1. p \notin gone /\ n.session[p] = m.session[p] /\ m.session[p].socket \in Sockets
      BY <1>2, <1>3, <2>2
    <3>2. m.sockets[m.session[p].socket] = p
      BY <1>1, <2>2, <3>1 DEF Agree
    <3>3. \A q \in gone : m.session[q] # None => m.session[q].socket # m.session[p].socket
      BY <1>1, <2>2, <3>1, <3>2 DEF Agree
    <3> QED
      BY <1>2, <3>1, <3>2, <3>3
  <2>3. ASSUME NEW s \in Sockets, n.sockets[s] # None
        PROVE  n.session[n.sockets[s]] # None /\ n.session[n.sockets[s]].socket = s
    <3>1. /\ n.sockets[s] = m.sockets[s]
          /\ \A p \in gone : ~(m.session[p] # None /\ s = m.session[p].socket)
      BY <1>2, <2>3
    <3>2. m.sockets[s] \in Pilots /\ m.session[m.sockets[s]] # None /\ m.session[m.sockets[s]].socket = s
      BY <1>1, <2>3, <3>1 DEF Agree, Memory
    <3> QED
      BY <1>2, <3>1, <3>2
  <2> QED
    BY <2>1, <2>2, <2>3 DEF Agree
<1>5. Preserved(n, d, e)
  <2> SUFFICES ASSUME NEW p \in Pilots
               PROVE  /\ n.actor[p] # None => n.actor[p].cargo = e[p]
                      /\ n.actor[p] = None /\ n.pilots[p] # None => n.pilots[p].cargo = e[p]
                      /\ p \notin n.dirty => n.pilots[p] = d[p]
    BY DEF Preserved
  <2>1. /\ m.actor[p] # None => m.actor[p].cargo = e[p]
        /\ m.actor[p] = None /\ m.pilots[p] # None => m.pilots[p].cargo = e[p]
        /\ p \notin m.dirty => m.pilots[p] = d[p]
    BY <1>1 DEF Preserved
  <2>2. /\ CapturedRow(m, p) = None <=> m.pilots[p] = None
        /\ m.pilots[p] # None /\ m.actor[p] # None => CapturedRow(m, p).cargo = m.actor[p].cargo
        /\ m.actor[p] = None => CapturedRow(m, p) = m.pilots[p]
    BY <1>1, RowType
  <2> QED
    BY <1>2, <2>1, <2>2
<1>6. Known(n)
  BY <1>1, <1>2 DEF Known
<1> QED
  BY <1>1, <1>2, <1>4, <1>5, <1>6, Zenon DEF Sound, n

LEMMA RemoveSound ==
    ASSUME NEW m, NEW d, NEW e, NEW op, Sound(m, d, e, op), NEW p \in Pilots
    PROVE  Sound(RemovePlayer(m, p), d, e, op)
<1> DEFINE n == RemovePlayer(m, p)
<1>1. /\ m \in Memory /\ d \in Rows /\ e \in [Pilots -> Cargo]
      /\ Agree(m, op) /\ Preserved(m, d, e) /\ Known(m)
  BY DEF Sound
<1>2. /\ n \in Memory
      /\ n.pilots = [m.pilots EXCEPT ![p] = CapturedRow(m, p)]
      /\ n.dirty = IF m.pilots[p] = None \/ m.actor[p] = None THEN m.dirty ELSE m.dirty \cup {p}
      /\ n.actor = [m.actor EXCEPT ![p] = None]
      /\ n.session = [m.session EXCEPT ![p] = None]
      /\ n.sockets = [s \in Sockets |-> IF m.session[p] # None /\ s = m.session[p].socket
                                        THEN None ELSE m.sockets[s]]
  BY <1>1, RemoveFacts
<1> HIDE DEF n
<1>3. \A q \in Pilots : /\ m.session[q] \in Session \cup {None} /\ m.sockets \in [Sockets -> Pilots \cup {None}]
                        /\ m.session[q] # None => m.session[q].socket \in Sockets \cup {None}
                        /\ m.session \in [Pilots -> Session \cup {None}]
                        /\ m.actor \in [Pilots -> Actor \cup {None}]
                        /\ m.pilots \in [Pilots -> SavedRow \cup {None}]
  BY <1>1 DEF Memory, Session
<1>4. Agree(n, op)
  <2>1. \A q \in Pilots :
          /\ (n.actor[q] # None) <=> (n.session[q] # None)
          /\ n.session[q] # None =>
               /\ n.actor[q].ws = n.session[q].socket
               /\ (n.session[q].socket = None) <=> (n.session[q].grace # "none")
    BY <1>1, <1>2, <1>3 DEF Agree
  <2>2. ASSUME NEW q \in Pilots, n.session[q] # None, n.session[q].socket # None
        PROVE  n.session[q].socket \in op /\ n.sockets[n.session[q].socket] = q
    <3>1. q # p /\ n.session[q] = m.session[q]
      BY <1>2, <1>3, <2>2
    <3>2. m.session[q].socket \in op /\ m.session[q].socket \in Sockets
          /\ m.sockets[m.session[q].socket] = q
      BY <1>1, <1>3, <2>2, <3>1 DEF Agree
    <3>3. m.session[p] # None => m.session[q].socket # m.session[p].socket
      BY <1>1, <3>1, <3>2, <2>2 DEF Agree
    <3> QED
      BY <1>2, <3>1, <3>2, <3>3
  <2>3. ASSUME NEW s \in Sockets, n.sockets[s] # None
        PROVE  n.session[n.sockets[s]] # None /\ n.session[n.sockets[s]].socket = s
    <3>1. n.sockets[s] = m.sockets[s] /\ ~(m.session[p] # None /\ s = m.session[p].socket)
      BY <1>2, <2>3
    <3>2. /\ m.sockets[s] \in Pilots
          /\ m.session[m.sockets[s]] # None /\ m.session[m.sockets[s]].socket = s
      BY <1>1, <1>3, <2>3, <3>1 DEF Agree
    <3> QED
      BY <1>2, <1>3, <3>1, <3>2
  <2> QED
    BY <2>1, <2>2, <2>3 DEF Agree
<1>5. Preserved(n, d, e)
  <2> SUFFICES ASSUME NEW q \in Pilots
               PROVE  /\ n.actor[q] # None => n.actor[q].cargo = e[q]
                      /\ n.actor[q] = None /\ n.pilots[q] # None => n.pilots[q].cargo = e[q]
                      /\ q \notin n.dirty => n.pilots[q] = d[q]
    BY DEF Preserved
  <2>1. /\ m.actor[q] # None => m.actor[q].cargo = e[q]
        /\ m.actor[q] = None /\ m.pilots[q] # None => m.pilots[q].cargo = e[q]
        /\ q \notin m.dirty => m.pilots[q] = d[q]
    BY <1>1 DEF Preserved
  <2>2. /\ CapturedRow(m, q) = None <=> m.pilots[q] = None
        /\ m.pilots[q] # None /\ m.actor[q] # None => CapturedRow(m, q).cargo = m.actor[q].cargo
        /\ m.actor[q] = None => CapturedRow(m, q) = m.pilots[q]
    BY <1>1, RowType
  <2> QED
    BY <1>2, <1>3, <2>1, <2>2
<1>6. Known(n)
  BY <1>1, <1>2, <1>3 DEF Known
<1> QED
  BY <1>1, <1>2, <1>4, <1>5, <1>6, Zenon DEF Sound, n

LEMMA FlushSound ==
    ASSUME NEW m, NEW d, NEW e, NEW op, Sound(m, d, e, op)
    PROVE  Sound(Flushed(m), Saved(m, d), e, op) /\ SameFlights(m, Flushed(m))
<1> DEFINE n == Flushed(m)
           r == Saved(m, d)
<1>1. /\ m \in Memory /\ d \in Rows /\ e \in [Pilots -> Cargo]
      /\ Agree(m, op) /\ Preserved(m, d, e) /\ Known(m)
  BY DEF Sound
<1>2. /\ n \in Memory /\ SameFlights(m, n) /\ n.dirty = {}
      /\ n.pilots = [p \in Pilots |-> CapturedRow(m, p)]
      /\ r = [p \in Pilots |-> IF p \in m.dirty \/ (m.actor[p] # None /\ m.pilots[p] # None)
                               THEN CapturedRow(m, p) ELSE d[p]]
      /\ r \in Rows
  BY <1>1, FlushFacts
<1> HIDE DEF n, r
<1>3. ASSUME NEW p \in Pilots
      PROVE  /\ CapturedRow(m, p) = None <=> m.pilots[p] = None
             /\ m.pilots[p] # None => CapturedRow(m, p).tokenHash = m.pilots[p].tokenHash
             /\ m.pilots[p] # None /\ m.actor[p] # None => CapturedRow(m, p).cargo = m.actor[p].cargo
             /\ m.actor[p] = None => CapturedRow(m, p) = m.pilots[p]
             /\ m.pilots[p] = None => CapturedRow(m, p) = m.pilots[p]
  BY <1>1, RowType
<1>4. Agree(n, op)
  BY <1>1, <1>2 DEF Agree, SameFlights
<1>5. Preserved(n, r, e)
  <2> SUFFICES ASSUME NEW p \in Pilots
               PROVE  /\ n.actor[p] # None => n.actor[p].cargo = e[p]
                      /\ n.actor[p] = None /\ n.pilots[p] # None => n.pilots[p].cargo = e[p]
                      /\ n.pilots[p] = r[p]
    BY DEF Preserved
  <2>1. /\ m.actor[p] # None => m.actor[p].cargo = e[p]
        /\ m.actor[p] = None /\ m.pilots[p] # None => m.pilots[p].cargo = e[p]
        /\ p \notin m.dirty => m.pilots[p] = d[p]
    BY <1>1 DEF Preserved
  <2> QED
    BY <1>2, <1>3, <2>1 DEF SameFlights
<1>6. Known(n)
  BY <1>1, <1>2, <1>3 DEF Known, SameFlights
<1> QED
  BY <1>1, <1>2, <1>4, <1>5, <1>6, Zenon DEF Sound, n, r

\* The last departure's flush, now or later.
LEMMA AfterSound ==
    ASSUME NEW m, NEW d, NEW e, NEW op, Sound(m, d, e, op), NEW w \in AfterRemoval(m, d)
    PROVE  /\ Sound(w[1], w[2], e, op) /\ SameFlights(m, w[1])
           /\ \A p \in Pilots : w[1].pilots[p] = None <=> m.pilots[p] = None
<1>1. w = <<m, d>> \/ w = <<Flushed(m), Saved(m, d)>>
  BY DEF AfterRemoval
<1>2. CASE w = <<m, d>>
  BY <1>2 DEF SameFlights
<1>3. CASE w = <<Flushed(m), Saved(m, d)>>
  <2>1. m \in Memory /\ d \in Rows
    BY DEF Sound
  <2>2. Flushed(m).pilots = [p \in Pilots |-> CapturedRow(m, p)]
    BY <2>1, FlushFacts
  <2>3. \A p \in Pilots : CapturedRow(m, p) = None <=> m.pilots[p] = None
    BY <2>1, RowType
  <2> QED
    BY <1>3, <2>2, <2>3, FlushSound
<1> QED
  BY <1>1, <1>2, <1>3

LEMMA RegisterSound ==
    ASSUME NEW m, NEW d, NEW e, NEW f, NEW op, Sound(m, d, e, op),
           NEW p \in Pilots, NEW s \in Sockets, NEW token \in Tokens, NEW c \in Cargo,
           m.actor[p] = None, m.sockets[s] = None, s \in op,
           f = [e EXCEPT ![p] = c]
    PROVE  Sound(RegisterPilot(AddPlayer(m, p, s, c), p, s, token), d, f, op)
<1> DEFINE n == RegisterPilot(AddPlayer(m, p, s, c), p, s, token)
           row == [tokenHash |-> Digest(token), cargo |-> c]
           hull == [ws |-> s, cargo |-> c]
           sess == [token |-> token, socket |-> s, grace |-> "none"]
<1>1. /\ m \in Memory /\ d \in Rows /\ e \in [Pilots -> Cargo]
      /\ Agree(m, op) /\ Preserved(m, d, e) /\ Known(m)
  BY DEF Sound
<1>2. /\ n \in Memory
      /\ n.pilots = [m.pilots EXCEPT ![p] = row]
      /\ n.dirty = m.dirty \cup {p}
      /\ n.actor = [m.actor EXCEPT ![p] = hull]
      /\ n.session = [m.session EXCEPT ![p] = sess]
      /\ n.sockets = [m.sockets EXCEPT ![s] = p]
  <2>1. Registered(n, m, p, s, token, c)
    BY <1>1, RegisterFacts
  <2> HIDE DEF n
  <2> QED
    BY <2>1 DEF Registered
<1>3. /\ row.cargo = c /\ row.tokenHash = Digest(token) /\ row # None
      /\ hull.ws = s /\ hull.cargo = c /\ hull # None
      /\ sess.token = token /\ sess.socket = s /\ sess.grace = "none" /\ sess # None
  BY Sentinels DEF SavedRow, Actor, Session
<1> HIDE DEF n, row, hull, sess
<1>4. /\ m.session \in [Pilots -> Session \cup {None}] /\ m.sockets \in [Sockets -> Pilots \cup {None}]
      /\ m.actor \in [Pilots -> Actor \cup {None}] /\ m.pilots \in [Pilots -> SavedRow \cup {None}]
      /\ \A q \in Pilots : m.session[q] # None => m.session[q].socket \in Sockets \cup {None}
  BY <1>1 DEF Memory, Session
<1>5. m.session[p] = None
  BY <1>1 DEF Agree
<1>6. Agree(n, op)
  <2>1. ASSUME NEW q \in Pilots
        PROVE  /\ (n.actor[q] # None) <=> (n.session[q] # None)
               /\ n.session[q] # None =>
                    /\ n.actor[q].ws = n.session[q].socket
                    /\ (n.session[q].socket = None) <=> (n.session[q].grace # "none")
                    /\ n.session[q].socket # None => /\ n.session[q].socket \in op
                                                     /\ n.sockets[n.session[q].socket] = q
    BY <1>1, <1>2, <1>3, <1>4, Sentinels DEF Agree
  <2>2. ASSUME NEW r \in Sockets, n.sockets[r] # None
        PROVE  n.session[n.sockets[r]] # None /\ n.session[n.sockets[r]].socket = r
    BY <2>2, <1>1, <1>2, <1>3, <1>4, <1>5 DEF Agree
  <2> QED
    BY <2>1, <2>2 DEF Agree
<1>7. Preserved(n, d, f)
  <2> SUFFICES ASSUME NEW q \in Pilots
               PROVE  /\ n.actor[q] # None => n.actor[q].cargo = f[q]
                      /\ n.actor[q] = None /\ n.pilots[q] # None => n.pilots[q].cargo = f[q]
                      /\ q \notin n.dirty => n.pilots[q] = d[q]
    BY DEF Preserved
  <2>1. /\ m.actor[q] # None => m.actor[q].cargo = e[q]
        /\ m.actor[q] = None /\ m.pilots[q] # None => m.pilots[q].cargo = e[q]
        /\ q \notin m.dirty => m.pilots[q] = d[q]
    BY <1>1 DEF Preserved
  <2> QED
    BY <1>1, <1>2, <1>3, <1>4, <2>1
<1>8. Known(n)
  BY <1>1, <1>2, <1>3, <1>4 DEF Known
<1>9. f \in [Pilots -> Cargo]
  BY <1>1
<1> QED
  BY <1>1, <1>2, <1>6, <1>7, <1>8, <1>9, Zenon DEF Sound, n

LEMMA TakeOverSound ==
    ASSUME NEW m, NEW d, NEW e, NEW op, Sound(m, d, e, op),
           NEW p \in Pilots, NEW s \in Sockets, m.session[p] # None, m.sockets[s] \in {None, p}, s \in op
    PROVE  Sound(TakeOver(m, p, s), d, e, op)
<1> DEFINE n == TakeOver(m, p, s)
           hull == [ws |-> s, cargo |-> m.actor[p].cargo]
           sess == [token |-> m.session[p].token, socket |-> s, grace |-> "none"]
<1>1. /\ m \in Memory /\ d \in Rows /\ e \in [Pilots -> Cargo]
      /\ Agree(m, op) /\ Preserved(m, d, e) /\ Known(m)
  BY DEF Sound
<1>2. m.actor[p] # None
  BY <1>1 DEF Agree
<1>3. /\ n \in Memory /\ n.pilots = m.pilots /\ n.dirty = m.dirty
      /\ n.actor = [m.actor EXCEPT ![p] = hull]
      /\ n.session = [m.session EXCEPT ![p] = sess]
      /\ n.sockets = [r \in Sockets |-> IF r = s THEN p ELSE IF r = m.session[p].socket THEN None
                                        ELSE m.sockets[r]]
  <2>1. TakenOver(n, m, p, s)
    BY <1>1, <1>2, TakeOverFacts
  <2> HIDE DEF n
  <2> QED
    BY <2>1 DEF TakenOver
<1>4. /\ m.session \in [Pilots -> Session \cup {None}] /\ m.sockets \in [Sockets -> Pilots \cup {None}]
      /\ m.actor \in [Pilots -> Actor \cup {None}]
      /\ \A q \in Pilots : m.session[q] # None => m.session[q].socket \in Sockets \cup {None}
      /\ m.session[p] \in Session /\ m.actor[p] \in Actor
  BY <1>1, <1>2 DEF Memory, Session
<1>5. /\ hull.ws = s /\ hull.cargo = m.actor[p].cargo /\ hull # None
      /\ sess.token = m.session[p].token /\ sess.socket = s /\ sess.grace = "none" /\ sess # None
  BY <1>4, Sentinels DEF Actor, Session
<1> HIDE DEF n, hull, sess
<1>6. Agree(n, op)
  <2>1. ASSUME NEW q \in Pilots
        PROVE  /\ (n.actor[q] # None) <=> (n.session[q] # None)
               /\ n.session[q] # None =>
                    /\ n.actor[q].ws = n.session[q].socket
                    /\ (n.session[q].socket = None) <=> (n.session[q].grace # "none")
                    /\ n.session[q].socket # None => /\ n.session[q].socket \in op
                                                     /\ n.sockets[n.session[q].socket] = q
    BY <1>1, <1>3, <1>4, <1>5, Sentinels DEF Agree
  <2>2. ASSUME NEW r \in Sockets, n.sockets[r] # None
        PROVE  n.session[n.sockets[r]] # None /\ n.session[n.sockets[r]].socket = r
    BY <2>2, <1>1, <1>3, <1>4, <1>5, Sentinels DEF Agree
  <2> QED
    BY <2>1, <2>2 DEF Agree
<1>7. Preserved(n, d, e)
  <2> SUFFICES ASSUME NEW q \in Pilots
               PROVE  /\ n.actor[q] # None => n.actor[q].cargo = e[q]
                      /\ n.actor[q] = None /\ n.pilots[q] # None => n.pilots[q].cargo = e[q]
                      /\ q \notin n.dirty => n.pilots[q] = d[q]
    BY DEF Preserved
  <2>1. /\ m.actor[q] # None => m.actor[q].cargo = e[q]
        /\ m.actor[q] = None /\ m.pilots[q] # None => m.pilots[q].cargo = e[q]
        /\ q \notin m.dirty => m.pilots[q] = d[q]
    BY <1>1 DEF Preserved
  <2> QED
    BY <1>2, <1>3, <1>4, <1>5, <2>1
<1>8. Known(n)
  BY <1>1, <1>3, <1>4, <1>5 DEF Known
<1> QED
  BY <1>1, <1>3, <1>6, <1>7, <1>8, Zenon DEF Sound, n

LEMMA ClosedSound ==
    ASSUME NEW m, NEW d, NEW e, NEW op, Sound(m, d, e, op),
           NEW p \in Pilots, NEW s \in Sockets, m.session[p] # None, m.session[p].socket = s
    PROVE  Sound(TransportClosed(m, p, s), d, e, op \ {s})
<1> DEFINE n == TransportClosed(m, p, s)
           hull == [ws |-> None, cargo |-> m.actor[p].cargo]
           sess == [token |-> m.session[p].token, socket |-> None, grace |-> "running"]
<1>1. /\ m \in Memory /\ d \in Rows /\ e \in [Pilots -> Cargo]
      /\ Agree(m, op) /\ Preserved(m, d, e) /\ Known(m)
  BY DEF Sound
<1>2. m.actor[p] # None
  BY <1>1 DEF Agree
<1>3. /\ n \in Memory /\ n.pilots = m.pilots /\ n.dirty = m.dirty
      /\ n.actor = [m.actor EXCEPT ![p] = hull]
      /\ n.session = [m.session EXCEPT ![p] = sess]
      /\ n.sockets = [m.sockets EXCEPT ![s] = None]
  <2>1. InGrace(n, m, p, s)
    BY <1>1, <1>2, ClosedFacts
  <2> HIDE DEF n
  <2> QED
    BY <2>1 DEF InGrace
<1>4. /\ m.session \in [Pilots -> Session \cup {None}] /\ m.sockets \in [Sockets -> Pilots \cup {None}]
      /\ m.actor \in [Pilots -> Actor \cup {None}]
      /\ \A q \in Pilots : m.session[q] # None => m.session[q].socket \in Sockets \cup {None}
      /\ m.session[p] \in Session /\ m.actor[p] \in Actor
  BY <1>1, <1>2 DEF Memory, Session
<1>5. /\ hull.ws = None /\ hull.cargo = m.actor[p].cargo /\ hull # None
      /\ sess.token = m.session[p].token /\ sess.socket = None /\ sess.grace = "running" /\ sess # None
  BY <1>4, Sentinels DEF Actor, Session
<1> HIDE DEF n, hull, sess
<1>6. Agree(n, op \ {s})
  <2>1. ASSUME NEW q \in Pilots
        PROVE  /\ (n.actor[q] # None) <=> (n.session[q] # None)
               /\ n.session[q] # None =>
                    /\ n.actor[q].ws = n.session[q].socket
                    /\ (n.session[q].socket = None) <=> (n.session[q].grace # "none")
                    /\ n.session[q].socket # None => /\ n.session[q].socket \in op \ {s}
                                                     /\ n.sockets[n.session[q].socket] = q
    BY <1>1, <1>3, <1>4, <1>5, Sentinels DEF Agree
  <2>2. ASSUME NEW r \in Sockets, n.sockets[r] # None
        PROVE  n.session[n.sockets[r]] # None /\ n.session[n.sockets[r]].socket = r
    BY <2>2, <1>1, <1>3, <1>4, <1>5, Sentinels DEF Agree
  <2> QED
    BY <2>1, <2>2 DEF Agree
<1>7. Preserved(n, d, e)
  <2> SUFFICES ASSUME NEW q \in Pilots
               PROVE  /\ n.actor[q] # None => n.actor[q].cargo = e[q]
                      /\ n.actor[q] = None /\ n.pilots[q] # None => n.pilots[q].cargo = e[q]
                      /\ q \notin n.dirty => n.pilots[q] = d[q]
    BY DEF Preserved
  <2>1. /\ m.actor[q] # None => m.actor[q].cargo = e[q]
        /\ m.actor[q] = None /\ m.pilots[q] # None => m.pilots[q].cargo = e[q]
        /\ q \notin m.dirty => m.pilots[q] = d[q]
    BY <1>1 DEF Preserved
  <2> QED
    BY <1>2, <1>3, <1>4, <1>5, <2>1
<1>8. Known(n)
  BY <1>1, <1>3, <1>4, <1>5 DEF Known
<1> QED
  BY <1>1, <1>3, <1>6, <1>7, <1>8, Zenon DEF Sound, n

LEMMA Grows ==
    ASSUME NEW m, NEW d, NEW e, NEW op, NEW all, Sound(m, d, e, op), op \subseteq all
    PROVE  Sound(m, d, e, all)
  BY DEF Sound, Agree

LEMMA EmptySound ==
    ASSUME NEW d \in Rows, NEW op
    PROVE  Sound(Empty(d), d, [p \in Pilots |-> IF d[p] = None THEN 0 ELSE d[p].cargo], op)
<1> DEFINE n == Empty(d)
           e == [p \in Pilots |-> IF d[p] = None THEN 0 ELSE d[p].cargo]
<1>1. /\ n.pilots = d /\ n.dirty = {} /\ n.actor = [p \in Pilots |-> None]
      /\ n.session = [p \in Pilots |-> None] /\ n.sockets = [s \in Sockets |-> None]
  BY DEF Empty
<1>2. n \in Memory
  BY DEF Empty, Memory, Rows
<1>3. e \in [Pilots -> Cargo]
  <2>1. \A p \in Pilots : d[p] \in SavedRow \cup {None}
    BY DEF Rows
  <2> QED
    BY <2>1, PilotSessionsAssumption DEF SavedRow
<1> HIDE DEF n
<1>4. Agree(n, op) /\ Preserved(n, d, e) /\ Known(n)
  BY <1>1 DEF Agree, Preserved, Known
<1> QED
  BY <1>2, <1>3, <1>4 DEF Sound, n

-----------------------------------------------------------------------------
(* The server's steps.                                                     *)

LEMMA LeastIsIn ==
    ASSUME NEW S \in SUBSET Nat, S # {}
    PROVE  Least(S) \in S
<1>1. \E n \in S : \A k \in S : ~(<<k, n>> \in OpToRel(<, Nat))
  BY NatLessThanWellFounded, WFMin
<1>2. \A k, n \in S : <<k, n>> \in OpToRel(<, Nat) <=> k < n
  BY DEF OpToRel
<1>3. \A k, n \in S : k < n \/ n <= k
  OBVIOUS
<1>4. \E n \in S : \A k \in S : n <= k
  BY <1>1, <1>2, <1>3
<1> QED
  BY <1>4 DEF Least

LEMMA NewToken ==
    ASSUME Free(Tokens, TokensInUse) # {}
    PROVE  Least(Free(Tokens, TokensInUse)) \in Tokens
  BY LeastIsIn, PilotSessionsAssumption DEF Free

\* Pilot p flies on socket s.
Flown(m, p, s) == m.session[p] # None /\ m.session[p].socket = s

\* The records agree on what a socket flies.
LEMMA OnASocket ==
    ASSUME NEW m \in Memory, NEW op, Agree(m, op), NEW s \in Sockets
    PROVE  /\ PlayersBySocket(m, s) = {p \in Pilots : Flown(m, p, s)}
           /\ \A p \in Pilots : Flown(m, p, s) <=> m.sockets[s] = p
           /\ \A p \in Pilots : Flown(m, p, s) => Owner(m, s) = p
           /\ m.sockets[s] # None => m.sockets[s] \in Pilots
           /\ Owner(m, s) # None => Owner(m, s) \in Pilots /\ Flown(m, Owner(m, s), s)
<1>1. /\ m.sockets[s] # None => m.sockets[s] \in Pilots
      /\ s # None
  BY Sentinels DEF Memory
<1>2. ASSUME NEW p \in Pilots
      PROVE  Flown(m, p, s) <=> m.sockets[s] = p
  BY <1>1, Sentinels DEF Agree, Flown
<1>3. ASSUME NEW p \in Pilots
      PROVE  Flown(m, p, s) <=> m.actor[p] # None /\ m.actor[p].ws = s
  BY DEF Agree, Flown
<1>4. PlayersBySocket(m, s) = {p \in Pilots : Flown(m, p, s)}
  BY <1>3 DEF PlayersBySocket, Present
<1>5. ASSUME NEW p \in Pilots, Flown(m, p, s)
      PROVE  Owner(m, s) = p
  BY <1>2, <1>3, <1>5, Sentinels DEF Owner, Flown
<1>6. Owner(m, s) # None => Owner(m, s) \in Pilots /\ Flown(m, Owner(m, s), s)
  BY <1>1 DEF Owner, Flown
<1> QED
  BY <1>1, <1>2, <1>4, <1>5, <1>6

\* What the server holds.
Server == Sound(mem, db, earned, open)

\* Who has left the network: a removal, and the flush it may bring.
LEMMA Removed ==
    ASSUME NEW m, NEW d, NEW e, NEW op, Sound(m, d, e, op), NEW p \in Pilots,
           NEW w \in AfterRemoval(RemovePlayer(m, p), d)
    PROVE  /\ Sound(w[1], w[2], e, op)
           /\ w[1].actor = [m.actor EXCEPT ![p] = None]
           /\ w[1].session = [m.session EXCEPT ![p] = None]
           /\ w[1].sockets = [s \in Sockets |-> IF m.session[p] # None /\ s = m.session[p].socket
                                               THEN None ELSE m.sockets[s]]
           /\ m.pilots[p] # None => w[1].pilots[p] # None
<1>1. m \in Memory
  BY DEF Sound
<1>2. Sound(RemovePlayer(m, p), d, e, op)
  BY RemoveSound
<1>3. /\ Sound(w[1], w[2], e, op) /\ SameFlights(RemovePlayer(m, p), w[1])
      /\ \A q \in Pilots : w[1].pilots[q] = None <=> RemovePlayer(m, p).pilots[q] = None
  BY <1>2, AfterSound
<1>4. /\ RemovePlayer(m, p).actor = [m.actor EXCEPT ![p] = None]
      /\ RemovePlayer(m, p).session = [m.session EXCEPT ![p] = None]
      /\ RemovePlayer(m, p).sockets = [s \in Sockets |-> IF m.session[p] # None /\ s = m.session[p].socket
                                                        THEN None ELSE m.sockets[s]]
  BY <1>1, RemoveFacts
<1>5. m.pilots[p] # None => RemovePlayer(m, p).pilots[p] # None
  <2>1. RemovePlayer(m, p).pilots = [m.pilots EXCEPT ![p] = CapturedRow(m, p)]
    BY <1>1, RemoveFacts
  <2>2. CapturedRow(m, p) = None <=> m.pilots[p] = None
    BY <1>1, RowType
  <2> QED
    BY <1>1, <2>1, <2>2 DEF Memory
<1> QED
  BY <1>3, <1>4, <1>5 DEF SameFlights

-----------------------------------------------------------------------------
(* What a step of the server may do to the rest of the state: it takes     *)
(* messages off the sockets that are open, answers on them, and closes      *)
(* them. While every tab sends its poses it never takes a ship from under a *)
(* tab, and what it answers is true.                                       *)

Good(s) == s \in open \ (closing \cup cut)
Held(s) == \E t \in Tabs : tab[t].socket = s

TrueStep ==
    \A s \in Sockets : Held(s) /\ Good(s)' =>
      /\ Good(s)
      /\ \A p \in Pilots : Flown(mem, p, s) => Flown(mem', p, s)
      /\ \A i \in DOMAIN down'[s] : down'[s][i].type = "joined" =>
           (\E j \in DOMAIN down[s] : down[s][j] = down'[s][i]) \/ Flown(mem', down'[s][i].id, s)

QueueStep ==
    /\ up' \in [Sockets -> Seq(UpMessage)] /\ down' \in [Sockets -> Seq(DownMessage)]
    /\ \A r \in Sockets :
         /\ \A i \in DOMAIN up'[r] : \E j \in DOMAIN up[r] : up'[r][i] = up[r][j]
         /\ r \notin open => up'[r] \in {up[r], <<>>} /\ down'[r] \in {down[r], <<>>}
    /\ open' \subseteq open /\ closing' \subseteq open' /\ cut' \subseteq open'
    /\ opened' = opened /\ tab' = tab /\ stored' = stored /\ told' \subseteq told

ServerStep == Server' /\ QueueStep /\ (~Sleeps => TrueStep)

\* RecordsAgree, ProgressIsKept and TokensAgree are what is Sound.
LEMMA SoundIs ==
    ASSUME TypeOK
    PROVE  Server <=> RecordsAgree /\ ProgressIsKept /\ TokensAgree
<1>1. mem \in Memory /\ db \in Rows /\ earned \in [Pilots -> Cargo]
  BY DEF TypeOK, Rows
<1>2. RecordsAgree <=> Agree(mem, open)
  BY DEF RecordsAgree, Agree
<1>3. (ProgressIsKept <=> Preserved(mem, db, earned)) /\ (TokensAgree <=> Known(mem))
  BY DEF ProgressIsKept, TokensAgree, Preserved, Known
<1> QED
  BY <1>1, <1>2, <1>3 DEF Server, Sound

LEMMA ServerStepKeeps ==
    ASSUME HoldersInv, ServerStep
    PROVE  HoldersInv'
<1>1. TypeOK'
  <2>1. /\ mem' \in Memory /\ db' \in Rows /\ earned' \in [Pilots -> Cargo]
    BY DEF ServerStep, Server, Sound
  <2> QED
    BY <2>1 DEF HoldersInv, TypeOK, ServerStep, QueueStep, Rows
<1>2. RecordsAgree' /\ ProgressIsKept' /\ TokensAgree'
  <2>1. (TypeOK => (Server <=> RecordsAgree /\ ProgressIsKept /\ TokensAgree))'
    BY SoundIs, PTL
  <2> QED
    BY <1>1, <2>1 DEF ServerStep
<1>3. SocketsAreOwned'
  <2>1. up \in [Sockets -> Seq(UpMessage)] /\ \A t \in Tabs : tab[t].socket \in Sockets \cup {None}
    BY DEF HoldersInv, TypeOK, TabState
  <2>2. SocketsAreOwned /\ QueueStep
    BY DEF HoldersInv, ServerStep
  <2>3. tab' = tab /\ opened' = opened
    BY <2>2 DEF QueueStep
  <2>4. ASSUME NEW t \in Tabs, tab[t].socket # None, NEW i \in DOMAIN up'[tab[t].socket]
        PROVE  up'[tab[t].socket][i].type = "join"
    <3>1. PICK j \in DOMAIN up[tab[t].socket] : up'[tab[t].socket][i] = up[tab[t].socket][j]
      BY <2>1, <2>2, <2>4 DEF QueueStep
    <3> QED
      BY <2>2, <2>4, <3>1 DEF SocketsAreOwned
  <2>5. ASSUME NEW s \in Sockets, s > opened
        PROVE  s \notin open' /\ up'[s] = <<>> /\ down'[s] = <<>>
    BY <2>2, <2>5 DEF SocketsAreOwned, QueueStep
  <2> QED
    BY <2>2, <2>3, <2>4, <2>5 DEF SocketsAreOwned
<1>4. ASSUME ~Sleeps
      PROVE  AnswersAreTrue' /\ TabFliesItsShip'
  <2>1. AnswersAreTrue /\ TabFliesItsShip /\ TrueStep /\ tab' = tab
    BY <1>4 DEF HoldersInv, ServerStep, QueueStep
  <2>2. tab \in [Tabs -> TabState] /\ down \in [Sockets -> Seq(DownMessage)]
    BY DEF HoldersInv, TypeOK
  <2>3. down' \in [Sockets -> Seq(DownMessage)]
    BY DEF ServerStep, QueueStep
  <2>4. ASSUME NEW t \in Tabs, tab[t].socket # None, Good(tab[t].socket)'
        PROVE  /\ \A i \in DOMAIN down'[tab[t].socket] : down'[tab[t].socket][i].type = "joined" =>
                     Flown(mem', down'[tab[t].socket][i].id, tab[t].socket)
               /\ tab[t].acked => Flown(mem', tab[t].me, tab[t].socket)
    <3> DEFINE s == tab[t].socket
    <3>1. /\ s \in Sockets /\ tab[t].me \in Pilots \cup {None} /\ (tab[t].acked => tab[t].me # None)
      BY <2>2, <2>4 DEF TabState, HoldersInv, TypeOK
    <3>2. /\ Good(s)
          /\ \A p \in Pilots : Flown(mem, p, s) => Flown(mem', p, s)
          /\ \A i \in DOMAIN down'[s] : down'[s][i].type = "joined" =>
               (\E j \in DOMAIN down[s] : down[s][j] = down'[s][i]) \/ Flown(mem', down'[s][i].id, s)
      BY <2>1, <2>4, <3>1 DEF TrueStep, Held
    <3>3. /\ \A j \in DOMAIN down[s] : down[s][j].type = "joined" => Flown(mem, down[s][j].id, s)
          /\ tab[t].acked => Flown(mem, tab[t].me, s)
      BY <2>1, <2>4, <3>2 DEF AnswersAreTrue, TabFliesItsShip, Good, Flown
    <3>4. \A j \in DOMAIN down[s] : down[s][j].type = "joined" => down[s][j].id \in Pilots
      <4>1. down[s] \in Seq(DownMessage)
        BY <2>2, <3>1
      <4>2. \A j \in DOMAIN down[s] : down[s][j] \in DownMessage
        BY <4>1
      <4> QED
        BY <4>2 DEF DownMessage
    <3> QED
      BY <3>1, <3>2, <3>3, <3>4
  <2> QED
    BY <2>1, <2>4 DEF AnswersAreTrue, TabFliesItsShip, Good, Flown
<1> QED
  BY <1>1, <1>2, <1>3, <1>4 DEF HoldersInv

-----------------------------------------------------------------------------
(* The server's handlers, one lemma each.                                  *)

LEMMA Arrived ==
    ASSUME TypeOK, NEW s \in Sockets, NEW type, Inbound(s, type)
    PROVE  /\ s \in open /\ up[s] \in Seq(UpMessage) /\ up[s] # <<>>
           /\ Head(up[s]) \in UpMessage
           /\ type = "join" => Head(up[s]) \in JoinMessage
<1>1. s \in open /\ up[s] \in Seq(UpMessage) /\ up[s] # <<>> /\ Head(up[s]).type = type
  BY DEF Inbound, HeadIs, TypeOK
<1>2. Head(up[s]) \in UpMessage
  BY <1>1
<1>3. type = "join" => Head(up[s]) \in JoinMessage
  BY <1>1, <1>2 DEF UpMessage
<1> QED
  BY <1>1, <1>2, <1>3

LEMMA ConsumeFacts ==
    ASSUME TypeOK, NEW s \in Sockets, up[s] # <<>>, s \in open, Consume(s)
    PROVE  /\ up' \in [Sockets -> Seq(UpMessage)]
           /\ \A r \in Sockets :
                /\ \A i \in DOMAIN up'[r] : \E j \in DOMAIN up[r] : up'[r][i] = up[r][j]
                /\ r \notin open => up'[r] \in {up[r], <<>>}
<1>1. up \in [Sockets -> Seq(UpMessage)] /\ up' = [up EXCEPT ![s] = Tail(@)]
  BY DEF TypeOK, Consume
<1>2. ASSUME NEW r \in Sockets, NEW i \in DOMAIN up'[r]
      PROVE  \E j \in DOMAIN up[r] : up'[r][i] = up[r][j]
  <2>1. CASE r = s
    <3>1. up'[r] = Tail(up[s]) /\ up[s] \in Seq(UpMessage)
      BY <1>1, <2>1
    <3>2. i + 1 \in DOMAIN up[s] /\ Tail(up[s])[i] = up[s][i + 1]
      BY <1>2, <3>1
    <3> QED
      BY <2>1, <3>1, <3>2
  <2>2. CASE r # s
    BY <1>1, <1>2, <2>2
  <2> QED
    BY <2>1, <2>2
<1> QED
  BY <1>1, <1>2

\* A queue that has gained nothing but messages of M.
Gains(new, old, M) ==
    \A i \in DOMAIN new : (\E j \in DOMAIN old : old[j] = new[i]) \/ new[i] \in M

LEMMA SendDownFacts ==
    ASSUME NEW q \in [Sockets -> Seq(DownMessage)], NEW s \in Sockets, NEW message \in DownMessage
    PROVE  LET n == SendDown(q, s, message)
           IN  /\ n \in [Sockets -> Seq(DownMessage)]
               /\ \A r \in Sockets \ {s} : n[r] = q[r]
               /\ Gains(n[s], q[s], {message})
<1>1. CASE s \in closing \cup cut
  BY <1>1 DEF SendDown, Gains
<1>2. CASE s \notin closing \cup cut
  <2>1. SendDown(q, s, message) = [q EXCEPT ![s] = Append(@, message)]
    BY <1>2 DEF SendDown
  <2>2. q[s] \in Seq(DownMessage)
    OBVIOUS
  <2> QED
    BY <2>1, <2>2 DEF Gains
<1> QED
  BY <1>1, <1>2

LEMMA SendCloseFacts ==
    ASSUME NEW q \in [Sockets -> Seq(DownMessage)], NEW olds \in SUBSET Sockets
    PROVE  LET n == SendClose(q, olds)
           IN  /\ n \in [Sockets -> Seq(DownMessage)]
               /\ \A r \in Sockets \ olds : n[r] = q[r]
               /\ \A r \in Sockets : Gains(n[r], q[r], {Signal("close")})
<1>1. Signal("close") \in DownMessage
  BY DEF Signal, DownMessage
<1>2. ASSUME NEW r \in olds
      PROVE  /\ SendClose(q, olds)[r] \in Seq(DownMessage)
             /\ Gains(SendClose(q, olds)[r], q[r], {Signal("close")})
  <2>1. r \in Sockets /\ SendClose(q, olds)[r] = SendDown(q, r, Signal("close"))[r]
    BY DEF SendClose
  <2>2. /\ SendDown(q, r, Signal("close")) \in [Sockets -> Seq(DownMessage)]
        /\ Gains(SendDown(q, r, Signal("close"))[r], q[r], {Signal("close")})
    BY <1>1, <2>1, SendDownFacts
  <2> QED
    BY <2>1, <2>2
<1>3. ASSUME NEW r \in Sockets \ olds
      PROVE  SendClose(q, olds)[r] = q[r] /\ Gains(SendClose(q, olds)[r], q[r], {Signal("close")})
  BY DEF SendClose, Gains
<1>4. SendClose(q, olds) \in [Sockets -> Seq(DownMessage)]
  <2>1. SendClose(q, olds) = [s \in Sockets |-> SendClose(q, olds)[s]]
    BY DEF SendClose
  <2>2. \A r \in Sockets : SendClose(q, olds)[r] \in Seq(DownMessage)
    BY <1>2, <1>3
  <2> QED
    BY <2>1, <2>2
<1> QED
  BY <1>2, <1>3, <1>4

LEMMA AnswerFacts ==
    ASSUME TypeOK, NEW s \in Sockets, Inbound(s, "join"), NEW message \in DownMessage, Answer(s, message),
           closing' = closing
    PROVE  /\ QueueStep
           /\ \A r \in Sockets : Good(r)' => Good(r)
           /\ \A r \in Sockets \ {s} : down'[r] = down[r]
           /\ Gains(down'[s], down[s], {message})
<1>1. s \in open /\ up[s] # <<>>
  BY Arrived
<1>2. /\ up' \in [Sockets -> Seq(UpMessage)]
      /\ \A r \in Sockets :
                /\ \A i \in DOMAIN up'[r] : \E j \in DOMAIN up[r] : up'[r][i] = up[r][j]
                /\ r \notin open => up'[r] \in {up[r], <<>>}
  BY <1>1, ConsumeFacts DEF Answer
<1>3. /\ down' \in [Sockets -> Seq(DownMessage)]
      /\ \A r \in Sockets \ {s} : down'[r] = down[r]
      /\ Gains(down'[s], down[s], {message})
  <2>1. down \in [Sockets -> Seq(DownMessage)] /\ down' = SendDown(down, s, message)
    BY DEF TypeOK, Answer
  <2>2. LET n == SendDown(down, s, message)
        IN  /\ n \in [Sockets -> Seq(DownMessage)]
            /\ \A r \in Sockets \ {s} : n[r] = down[r]
            /\ Gains(n[s], down[s], {message})
    BY <2>1, SendDownFacts
  <2> QED
    BY <2>1, <2>2
<1>4. QueueStep
  BY <1>1, <1>2, <1>3 DEF QueueStep, Answer, TypeOK
<1>5. \A r \in Sockets : Good(r)' => Good(r)
  BY DEF Good, Answer
<1> QED
  BY <1>3, <1>4, <1>5

\* What the handlers may assume.
LEMMA Before ==
    ASSUME HoldersInv
    PROVE  TypeOK /\ Server /\ mem \in Memory /\ db \in Rows /\ earned \in [Pilots -> Cargo]
           /\ Agree(mem, open) /\ Preserved(mem, db, earned) /\ Known(mem)
  BY SoundIs DEF HoldersInv, Server, Sound

LEMMA RejectedStep ==
    ASSUME HoldersInv, NEW s \in Sockets, JoinRejected(s) \/ ResumeRefused(s)
    PROVE  ServerStep
<1>1. TypeOK /\ Server /\ Inbound(s, "join") /\ UNCHANGED <<mem, db, closing, earned>>
  BY Before DEF JoinRejected, ResumeRefused
<1>2. PICK message \in {Signal("error"), Signal("sessionExpired")} : Answer(s, message)
  BY DEF JoinRejected, ResumeRefused
<1>3. message \in DownMessage /\ message.type # "joined"
  BY <1>2 DEF Signal, DownMessage
<1>4. /\ QueueStep
      /\ \A r \in Sockets : Good(r)' => Good(r)
      /\ \A r \in Sockets \ {s} : down'[r] = down[r]
      /\ Gains(down'[s], down[s], {message})
  BY <1>1, <1>2, <1>3, AnswerFacts
<1>5. TrueStep
  BY <1>1, <1>3, <1>4 DEF TrueStep, Gains
<1>6. Server'
  BY <1>1, <1>4 DEF Server, Answer, JoinRejected, ResumeRefused
<1> QED
  BY <1>4, <1>5, <1>6 DEF ServerStep

LEMMA FreshStep ==
    ASSUME HoldersInv, NEW s \in Sockets, JoinFresh(s)
    PROVE  ServerStep
<1> DEFINE id == Head(up[s]).id
           token == Least(Free(Tokens, TokensInUse))
<1>1. /\ TypeOK /\ Server /\ mem \in Memory /\ earned \in [Pilots -> Cargo] /\ Agree(mem, open)
      /\ Inbound(s, "join") /\ Head(up[s]).token = None
  BY Before DEF JoinFresh
<1>2. s \in open /\ Head(up[s]) \in UpMessage /\ Head(up[s]) \in JoinMessage
  BY <1>1, Arrived
<1>3. id \in Pilots
  BY <1>1, <1>2, Sentinels DEF UpMessage, JoinMessage
<1>4. token \in Tokens
  BY NewToken DEF JoinFresh
<1>5. /\ ~FliesAnother(s, id) /\ mem.actor[id] = None
      /\ mem' = RegisterPilot(AddPlayer(mem, id, s, 0), id, s, token)
      /\ earned' = [earned EXCEPT ![id] = 0]
      /\ Answer(s, Joined(id, token))
      /\ db' = db /\ closing' = closing /\ open' = open
  BY DEF JoinFresh, Answer
<1> HIDE DEF id, token
<1>6. mem.session[id] = None
  BY <1>1, <1>3, <1>5 DEF Agree
<1>7. mem.sockets[s] = None
  <2>1. /\ PlayersBySocket(mem, s) = {p \in Pilots : Flown(mem, p, s)}
        /\ \A p \in Pilots : Flown(mem, p, s) <=> mem.sockets[s] = p
        /\ mem.sockets[s] # None => mem.sockets[s] \in Pilots
    BY <1>1, OnASocket
  <2>2. ~Flown(mem, id, s)
    BY <1>6 DEF Flown
  <2> QED
    BY <1>3, <1>5, <2>1, <2>2 DEF FliesAnother
<1>8. Server'
  <2>1. 0 \in Cargo
    BY PilotSessionsAssumption
  <2>2. Sound(mem', db, earned', open)
    BY <1>1, <1>2, <1>3, <1>4, <1>5, <1>7, <2>1, RegisterSound DEF Server
  <2> QED
    BY <1>5, <2>2 DEF Server
<1>9. Joined(id, token) \in DownMessage
  BY <1>3, <1>4 DEF Joined, DownMessage
<1>10. /\ QueueStep
       /\ \A r \in Sockets : Good(r)' => Good(r)
       /\ \A r \in Sockets \ {s} : down'[r] = down[r]
       /\ Gains(down'[s], down[s], {Joined(id, token)})
  BY <1>1, <1>5, <1>9, AnswerFacts
<1>11. mem'.session = [mem.session EXCEPT ![id] = [token |-> token, socket |-> s, grace |-> "none"]]
  <2>1. Registered(mem', mem, id, s, token, 0)
    BY <1>1, <1>3, <1>4, <1>5, RegisterFacts, PilotSessionsAssumption
  <2> QED
    BY <2>1 DEF Registered
<1>12. Flown(mem', id, s) /\ \A p \in Pilots, r \in Sockets : Flown(mem, p, r) => Flown(mem', p, r)
  <2>1. [token |-> token, socket |-> s, grace |-> "none"] \in Session
    BY <1>4 DEF Session
  <2>2. [token |-> token, socket |-> s, grace |-> "none"] # None
    BY <2>1, Sentinels
  <2>3. mem.session \in [Pilots -> Session \cup {None}]
    BY <1>1 DEF Memory
  <2> QED
    BY <1>3, <1>6, <1>11, <2>2, <2>3 DEF Flown
<1>13. Joined(id, token).id = id
  BY DEF Joined
<1>14. TrueStep
  BY <1>10, <1>12, <1>13 DEF TrueStep, Gains
<1> QED
  BY <1>8, <1>10, <1>14 DEF ServerStep

LEMMA LiveStep ==
    ASSUME HoldersInv, NEW s \in Sockets, ResumeLive(s)
    PROVE  ServerStep
<1>1. /\ TypeOK /\ Server /\ mem \in Memory /\ Agree(mem, open)
      /\ Inbound(s, "join") /\ Consume(s)
      /\ UNCHANGED <<db, opened, open, cut, tab, stored, earned, told>>
  BY Before DEF ResumeLive
<1>2. s \in open /\ up[s] # <<>>
  BY <1>1, Arrived
<1>3. PICK p \in LiveBy(mem, Head(up[s]).token) :
        /\ mem.sockets[s] \in {None, p}
        /\ mem' = TakeOver(mem, p, s)
        /\ down' = SendClose(SendDown(down, s, Joined(p, mem.session[p].token)), Superseded(mem, p, s))
        /\ closing' = closing \cup Superseded(mem, p, s)
  BY DEF ResumeLive
<1> DEFINE olds == Superseded(mem, p, s)
           message == Joined(p, mem.session[p].token)
           sent == SendDown(down, s, message)
<1>4. p \in Pilots /\ mem.session[p] # None
  BY DEF LiveBy
<1>5. mem.session[p] \in Session /\ mem.actor[p] # None /\ down \in [Sockets -> Seq(DownMessage)]
  BY <1>1, <1>4 DEF Memory, Agree, TypeOK
<1>6. olds \subseteq open /\ olds \subseteq Sockets /\ s \notin olds
      /\ \A r \in olds : r = mem.session[p].socket
  BY <1>1, <1>4, <1>5 DEF Superseded, Agree, Session
<1>7. message \in DownMessage /\ message.id = p
  BY <1>4, <1>5 DEF Joined, DownMessage, Session
<1> HIDE DEF olds, message
<1>8. /\ sent \in [Sockets -> Seq(DownMessage)]
      /\ \A r \in Sockets \ {s} : sent[r] = down[r]
      /\ Gains(sent[s], down[s], {message})
  <2>1. LET n == SendDown(down, s, message)
        IN  /\ n \in [Sockets -> Seq(DownMessage)]
            /\ \A r \in Sockets \ {s} : n[r] = down[r]
            /\ Gains(n[s], down[s], {message})
    BY <1>5, <1>7, SendDownFacts
  <2> QED
    BY <2>1
<1> HIDE DEF sent
<1>9. /\ down' \in [Sockets -> Seq(DownMessage)]
      /\ \A r \in Sockets \ olds : down'[r] = sent[r]
      /\ \A r \in Sockets : Gains(down'[r], sent[r], {Signal("close")})
  <2>1. down' = SendClose(sent, olds)
    BY <1>3 DEF sent, olds, message
  <2>2. LET n == SendClose(sent, olds)
        IN  /\ n \in [Sockets -> Seq(DownMessage)]
            /\ \A r \in Sockets \ olds : n[r] = sent[r]
            /\ \A r \in Sockets : Gains(n[r], sent[r], {Signal("close")})
    BY <1>6, <1>8, SendCloseFacts
  <2> QED
    BY <2>1, <2>2
<1>10. QueueStep
  <2>1. /\ up' \in [Sockets -> Seq(UpMessage)]
        /\ \A r \in Sockets :
                /\ \A i \in DOMAIN up'[r] : \E j \in DOMAIN up[r] : up'[r][i] = up[r][j]
                /\ r \notin open => up'[r] \in {up[r], <<>>}
    BY <1>1, <1>2, ConsumeFacts
  <2>2. \A r \in Sockets : r \notin open => down'[r] = down[r]
    BY <1>2, <1>6, <1>8, <1>9
  <2>3. closing' \subseteq open' /\ cut' \subseteq open' /\ open' = open
    BY <1>1, <1>3, <1>6 DEF TypeOK, olds
  <2> QED
    BY <1>1, <1>9, <2>1, <2>2, <2>3 DEF QueueStep
<1>11. Server'
  <2>1. Sound(mem', db, earned, open)
    BY <1>1, <1>2, <1>3, <1>4, TakeOverSound DEF Server
  <2> QED
    BY <1>1, <2>1 DEF Server
<1>12. mem'.session = [mem.session EXCEPT ![p] = [token |-> mem.session[p].token, socket |-> s,
                                                 grace |-> "none"]]
  <2>1. TakenOver(mem', mem, p, s)
    BY <1>1, <1>3, <1>4, <1>5, TakeOverFacts
  <2> QED
    BY <2>1 DEF TakenOver
<1>13. /\ Flown(mem', p, s)
       /\ \A q \in Pilots, r \in Sockets \ olds : Flown(mem, q, r) => Flown(mem', q, r)
  <2> DEFINE sess == [token |-> mem.session[p].token, socket |-> s, grace |-> "none"]
  <2>1. sess \in Session
    BY <1>5 DEF Session
  <2>2. sess # None /\ sess.socket = s
    BY <2>1, Sentinels
  <2>3. mem.session \in [Pilots -> Session \cup {None}]
    BY <1>1 DEF Memory
  <2>4. mem'.session = [mem.session EXCEPT ![p] = sess]
    BY <1>12
  <2> HIDE DEF sess
  <2>5. \A r \in Sockets \ olds : mem.session[p].socket = r => r = s
    BY Sentinels DEF olds, Superseded
  <2> QED
    BY <1>4, <2>2, <2>3, <2>4, <2>5 DEF Flown
<1>14. TrueStep
  <2> SUFFICES ASSUME NEW r \in Sockets, Good(r)'
               PROVE  /\ Good(r)
                      /\ \A q \in Pilots : Flown(mem, q, r) => Flown(mem', q, r)
                      /\ \A i \in DOMAIN down'[r] : down'[r][i].type = "joined" =>
                           (\E j \in DOMAIN down[r] : down[r][j] = down'[r][i])
                           \/ Flown(mem', down'[r][i].id, r)
    BY DEF TrueStep
  <2>1. Good(r) /\ r \notin olds
    BY <1>1, <1>3 DEF Good, olds
  <2>2. down'[r] = sent[r]
    BY <1>9, <2>1
  <2>3. Gains(down'[r], down[r], IF r = s THEN {message} ELSE {})
    BY <1>8, <2>2 DEF Gains
  <2> QED
    BY <1>7, <1>13, <2>1, <2>3 DEF Gains
<1> QED
  BY <1>10, <1>11, <1>14 DEF ServerStep

\* The pilot a saved row's token opens flies nowhere when no live session has it.
LEMMA SavedIsNotFlown ==
    ASSUME HoldersInv, NEW token, LiveBy(mem, token) = {}, NEW p \in SavedBy(mem, token), NEW s \in Sockets
    PROVE  ~Flown(mem, p, s)
<1>1. p \in Pilots /\ Agree(mem, open) /\ Known(mem) /\ mem.pilots[p].tokenHash = Digest(token)
  BY Before DEF SavedBy
<1>2. mem.session[p] # None => mem.session[p].token = token
  <2>1. mem.session[p] # None => Digest(token) = Digest(mem.session[p].token)
    BY <1>1 DEF Known
  <2> QED
    BY <2>1 DEF Digest
<1>3. mem.session[p] # None => mem.session[p].grace = "over"
  BY <1>1, <1>2 DEF LiveBy
<1>4. mem.session[p] # None => mem.session[p].socket = None
  BY <1>1, <1>3 DEF Agree
<1> QED
  BY <1>4, Sentinels DEF Flown

LEMMA SavedStep ==
    ASSUME HoldersInv, NEW s \in Sockets, ResumeSaved(s)
    PROVE  ServerStep
<1> DEFINE token == Least(Free(Tokens, TokensInUse))
<1>1. /\ TypeOK /\ Server /\ mem \in Memory /\ Agree(mem, open)
      /\ Inbound(s, "join") /\ LiveBy(mem, Head(up[s]).token) = {}
      /\ UNCHANGED <<closing, earned>>
  BY Before DEF ResumeSaved
<1>2. s \in open
  BY <1>1, Arrived
<1>3. token \in Tokens
  BY NewToken DEF ResumeSaved
<1>3a. PICK p \in SavedBy(mem, Head(up[s]).token) :
        /\ PlayersBySocket(mem, s) = {}
        /\ \E w \in IF mem.actor[p] = None THEN {<<mem, db>>} ELSE AfterRemoval(RemovePlayer(mem, p), db) :
             /\ mem' = RegisterPilot(AddPlayer(w[1], p, s, w[1].pilots[p].cargo), p, s, token)
             /\ db' = w[2]
             /\ Answer(s, Joined(p, token))
  BY DEF ResumeSaved, Restored
<1>4. PICK w \in IF mem.actor[p] = None THEN {<<mem, db>>} ELSE AfterRemoval(RemovePlayer(mem, p), db) :
        /\ mem' = RegisterPilot(AddPlayer(w[1], p, s, w[1].pilots[p].cargo), p, s, token)
        /\ db' = w[2]
        /\ Answer(s, Joined(p, token))
  BY <1>3a
<1> HIDE DEF token
<1>5. p \in Pilots /\ mem.pilots[p] # None /\ \A r \in Sockets : ~Flown(mem, p, r)
  BY <1>1, SavedIsNotFlown DEF SavedBy
<1>6. mem.sockets[s] = None
  <2>1. /\ PlayersBySocket(mem, s) = {q \in Pilots : Flown(mem, q, s)}
        /\ \A q \in Pilots : Flown(mem, q, s) <=> mem.sockets[s] = q
        /\ mem.sockets[s] # None => mem.sockets[s] \in Pilots
    BY <1>1, OnASocket
  <2> QED
    BY <1>3a, <2>1
<1>7. /\ Sound(w[1], w[2], earned, open)
      /\ w[1].actor[p] = None /\ w[1].sockets[s] = None /\ w[1].pilots[p] # None
      /\ \A q \in Pilots \ {p} : w[1].session[q] = mem.session[q]
  <2>1. CASE mem.actor[p] = None
    <3>1. w[1] = mem /\ w[2] = db
      BY <1>4, <2>1
    <3> QED
      BY <1>1, <1>5, <1>6, <2>1, <3>1 DEF Server
  <2>2. CASE mem.actor[p] # None
    <3>1. w \in AfterRemoval(RemovePlayer(mem, p), db) /\ Sound(mem, db, earned, open)
      BY <1>1, <1>4, <2>2 DEF Server
    <3>2. /\ Sound(w[1], w[2], earned, open)
          /\ w[1].actor = [mem.actor EXCEPT ![p] = None]
          /\ w[1].session = [mem.session EXCEPT ![p] = None]
          /\ w[1].sockets = [r \in Sockets |-> IF mem.session[p] # None /\ r = mem.session[p].socket
                                               THEN None ELSE mem.sockets[r]]
          /\ w[1].pilots[p] # None
      BY <1>5, <3>1, Removed
    <3> QED
      BY <1>1, <1>5, <1>6, <3>2 DEF Memory
  <2> QED
    BY <2>1, <2>2
<1> DEFINE m == w[1]
<1>8. /\ m \in Memory /\ Agree(m, open) /\ Preserved(m, w[2], earned) /\ earned \in [Pilots -> Cargo]
  BY <1>7 DEF Sound
<1>9. m.pilots[p] \in SavedRow /\ m.pilots[p].cargo \in Cargo /\ m.pilots[p].cargo = earned[p]
  BY <1>5, <1>7, <1>8, Sentinels DEF Memory, SavedRow, Preserved
<1>10. Server'
  <2>1. earned = [earned EXCEPT ![p] = m.pilots[p].cargo]
    BY <1>5, <1>8, <1>9
  <2>2. Sound(mem', w[2], earned, open)
    <3> HIDE DEF m
    <3>1. /\ Sound(m, w[2], earned, open) /\ m.actor[p] = None /\ m.sockets[s] = None
          /\ mem' = RegisterPilot(AddPlayer(m, p, s, m.pilots[p].cargo), p, s, token)
      BY <1>4, <1>7 DEF m
    <3> QED
      BY <1>2, <1>3, <1>5, <1>9, <2>1, <3>1, RegisterSound
  <2> QED
    BY <1>1, <1>4, <2>2 DEF Server, Answer
<1>11. Joined(p, token) \in DownMessage /\ Joined(p, token).id = p
  BY <1>3, <1>5 DEF Joined, DownMessage
<1>12. /\ QueueStep
       /\ \A r \in Sockets : Good(r)' => Good(r)
       /\ \A r \in Sockets \ {s} : down'[r] = down[r]
       /\ Gains(down'[s], down[s], {Joined(p, token)})
  BY <1>1, <1>4, <1>11, AnswerFacts
<1>13. mem'.session = [m.session EXCEPT ![p] = [token |-> token, socket |-> s, grace |-> "none"]]
  <2>1. Registered(mem', m, p, s, token, m.pilots[p].cargo)
    BY <1>3, <1>4, <1>5, <1>8, <1>9, RegisterFacts
  <2> QED
    BY <2>1 DEF Registered
<1>14. Flown(mem', p, s) /\ \A q \in Pilots, r \in Sockets : Flown(mem, q, r) => Flown(mem', q, r)
  <2> DEFINE sess == [token |-> token, socket |-> s, grace |-> "none"]
  <2>1. sess \in Session
    BY <1>3 DEF Session
  <2>2. sess # None /\ sess.socket = s
    BY <2>1, Sentinels
  <2>3. m.session \in [Pilots -> Session \cup {None}] /\ \A q \in Pilots \ {p} : m.session[q] = mem.session[q]
    BY <1>7, <1>8 DEF Memory
  <2>4. mem'.session = [m.session EXCEPT ![p] = sess]
    BY <1>13
  <2> HIDE DEF sess, m
  <2> QED
    BY <1>5, <2>2, <2>3, <2>4 DEF Flown
<1>15. TrueStep
  BY <1>11, <1>12, <1>14 DEF TrueStep, Gains
<1> QED
  BY <1>10, <1>12, <1>15 DEF ServerStep

\* A step that leaves the queues alone and every flight where it is.
LEMMA QuietStep ==
    ASSUME HoldersInv, Server', UNCHANGED <<up, down, opened, open, closing, cut, tab, stored, told>>,
           ~Sleeps => \A p \in Pilots, s \in Sockets : Flown(mem, p, s) => Flown(mem', p, s)
    PROVE  ServerStep
<1>1. QueueStep
  BY DEF QueueStep, HoldersInv, TypeOK
<1>2. ~Sleeps => TrueStep
  BY DEF TrueStep, Good
<1> QED
  BY <1>1, <1>2 DEF ServerStep

\* A tab that has said anything but a join on a socket has let go of it.
LEMMA LetGo ==
    ASSUME HoldersInv, NEW s \in Sockets, NEW type, Inbound(s, type), type # "join"
    PROVE  ~Held(s)
<1>1. up[s] \in Seq(UpMessage) /\ up[s] # <<>> /\ Head(up[s]).type = type
  BY DEF Inbound, HeadIs, HoldersInv, TypeOK
<1>2. 1 \in DOMAIN up[s] /\ up[s][1].type = type
  BY <1>1
<1>3. s # None
  BY Sentinels
<1> QED
  BY <1>2, <1>3 DEF Held, HoldersInv, SocketsAreOwned

LEMMA LeaveStep ==
    ASSUME HoldersInv, NEW s \in Sockets, Leave(s)
    PROVE  ServerStep
<1>1. /\ TypeOK /\ Server /\ mem \in Memory /\ Agree(mem, open) /\ Inbound(s, "leave") /\ Consume(s)
      /\ UNCHANGED <<down, opened, open, closing, cut, tab, stored, earned, told>>
  BY Before DEF Leave
<1>2. s \in open /\ up[s] # <<>> /\ ~Held(s)
  BY <1>1, Arrived, LetGo
<1>3. QueueStep
  <2>1. /\ up' \in [Sockets -> Seq(UpMessage)]
        /\ \A r \in Sockets :
                /\ \A i \in DOMAIN up'[r] : \E j \in DOMAIN up[r] : up'[r][i] = up[r][j]
                /\ r \notin open => up'[r] \in {up[r], <<>>}
    BY <1>1, <1>2, ConsumeFacts
  <2> QED
    BY <1>1, <2>1 DEF QueueStep, TypeOK
<1>4. \/ mem' = mem /\ db' = db
      \/ \E p \in PlayersBySocket(mem, s) : \E w \in AfterRemoval(RemovePlayer(mem, p), db) :
           mem' = w[1] /\ db' = w[2]
  <2> DEFINE flown == PlayersBySocket(mem, s)
  <2>1. CASE flown = {}
    BY <2>1 DEF Leave
  <2>2. CASE flown # {}
    BY <2>2 DEF Leave
  <2> QED
    BY <2>1, <2>2
<1>5. CASE mem' = mem /\ db' = db
  <2>1. Server' /\ \A p \in Pilots, r \in Sockets : Flown(mem, p, r) => Flown(mem', p, r)
    BY <1>1, <1>5 DEF Server
  <2> QED
    BY <1>1, <1>3, <2>1 DEF ServerStep, TrueStep, Good
<1>6. ASSUME NEW p \in PlayersBySocket(mem, s), NEW w \in AfterRemoval(RemovePlayer(mem, p), db),
             mem' = w[1], db' = w[2]
      PROVE  ServerStep
  <2>1. p \in Pilots /\ Flown(mem, p, s)
    BY <1>1, OnASocket
  <2>2. Sound(w[1], w[2], earned, open) /\ w[1].session = [mem.session EXCEPT ![p] = None]
    <3>1. Sound(mem, db, earned, open)
      BY <1>1 DEF Server
    <3>2. w \in AfterRemoval(RemovePlayer(mem, p), db) /\ p \in Pilots
      BY <2>1
    <3>3. /\ Sound(w[1], w[2], earned, open)
          /\ w[1].actor = [mem.actor EXCEPT ![p] = None]
          /\ w[1].session = [mem.session EXCEPT ![p] = None]
          /\ w[1].sockets = [r \in Sockets |-> IF mem.session[p] # None /\ r = mem.session[p].socket
                                               THEN None ELSE mem.sockets[r]]
      BY <3>1, <3>2, Removed
    <3> QED
      BY <3>3
  <2>3. Server'
    BY <1>1, <1>6, <2>2 DEF Server
  <2>4. \A q \in Pilots, r \in Sockets \ {s} : Flown(mem, q, r) => Flown(mem', q, r)
    BY <1>1, <1>6, <2>1, <2>2 DEF Flown, Memory
  <2>5. TrueStep
    BY <1>1, <1>2, <2>4 DEF TrueStep, Good
  <2> QED
    BY <1>3, <2>3, <2>5 DEF ServerStep
<1> QED
  BY <1>4, <1>5, <1>6

LEMMA CloseStep ==
    ASSUME HoldersInv, NEW s \in Sockets, CloseEvent(s)
    PROVE  ServerStep
<1>1. /\ TypeOK /\ Server /\ mem \in Memory /\ Agree(mem, open) /\ s \in open
      /\ open' = open \ {s} /\ closing' = closing \ {s} /\ cut' = cut \ {s}
      /\ up' = [up EXCEPT ![s] = <<>>] /\ down' = [down EXCEPT ![s] = <<>>]
      /\ UNCHANGED <<opened, tab, stored, earned, told>>
  BY Before DEF CloseEvent
<1>2. QueueStep
  BY <1>1 DEF QueueStep, TypeOK
<1>3. /\ PlayersBySocket(mem, s) = {p \in Pilots : Flown(mem, p, s)}
      /\ \A p \in Pilots : Flown(mem, p, s) => Owner(mem, s) = p
      /\ Owner(mem, s) # None => Owner(mem, s) \in Pilots /\ Flown(mem, Owner(mem, s), s)
  BY <1>1, OnASocket
<1>4. CASE Owner(mem, s) # None
  <2> DEFINE p == Owner(mem, s)
  <2>1. p \in Pilots /\ mem.session[p] # None /\ mem.session[p].socket = s
    BY <1>3, <1>4 DEF Flown
  <2>2. mem' = TransportClosed(mem, p, s) /\ db' = db
    BY <1>4 DEF CloseEvent
  <2> HIDE DEF p
  <2>3. Server'
    BY <1>1, <2>1, <2>2, ClosedSound DEF Server
  <2>4. mem'.session = [mem.session EXCEPT ![p] = [token |-> mem.session[p].token, socket |-> None,
                                                  grace |-> "running"]]
    <3>1. mem.actor[p] # None
      BY <1>1, <2>1 DEF Agree
    <3>2. InGrace(mem', mem, p, s)
      BY <1>1, <2>1, <2>2, <3>1, ClosedFacts
    <3> QED
      BY <3>2 DEF InGrace
  <2>5. \A q \in Pilots, r \in Sockets \ {s} : Flown(mem, q, r) => Flown(mem', q, r)
    BY <1>1, <2>1, <2>4 DEF Flown, Memory
  <2>6. TrueStep
    BY <1>1, <2>5 DEF TrueStep, Good, TypeOK
  <2> QED
    BY <1>2, <2>3, <2>6 DEF ServerStep
<1>5. CASE Owner(mem, s) = None
  <2>1. \A p \in Pilots : ~Flown(mem, p, s)
    BY <1>3, <1>5, Sentinels
  <2>2. mem' = mem /\ db' = db
    BY <1>3, <1>5, <2>1 DEF CloseEvent
  <2>3. Agree(mem, open \ {s})
    <3>1. \A p \in Pilots : mem.session[p] # None => mem.session[p].socket # s
      BY <2>1 DEF Flown
    <3> QED
      BY <1>1, <3>1 DEF Agree
  <2>4. Server'
    BY <1>1, <2>2, <2>3 DEF Server, Sound
  <2>5. TrueStep
    BY <1>1, <2>2 DEF TrueStep, Good, TypeOK
  <2> QED
    BY <1>2, <2>4, <2>5 DEF ServerStep
<1> QED
  BY <1>4, <1>5

LEMMA GraceStep ==
    ASSUME HoldersInv, NEW p \in Pilots, GraceEnds(p)
    PROVE  ServerStep
<1>1. /\ Server /\ mem \in Memory /\ db \in Rows /\ earned \in [Pilots -> Cargo]
      /\ Agree(mem, open) /\ Preserved(mem, db, earned) /\ Known(mem)
      /\ mem.session[p] # None /\ mem.session[p].grace = "running"
      /\ UNCHANGED <<db, up, down, opened, open, closing, cut, tab, stored, earned, told>>
  BY Before DEF GraceEnds
<1>2. mem.session[p] \in Session
  BY <1>1 DEF Memory
<1> DEFINE u == mem.session[p]
           over == [token |-> u.token, socket |-> u.socket, grace |-> "over"]
<1>3. [u EXCEPT !.grace = "over"] = over
  BY <1>2 DEF Session
<1>4. over \in Session /\ over # None
  BY <1>2, Sentinels DEF Session
<1>5. mem' = [mem EXCEPT !.session = [mem.session EXCEPT ![p] = over]]
  BY <1>3 DEF GraceEnds, Memory
<1>6. over.token = u.token /\ over.socket = u.socket /\ over.grace = "over"
  OBVIOUS
<1> HIDE DEF over
<1>7. /\ mem' \in Memory /\ mem'.pilots = mem.pilots /\ mem'.dirty = mem.dirty /\ mem'.actor = mem.actor
      /\ mem'.sockets = mem.sockets /\ mem'.session = [mem.session EXCEPT ![p] = over]
  <2>1. [mem.session EXCEPT ![p] = over] \in [Pilots -> Session \cup {None}]
    BY <1>1, <1>4 DEF Memory
  <2> QED
    BY <1>1, <1>5, <2>1 DEF Memory
<1>8. ASSUME NEW q \in Pilots
      PROVE  /\ mem'.session[q] = None <=> mem.session[q] = None
             /\ mem'.session[q].socket = mem.session[q].socket
             /\ mem'.session[q].token = mem.session[q].token
             /\ mem.session[q] # None => ((mem'.session[q].grace # "none") <=> (mem.session[q].grace # "none"))
  BY <1>1, <1>4, <1>6, <1>7 DEF Memory
<1>9. Agree(mem', open)
  <2>1. \A q \in Pilots :
         /\ (mem'.actor[q] # None) <=> (mem'.session[q] # None)
         /\ mem'.session[q] # None =>
              /\ mem'.actor[q].ws = mem'.session[q].socket
              /\ (mem'.session[q].socket = None) <=> (mem'.session[q].grace # "none")
              /\ mem'.session[q].socket # None => /\ mem'.session[q].socket \in open
                                                  /\ mem'.sockets[mem'.session[q].socket] = q
    BY <1>1, <1>7, <1>8 DEF Agree
  <2>2. \A s \in Sockets : mem'.sockets[s] # None =>
         mem'.session[mem'.sockets[s]] # None /\ mem'.session[mem'.sockets[s]].socket = s
    BY <1>1, <1>7, <1>8 DEF Agree, Memory
  <2> QED
    BY <2>1, <2>2 DEF Agree
<1>10. Preserved(mem', db, earned) /\ Known(mem')
  BY <1>1, <1>7, <1>8 DEF Preserved, Known
<1>11. Server'
  BY <1>1, <1>7, <1>9, <1>10 DEF Server, Sound
<1>12. \A q \in Pilots, s \in Sockets : Flown(mem, q, s) => Flown(mem', q, s)
  BY <1>8 DEF Flown
<1> QED
  BY <1>1, <1>11, <1>12, QuietStep

LEMMA TradeStep ==
    ASSUME HoldersInv, NEW p \in Pilots, Trade(p)
    PROVE  ServerStep
<1>1. /\ Server /\ mem \in Memory /\ db \in Rows /\ earned \in [Pilots -> Cargo]
      /\ Agree(mem, open) /\ Preserved(mem, db, earned) /\ Known(mem)
      /\ mem.actor[p] # None
      /\ UNCHANGED <<db, up, down, opened, open, closing, cut, tab, stored, told>>
  BY Before DEF Trade
<1>2. PICK c \in Cargo : mem' = [mem EXCEPT !.actor[p].cargo = c] /\ earned' = [earned EXCEPT ![p] = c]
  BY DEF Trade
<1>3. mem.actor[p] \in Actor
  BY <1>1 DEF Memory
<1> DEFINE hull == [ws |-> mem.actor[p].ws, cargo |-> c]
<1>4. [mem.actor[p] EXCEPT !.cargo = c] = hull
  BY <1>3 DEF Actor
<1>5. hull \in Actor /\ hull # None
  BY <1>3, Sentinels DEF Actor
<1>6. mem' = [mem EXCEPT !.actor = [mem.actor EXCEPT ![p] = hull]]
  BY <1>2, <1>4 DEF Memory
<1>7. hull.ws = mem.actor[p].ws /\ hull.cargo = c
  OBVIOUS
<1> HIDE DEF hull
<1>8. /\ mem' \in Memory /\ mem'.pilots = mem.pilots /\ mem'.dirty = mem.dirty
      /\ mem'.actor = [mem.actor EXCEPT ![p] = hull]
      /\ mem'.sockets = mem.sockets /\ mem'.session = mem.session
  <2>1. [mem.actor EXCEPT ![p] = hull] \in [Pilots -> Actor \cup {None}]
    BY <1>1, <1>5 DEF Memory
  <2> QED
    BY <1>1, <1>6, <2>1 DEF Memory
<1>9. mem.actor \in [Pilots -> Actor \cup {None}]
  BY <1>1 DEF Memory
<1>10. Agree(mem', open)
  BY <1>1, <1>5, <1>7, <1>8, <1>9 DEF Agree
<1>11. Preserved(mem', db, earned')
  BY <1>1, <1>2, <1>5, <1>7, <1>8, <1>9 DEF Preserved
<1>12. Known(mem')
  BY <1>1, <1>8 DEF Known
<1>13. Server'
  BY <1>1, <1>2, <1>8, <1>10, <1>11, <1>12 DEF Server, Sound
<1>14. \A q \in Pilots, s \in Sockets : Flown(mem, q, s) => Flown(mem', q, s)
  BY <1>8 DEF Flown
<1> QED
  BY <1>1, <1>13, <1>14, QuietStep

LEMMA FrameStep ==
    ASSUME HoldersInv, Frame
    PROVE  ServerStep
<1>1. /\ Server /\ mem \in Memory /\ Agree(mem, open)
      /\ UNCHANGED <<up, down, opened, open, closing, cut, tab, stored, earned, told>>
  BY Before DEF Frame
<1>2. PICK stale \in IF Sleeps THEN SUBSET Present(mem) ELSE {{}} :
        \E w \in AfterRemoval(RemoveAll(mem, stale \cup Expired(mem)), db) : mem' = w[1] /\ db' = w[2]
  BY DEF Frame
<1> DEFINE gone == stale \cup Expired(mem)
<1>3. gone \in SUBSET Pilots /\ (~Sleeps => gone = Expired(mem))
  BY <1>2 DEF Present, Expired
<1>4. PICK w \in AfterRemoval(RemoveAll(mem, gone), db) : mem' = w[1] /\ db' = w[2]
  BY <1>2
<1> HIDE DEF gone
<1>5. Sound(RemoveAll(mem, gone), db, earned, open)
  BY <1>1, <1>3, RemoveAllSound DEF Server
<1>6. Sound(w[1], w[2], earned, open) /\ SameFlights(RemoveAll(mem, gone), w[1])
  BY <1>5, AfterSound
<1>7. Server'
  BY <1>1, <1>4, <1>6 DEF Server
<1>8. mem'.session = [p \in Pilots |-> IF p \in gone THEN None ELSE mem.session[p]]
  <2>1. RemoveAll(mem, gone).session = [p \in Pilots |-> IF p \in gone THEN None ELSE mem.session[p]]
    BY <1>1, <1>3, RemoveAllFacts
  <2> QED
    BY <1>4, <1>6, <2>1 DEF SameFlights
<1>9. ASSUME ~Sleeps, NEW p \in Pilots, NEW s \in Sockets, Flown(mem, p, s)
      PROVE  Flown(mem', p, s)
  <2>1. mem.session[p].grace = "none"
    BY <1>1, <1>9, Sentinels DEF Agree, Flown
  <2>2. p \notin gone
    BY <1>3, <1>9, <2>1 DEF Expired
  <2> QED
    BY <1>8, <1>9, <2>2 DEF Flown
<1> QED
  BY <1>1, <1>7, <1>9, QuietStep

LEMMA CheckpointStep ==
    ASSUME HoldersInv, Checkpoint
    PROVE  ServerStep
<1>1. /\ Server /\ mem' = Flushed(mem) /\ db' = Saved(mem, db)
      /\ UNCHANGED <<up, down, opened, open, closing, cut, tab, stored, earned, told>>
  BY Before DEF Checkpoint
<1>2. Sound(Flushed(mem), Saved(mem, db), earned, open) /\ SameFlights(mem, Flushed(mem))
  BY <1>1, FlushSound DEF Server
<1>3. Server'
  BY <1>1, <1>2 DEF Server
<1>4. \A p \in Pilots, s \in Sockets : Flown(mem, p, s) => Flown(mem', p, s)
  BY <1>1, <1>2 DEF Flown, SameFlights
<1> QED
  BY <1>1, <1>3, <1>4, QuietStep

LEMMA CrashStep ==
    ASSUME HoldersInv, Crash
    PROVE  ServerStep
<1>1. /\ TypeOK /\ db \in Rows
      /\ mem' = Empty(db) /\ open' = {} /\ closing' = {} /\ cut' = {}
      /\ up' = [s \in Sockets |-> <<>>] /\ down' = [s \in Sockets |-> <<>>]
      /\ earned' = [p \in Pilots |-> IF db[p] = None THEN 0 ELSE db[p].cargo]
      /\ told' \subseteq told
      /\ UNCHANGED <<db, opened, tab, stored>>
  BY Before DEF Crash
<1>2. QueueStep
  BY <1>1 DEF QueueStep, TypeOK
<1>3. Server'
  <2>1. Sound(Empty(db), db, [p \in Pilots |-> IF db[p] = None THEN 0 ELSE db[p].cargo], {})
    BY <1>1, EmptySound
  <2> QED
    BY <1>1, <2>1 DEF Server
<1>4. TrueStep
  BY <1>1 DEF TrueStep, Good
<1> QED
  BY <1>2, <1>3, <1>4 DEF ServerStep

LEMMA CutStep ==
    ASSUME HoldersInv, NEW s \in Sockets, Cut(s)
    PROVE  ServerStep
<1>1. /\ TypeOK /\ Server /\ s \in open /\ cut' = cut \cup {s}
      /\ up' = [up EXCEPT ![s] = <<>>] /\ down' = [down EXCEPT ![s] = <<>>]
      /\ UNCHANGED <<mem, db, opened, open, closing, tab, stored, earned, told>>
  BY Before DEF Cut
<1>2. QueueStep
  BY <1>1 DEF QueueStep, TypeOK
<1>3. Server'
  BY <1>1 DEF Server
<1>4. TrueStep
  BY <1>1 DEF TrueStep, Good, TypeOK
<1> QED
  BY <1>2, <1>3, <1>4 DEF ServerStep

LEMMA StillStep ==
    ASSUME HoldersInv, UNCHANGED vars
    PROVE  ServerStep
<1>1. UNCHANGED <<mem, db, up, down, opened, open, closing, cut, tab, stored, earned, told>>
  BY DEF vars
<1>2. Server'
  BY <1>1, Before DEF Server
<1> QED
  BY <1>1, <1>2, QuietStep

-----------------------------------------------------------------------------
(* The steps of the tabs.                                                  *)

Joins(q) == \A i \in DOMAIN q : q[i].type = "join"

\* A tab's step touches the queues of one socket s, which is its own or new, and leaves
\* the tab, now x, with that socket or with none.
TabMove(t, x, s) ==
    /\ tab' = [tab EXCEPT ![t] = x]
    /\ UNCHANGED <<mem, db, earned, closing, cut>>
    /\ \/ tab[t].socket = s /\ opened' = opened /\ open' = open
       \/ s = opened + 1 /\ opened' = s /\ open' = open \cup {s}
    /\ x.socket \in {None, s}
    /\ x.acked => x.socket = s /\ tab[t].socket = s /\ x.me # None
    /\ ~Sleeps /\ x.acked /\ Good(s) => Flown(mem, x.me, s)
    /\ up'[s] \in Seq(UpMessage) /\ up' = [up EXCEPT ![s] = up'[s]]
    /\ x.socket = s => Joins(up'[s])
    /\ down'[s] \in Seq(DownMessage) /\ down' = [down EXCEPT ![s] = down'[s]]
    /\ \A i \in DOMAIN down'[s] : \E j \in DOMAIN down[s] : down'[s][i] = down[s][j]
    /\ stored' \in [Tabs -> Tokens \cup {None}] /\ told' \in SUBSET Pilots

LEMMA TabKeeps ==
    ASSUME HoldersInv, NEW t \in Tabs, NEW x \in TabState, NEW s \in Sockets, TabMove(t, x, s)
    PROVE  HoldersInv'
<1> DEFINE q == up'[s]
           d == down'[s]
<1>0. /\ tab' = [tab EXCEPT ![t] = x]
      /\ UNCHANGED <<mem, db, earned, closing, cut>>
      /\ \/ tab[t].socket = s /\ opened' = opened /\ open' = open
         \/ s = opened + 1 /\ opened' = s /\ open' = open \cup {s}
      /\ x.socket \in {None, s}
      /\ x.acked => x.socket = s /\ tab[t].socket = s /\ x.me # None
      /\ ~Sleeps /\ x.acked /\ Good(s) => Flown(mem, x.me, s)
      /\ q \in Seq(UpMessage) /\ up' = [up EXCEPT ![s] = q]
      /\ x.socket = s => Joins(q)
      /\ d \in Seq(DownMessage) /\ down' = [down EXCEPT ![s] = d]
      /\ \A i \in DOMAIN d : \E j \in DOMAIN down[s] : d[i] = down[s][j]
      /\ stored' \in [Tabs -> Tokens \cup {None}] /\ told' \in SUBSET Pilots
  BY DEF TabMove
<1> HIDE DEF q, d
<1> USE <1>0
<1>1. /\ TypeOK /\ SocketsAreOwned /\ opened \in Nat /\ s \in Nat /\ opened \in {0} \cup Sockets
      /\ tab \in [Tabs -> TabState] /\ up \in [Sockets -> Seq(UpMessage)]
      /\ down \in [Sockets -> Seq(DownMessage)]
      /\ \A u \in Tabs : tab[u].socket \in Sockets \cup {None}
      /\ Sockets \subseteq Nat /\ s # None
  <2>1. TypeOK /\ SocketsAreOwned
    BY DEF HoldersInv
  <2>2. /\ opened \in {0} \cup Sockets /\ tab \in [Tabs -> TabState] /\ up \in [Sockets -> Seq(UpMessage)]
        /\ down \in [Sockets -> Seq(DownMessage)]
    BY <2>1 DEF TypeOK
  <2>3. \A u \in Tabs : tab[u].socket \in Sockets \cup {None}
    BY <2>2 DEF TabState
  <2>4. Sockets \subseteq Nat /\ s # None
    BY PilotSessionsAssumption, Sentinels
  <2> QED
    BY <2>1, <2>2, <2>3, <2>4
<1>2. s <= opened' /\ opened <= opened' /\ open \subseteq open' /\ open' \subseteq open \cup {s}
      /\ opened' \in {0} \cup Sockets
  BY <1>1 DEF SocketsAreOwned
<1>3. TypeOK'
  <2>1. mem' \in Memory /\ db' \in [Pilots -> SavedRow \cup {None}] /\ earned' \in [Pilots -> Cargo]
    BY DEF HoldersInv, TypeOK
  <2>2. /\ open' \subseteq Sockets /\ closing' \subseteq open' /\ cut' \subseteq open'
        /\ up' \in [Sockets -> Seq(UpMessage)] /\ down' \in [Sockets -> Seq(DownMessage)]
    BY <1>1, <1>2 DEF TypeOK
  <2>3. tab' \in [Tabs -> TabState] /\ \A u \in Tabs : tab'[u].acked => tab'[u].socket # None /\ tab'[u].me # None
    BY <1>1 DEF TypeOK
  <2> QED
    BY <1>2, <2>1, <2>2, <2>3 DEF TypeOK
<1>4. RecordsAgree' /\ ProgressIsKept' /\ TokensAgree'
  <2>1. Sound(mem, db, earned, open')
    BY <1>2, Before, Grows DEF Server
  <2>2. Server'
    BY <2>1 DEF Server
  <2>3. (TypeOK => (Server <=> RecordsAgree /\ ProgressIsKept /\ TokensAgree))'
    BY SoundIs, PTL
  <2> QED
    BY <1>3, <2>2, <2>3
<1>5. \A u \in Tabs \ {t} : tab[u].socket # s /\ tab'[u] = tab[u]
  BY <1>1 DEF SocketsAreOwned
<1>6. tab'[t] = x
  BY <1>1
<1>7. SocketsAreOwned'
  <2>1. ASSUME NEW u \in Tabs, NEW v \in Tabs, tab'[u].socket # None, tab'[u].socket = tab'[v].socket
        PROVE  u = v
    BY <1>1, <1>5, <1>6, <2>1 DEF SocketsAreOwned
  <2>2. ASSUME NEW u \in Tabs, tab'[u].socket # None
        PROVE  tab'[u].socket <= opened' /\ Joins(up'[tab'[u].socket])
    <3>1. CASE u = t
      BY <1>1, <1>2, <1>6, <2>2, <3>1
    <3>2. CASE u # t
      <4>1. tab[u].socket <= opened /\ Joins(up[tab[u].socket])
        BY <1>1, <1>5, <2>2, <3>2 DEF SocketsAreOwned, Joins
      <4>2. tab[u].socket \in Nat
        BY <1>1, <1>5, <2>2, <3>2
      <4> QED
        BY <1>1, <1>2, <1>5, <2>2, <3>2, <4>1, <4>2
    <3> QED
      BY <3>1, <3>2
  <2>3. ASSUME NEW r \in Sockets, r > opened'
        PROVE  r \notin open' /\ up'[r] = <<>> /\ down'[r] = <<>>
    <3>1. r # s /\ r > opened
      BY <1>1, <1>2, <2>3
    <3> QED
      BY <1>1, <1>2, <3>1 DEF SocketsAreOwned
  <2> QED
    BY <2>1, <2>2, <2>3 DEF SocketsAreOwned, Joins
<1>8. ASSUME ~Sleeps
      PROVE  AnswersAreTrue' /\ TabFliesItsShip'
  <2>1. AnswersAreTrue /\ TabFliesItsShip
    BY <1>8 DEF HoldersInv
  <2>2. ASSUME NEW u \in Tabs, tab'[u].socket # None, tab'[u].socket \in open' \ (closing' \cup cut')
        PROVE  /\ \A i \in DOMAIN down'[tab'[u].socket] : down'[tab'[u].socket][i].type = "joined" =>
                     Flown(mem, down'[tab'[u].socket][i].id, tab'[u].socket)
               /\ tab'[u].acked => Flown(mem, tab'[u].me, tab'[u].socket)
    <3>1. CASE u = t
      <4>1. tab'[u].socket = s /\ down'[s] = d
        BY <1>1, <1>6, <2>2, <3>1
      <4>2. CASE tab[t].socket = s
        <5>1. open' = open
          BY <1>1, <4>2 DEF SocketsAreOwned
        <5>2. Good(s)
          BY <2>2, <4>1, <5>1 DEF Good
        <5>3. \A j \in DOMAIN down[s] : down[s][j].type = "joined" => Flown(mem, down[s][j].id, s)
          BY <1>1, <2>1, <4>2, <5>2 DEF AnswersAreTrue, Good, Flown
        <5>4. \A i \in DOMAIN d : d[i].type = "joined" => Flown(mem, d[i].id, s)
          BY <5>3
        <5> QED
          BY <1>6, <1>8, <3>1, <4>1, <5>2, <5>4
      <4>3. CASE tab[t].socket # s
        <5>1. s = opened + 1
          BY <4>3
        <5>2. down[s] = <<>>
          BY <1>1, <5>1 DEF SocketsAreOwned
        <5>3. DOMAIN down[s] = {}
          BY <5>2
        <5>4. \A i \in DOMAIN d : FALSE
          BY <5>3
        <5> QED
          BY <1>6, <3>1, <4>1, <4>3, <5>4
      <4> QED
        BY <4>2, <4>3
    <3>2. CASE u # t
      <4>1. tab'[u] = tab[u] /\ tab[u].socket # s /\ tab[u].socket \in Sockets
        BY <1>1, <1>5, <2>2, <3>2
      <4>2. Good(tab[u].socket) /\ down'[tab[u].socket] = down[tab[u].socket]
        <5>1. closing' = closing /\ cut' = cut /\ (tab[u].socket \in open' => tab[u].socket \in open)
          BY <1>2, <4>1
        <5>2. Good(tab[u].socket)
          <6>1. tab[u].socket \in open' /\ tab[u].socket \notin closing' /\ tab[u].socket \notin cut'
            BY <2>2, <4>1, Zenon DEF Good
          <6> QED
            BY <5>1, <6>1, Zenon DEF Good
        <5> QED
          BY <1>1, <4>1, <5>2
      <4> QED
        <5>1. tab[u].socket # None
          BY <2>2, <4>1, Zenon
        <5>2. \A i \in DOMAIN down[tab[u].socket] : down[tab[u].socket][i].type = "joined" =>
                     Flown(mem, down[tab[u].socket][i].id, tab[u].socket)
          BY <2>1, <4>2, <5>1 DEF AnswersAreTrue, Good, Flown
        <5>3. tab[u].acked => Flown(mem, tab[u].me, tab[u].socket)
          BY <2>1, <4>2, <5>1 DEF TabFliesItsShip, Good, Flown
        <5> QED
          BY <4>1, <4>2, <5>2, <5>3
    <3> QED
      BY <3>1, <3>2
  <2>3. AnswersAreTrue'
    BY <2>2 DEF AnswersAreTrue, Good, Flown
  <2>4. TabFliesItsShip'
    BY <2>2 DEF TabFliesItsShip, Good, Flown
  <2> QED
    BY <2>3, <2>4
<1> QED
  BY <1>3, <1>4, <1>7, <1>8 DEF HoldersInv

LEMMA SendUpFacts ==
    ASSUME NEW q \in [Sockets -> Seq(UpMessage)], NEW s \in Sockets, NEW messages \in Seq(UpMessage)
    PROVE  LET n == SendUp(q, s, messages)
           IN  /\ n[s] \in Seq(UpMessage) /\ n = [q EXCEPT ![s] = n[s]]
               /\ Joins(q[s]) /\ Joins(messages) => Joins(n[s])
<1>1. CASE s \in cut
  BY <1>1 DEF SendUp
<1>2. CASE s \notin cut
  <2>1. SendUp(q, s, messages) = [q EXCEPT ![s] = q[s] \o messages]
    BY <1>2 DEF SendUp
  <2>2. q[s] \in Seq(UpMessage) /\ q[s] \o messages \in Seq(UpMessage)
    OBVIOUS
  <2>3. Joins(q[s]) /\ Joins(messages) => Joins(q[s] \o messages)
    <3> SUFFICES ASSUME Joins(q[s]), Joins(messages), NEW i \in DOMAIN (q[s] \o messages)
                 PROVE  (q[s] \o messages)[i].type = "join"
      BY DEF Joins
    <3>1. CASE i <= Len(q[s])
      BY <2>2, <3>1 DEF Joins
    <3>2. CASE i > Len(q[s])
      <4>1. i - Len(q[s]) \in DOMAIN messages /\ (q[s] \o messages)[i] = messages[i - Len(q[s])]
        BY <2>2, <3>2
      <4> QED
        BY <4>1 DEF Joins
    <3> QED
      BY <2>2, <3>1, <3>2
  <2> QED
    BY <2>1, <2>2, <2>3
<1> QED
  BY <1>1, <1>2

\* A tab whose record is changed in one field.
LEMMA SocketSet ==
    ASSUME NEW x \in TabState, NEW s \in Sockets \cup {None}
    PROVE  /\ [x EXCEPT !.socket = s] \in TabState
           /\ [x EXCEPT !.socket = s].socket = s
           /\ [x EXCEPT !.socket = s].acked = x.acked
           /\ [x EXCEPT !.socket = s].token = x.token
  BY DEF TabState

LEMMA IdSet ==
    ASSUME NEW x \in TabState, NEW id \in Pilots \cup {None}
    PROVE  /\ [x EXCEPT !.id = id] \in TabState
           /\ [x EXCEPT !.id = id].socket = x.socket
           /\ [x EXCEPT !.id = id].acked = x.acked
           /\ [x EXCEPT !.id = id].token = x.token
           /\ [x EXCEPT !.id = id].id = id
  BY DEF TabState

LEMMA TokenSet ==
    ASSUME NEW x \in TabState, NEW token \in Tokens \cup {None}
    PROVE  /\ [x EXCEPT !.token = token] \in TabState
           /\ [x EXCEPT !.token = token].socket = x.socket
           /\ [x EXCEPT !.token = token].acked = x.acked
           /\ [x EXCEPT !.token = token].token = token
  BY DEF TabState

LEMMA AckedSet ==
    ASSUME NEW x \in TabState, NEW a \in BOOLEAN
    PROVE  /\ [x EXCEPT !.acked = a] \in TabState
           /\ [x EXCEPT !.acked = a].socket = x.socket
           /\ [x EXCEPT !.acked = a].acked = a
           /\ [x EXCEPT !.acked = a].token = x.token
  BY DEF TabState

LEMMA HaltedSet ==
    ASSUME NEW x \in TabState, NEW a \in BOOLEAN
    PROVE  /\ [x EXCEPT !.halted = a] \in TabState
           /\ [x EXCEPT !.halted = a].socket = x.socket
           /\ [x EXCEPT !.halted = a].acked = x.acked
           /\ [x EXCEPT !.halted = a].token = x.token
  BY DEF TabState

LEMMA MeSet ==
    ASSUME NEW x \in TabState, NEW id \in Pilots \cup {None}
    PROVE  /\ [x EXCEPT !.me = id] \in TabState
           /\ [x EXCEPT !.me = id].socket = x.socket
           /\ [x EXCEPT !.me = id].acked = x.acked
           /\ [x EXCEPT !.me = id].token = x.token
           /\ [x EXCEPT !.me = id].me = id
  BY DEF TabState

\* The updates the steps make.
OnSocket(x, s, id) == [x EXCEPT !.socket = s, !.id = id]
OffSocket(x, h) == [x EXCEPT !.socket = None, !.acked = FALSE, !.halted = h, !.me = None]
Acknowledged(x, token, me) == [x EXCEPT !.acked = TRUE, !.token = token, !.me = me]

LEMMA OnSocketFacts ==
    ASSUME NEW x \in TabState, NEW s \in Sockets \cup {None}, NEW id \in Pilots \cup {None}
    PROVE  /\ OnSocket(x, s, id) \in TabState /\ OnSocket(x, s, id).socket = s
           /\ OnSocket(x, s, id).acked = x.acked /\ OnSocket(x, s, id).token = x.token
           /\ OnSocket(x, s, id).id = id
<1> DEFINE a == [x EXCEPT !.socket = s]
<1>1. OnSocket(x, s, id) = [a EXCEPT !.id = id]
  BY DEF TabState, OnSocket
<1>2. a \in TabState /\ a.socket = s /\ a.acked = x.acked /\ a.token = x.token
  BY SocketSet
<1> HIDE DEF a
<1>3. /\ [a EXCEPT !.id = id] \in TabState /\ [a EXCEPT !.id = id].socket = a.socket
      /\ [a EXCEPT !.id = id].acked = a.acked /\ [a EXCEPT !.id = id].token = a.token
      /\ [a EXCEPT !.id = id].id = id
  BY <1>2, IdSet
<1> QED
  BY <1>1, <1>2, <1>3

LEMMA OffSocketFacts ==
    ASSUME NEW x \in TabState, NEW h \in BOOLEAN
    PROVE  /\ OffSocket(x, h) \in TabState /\ OffSocket(x, h).socket = None /\ OffSocket(x, h).acked = FALSE
           /\ OffSocket(x, h).token = x.token
<1> DEFINE a == [x EXCEPT !.socket = None]
           b == [a EXCEPT !.acked = FALSE]
           c == [b EXCEPT !.halted = h]
<1>1. OffSocket(x, h) = [c EXCEPT !.me = None]
  BY DEF TabState, OffSocket
<1>2. a \in TabState /\ a.socket = None /\ a.token = x.token
  BY SocketSet
<1> HIDE DEF a
<1>3. b \in TabState /\ b.socket = None /\ b.acked = FALSE /\ b.token = x.token
  BY <1>2, AckedSet
<1> HIDE DEF b
<1>4. c \in TabState /\ c.socket = None /\ c.acked = FALSE /\ c.token = x.token
  BY <1>3, HaltedSet
<1> HIDE DEF c
<1>5. /\ [c EXCEPT !.me = None] \in TabState /\ [c EXCEPT !.me = None].socket = c.socket
      /\ [c EXCEPT !.me = None].acked = c.acked /\ [c EXCEPT !.me = None].token = c.token
  BY <1>4, MeSet
<1> QED
  BY <1>1, <1>4, <1>5

LEMMA AcknowledgedFacts ==
    ASSUME NEW x \in TabState, NEW token \in Tokens \cup {None}, NEW me \in Pilots \cup {None}
    PROVE  /\ Acknowledged(x, token, me) \in TabState /\ Acknowledged(x, token, me).socket = x.socket
           /\ Acknowledged(x, token, me).me = me
<1> DEFINE a == [x EXCEPT !.acked = TRUE]
           b == [a EXCEPT !.token = token]
<1>1. Acknowledged(x, token, me) = [b EXCEPT !.me = me]
  BY DEF TabState, Acknowledged
<1>2. a \in TabState /\ a.socket = x.socket
  BY AckedSet
<1> HIDE DEF a
<1>3. b \in TabState /\ b.socket = x.socket
  BY <1>2, TokenSet
<1> HIDE DEF b
<1>4. /\ [b EXCEPT !.me = me] \in TabState /\ [b EXCEPT !.me = me].socket = b.socket
      /\ [b EXCEPT !.me = me].me = me
  BY <1>3, MeSet
<1> QED
  BY <1>1, <1>3, <1>4

\* The tab of a page that has just loaded, without a token or with one.
LEMMA Afresh ==
    LET x == [NoSession EXCEPT !.halted = FALSE]
    IN  NoSession \in TabState /\ x \in TabState /\ x.acked = FALSE /\ x.token = None
<1>1. NoSession \in TabState /\ NoSession.acked = FALSE /\ NoSession.token = None
  BY DEF NoSession, TabState
<1> QED
  BY <1>1, HaltedSet

LEMMA AfreshWith ==
    ASSUME NEW token \in Tokens \cup {None}
    PROVE  LET x == [NoSession EXCEPT !.token = token, !.halted = FALSE]
           IN  x \in TabState /\ x.acked = FALSE /\ x.token = token
<1> DEFINE a == [NoSession EXCEPT !.token = token]
<1>1. NoSession \in TabState /\ NoSession.acked = FALSE
  BY DEF NoSession, TabState
<1>2. [NoSession EXCEPT !.token = token, !.halted = FALSE] = [a EXCEPT !.halted = FALSE]
  BY <1>1 DEF TabState
<1>3. a \in TabState /\ a.acked = FALSE /\ a.token = token
  BY <1>1, TokenSet
<1> HIDE DEF a
<1>4. /\ [a EXCEPT !.halted = FALSE] \in TabState /\ [a EXCEPT !.halted = FALSE].acked = a.acked
      /\ [a EXCEPT !.halted = FALSE].token = a.token
  BY <1>3, HaltedSet
<1> QED
  BY <1>2, <1>3, <1>4

\* What a join is sent with.
LEMMA JoinSent ==
    ASSUME NEW t \in Tabs, NEW s \in Sockets, NEW after \in TabState, SendJoin(t, s, after)
    PROVE  \E x \in TabState : /\ tab' = [tab EXCEPT ![t] = x]
                               /\ x.socket = s /\ x.acked = after.acked /\ x.token = after.token
                               /\ Join(x.id, x.token, t) \in UpMessage
                               /\ up' = SendUp(up, s, <<Join(x.id, x.token, t)>>)
<1>1. PICK id \in IF after.token # None \/ after.id # None THEN {after.id}
                  ELSE IF Free(Pilots, IdsInUse) = {} THEN {} ELSE {Least(Free(Pilots, IdsInUse))} :
        /\ tab' = [tab EXCEPT ![t] = [after EXCEPT !.socket = s, !.id = id]]
        /\ up' = SendUp(up, s, <<Join(id, after.token, t)>>)
  BY Zenon DEF SendJoin
<1>2. after.id \in Pilots \cup {None} /\ after.token \in Tokens \cup {None}
  BY DEF TabState
<1>3. id \in Pilots \cup {None} /\ (after.token = None => id # None)
  <2>1. CASE after.token # None \/ after.id # None
    BY <1>1, <1>2, <2>1
  <2>2. CASE after.token = None /\ after.id = None
    <3>1. id = Least(Free(Pilots, IdsInUse)) /\ Free(Pilots, IdsInUse) # {}
      BY <1>1, <2>2
    <3>2. Least(Free(Pilots, IdsInUse)) \in Free(Pilots, IdsInUse)
      BY <3>1, LeastIsIn, PilotSessionsAssumption DEF Free
    <3> QED
      BY <3>1, <3>2, Sentinels DEF Free
  <2> QED
    BY <2>1, <2>2
<1>4. Join(id, after.token, t) \in UpMessage
  BY <1>2, <1>3 DEF Join, UpMessage, JoinMessage
<1> DEFINE x == OnSocket(after, s, id)
<1>5. x \in TabState /\ x.socket = s /\ x.acked = after.acked /\ x.token = after.token /\ x.id = id
  BY <1>3, OnSocketFacts
<1>6. tab' = [tab EXCEPT ![t] = x]
  BY <1>1 DEF OnSocket
<1> HIDE DEF x
<1> QED
  BY <1>1, <1>4, <1>5, <1>6

LEMMA SendJoinFacts ==
    ASSUME HoldersInv, NEW t \in Tabs, NEW s \in Sockets, NEW after \in TabState, after.acked = FALSE,
           SendJoin(t, s, after)
    PROVE  \E x \in TabState : /\ tab' = [tab EXCEPT ![t] = x] /\ x.socket = s /\ x.acked = FALSE
                               /\ up'[s] \in Seq(UpMessage) /\ up' = [up EXCEPT ![s] = up'[s]]
                               /\ Joins(up[s]) => Joins(up'[s])
<1>1. PICK x \in TabState : /\ tab' = [tab EXCEPT ![t] = x]
                            /\ x.socket = s /\ x.acked = after.acked /\ x.token = after.token
                            /\ Join(x.id, x.token, t) \in UpMessage
                            /\ up' = SendUp(up, s, <<Join(x.id, x.token, t)>>)
  BY JoinSent
<1> DEFINE j == Join(x.id, x.token, t)
           messages == <<j>>
<1>2. j \in UpMessage /\ j.type = "join"
  BY <1>1 DEF Join
<1> HIDE DEF j
<1>3. messages \in Seq(UpMessage) /\ Joins(messages)
  BY <1>2 DEF Joins
<1>4. up \in [Sockets -> Seq(UpMessage)]
  BY DEF HoldersInv, TypeOK
<1> HIDE DEF messages
<1>5. LET n == SendUp(up, s, messages)
      IN  /\ n[s] \in Seq(UpMessage) /\ n = [up EXCEPT ![s] = n[s]]
          /\ Joins(up[s]) /\ Joins(messages) => Joins(n[s])
  BY <1>3, <1>4, SendUpFacts
<1>6. up' = SendUp(up, s, messages)
  BY <1>1 DEF messages, j
<1> QED
  BY <1>1, <1>3, <1>5, <1>6

\* The queue of a socket whose first message has been read.
LEMMA ReadFacts ==
    ASSUME NEW s \in Sockets, down \in [Sockets -> Seq(DownMessage)], down[s] # <<>>,
           down' = [down EXCEPT ![s] = Tail(@)]
    PROVE  /\ down'[s] \in Seq(DownMessage) /\ down' = [down EXCEPT ![s] = down'[s]]
           /\ \A i \in DOMAIN down'[s] : \E j \in DOMAIN down[s] : down'[s][i] = down[s][j]
           /\ Head(down[s]) \in DownMessage /\ \E j \in DOMAIN down[s] : Head(down[s]) = down[s][j]
<1> DEFINE o == down[s]
           d == down'[s]
<1>1. o \in Seq(DownMessage) /\ o # <<>> /\ d = Tail(o) /\ down' = [down EXCEPT ![s] = d]
  OBVIOUS
<1> HIDE DEF d, o
<1>2. d \in Seq(DownMessage) /\ \A i \in DOMAIN d : i + 1 \in DOMAIN o /\ d[i] = o[i + 1]
  BY <1>1
<1>3. Head(o) \in DownMessage /\ 1 \in DOMAIN o /\ Head(o) = o[1]
  BY <1>1
<1> QED
  BY <1>1, <1>2, <1>3 DEF o, d

\* A tab that has let go of its socket, with what it may have said last and after what
\* it may have read.
LEMMA RetiredKeeps ==
    ASSUME HoldersInv, NEW t \in Tabs, tab[t].socket # None, NEW h \in BOOLEAN,
           tab' = [tab EXCEPT ![t] = SocketGone(t, h)],
           up' = up \/ \E messages \in Seq(UpMessage) : up' = SendUp(up, tab[t].socket, messages),
           \/ down' = down
           \/ down[tab[t].socket] # <<>> /\ down' = [down EXCEPT ![tab[t].socket] = Tail(@)],
           UNCHANGED <<mem, db, opened, open, closing, cut, stored, earned, told>>
    PROVE  HoldersInv'
<1> DEFINE s == tab[t].socket
           x == OffSocket(tab[t], h)
<1>1. /\ tab[t] \in TabState /\ up \in [Sockets -> Seq(UpMessage)] /\ down \in [Sockets -> Seq(DownMessage)]
      /\ stored \in [Tabs -> Tokens \cup {None}] /\ told \in SUBSET Pilots
  BY DEF HoldersInv, TypeOK
<1>2. s \in Sockets
  BY <1>1 DEF TabState
<1>3. x \in TabState /\ x.socket = None /\ x.acked = FALSE
  BY <1>1, OffSocketFacts
<1>4. tab' = [tab EXCEPT ![t] = x]
  BY DEF SocketGone, OffSocket
<1> HIDE DEF x
<1> DEFINE q == up'[s]
<1>5. q \in Seq(UpMessage) /\ up' = [up EXCEPT ![s] = q]
  <2>1. CASE up' = up
    BY <1>1, <1>2, <2>1
  <2>2. ASSUME NEW messages \in Seq(UpMessage), up' = SendUp(up, s, messages)
        PROVE  q \in Seq(UpMessage) /\ up' = [up EXCEPT ![s] = q]
    <3>1. LET n == SendUp(up, s, messages)
          IN  /\ n[s] \in Seq(UpMessage) /\ n = [up EXCEPT ![s] = n[s]]
              /\ Joins(up[s]) /\ Joins(messages) => Joins(n[s])
      BY <1>1, <1>2, SendUpFacts
    <3> QED
      BY <2>2, <3>1
  <2> QED
    BY <2>1, <2>2
<1> DEFINE d == down'[s]
<1>6. /\ d \in Seq(DownMessage) /\ down' = [down EXCEPT ![s] = d]
      /\ \A i \in DOMAIN d : \E j \in DOMAIN down[s] : d[i] = down[s][j]
  <2>1. CASE down' = down
    BY <1>1, <1>2, <2>1
  <2>2. CASE down[s] # <<>> /\ down' = [down EXCEPT ![s] = Tail(@)]
    BY <1>1, <1>2, <2>2, ReadFacts
  <2> QED
    BY <2>1, <2>2
<1> HIDE DEF s, q, d
<1>7. tab[t].socket = s /\ x.socket # s
  BY <1>2, <1>3, Sentinels DEF s
<1>8. stored' \in [Tabs -> Tokens \cup {None}] /\ told' \in SUBSET Pilots
  BY <1>1
<1>9. TabMove(t, x, s)
  BY <1>3, <1>4, <1>5, <1>6, <1>7, <1>8 DEF TabMove, q, d
<1> QED
  BY <1>2, <1>3, <1>9, TabKeeps

LEMMA QuitStep ==
    ASSUME HoldersInv, NEW t \in Tabs, Quit(t)
    PROVE  HoldersInv'
<1> DEFINE messages == (IF tab[t].acked THEN <<Signal("leave")>> ELSE <<>>) \o <<Signal("close")>>
<1>1. messages \in Seq(UpMessage)
  <2>1. Signal("leave") \in UpMessage /\ Signal("close") \in UpMessage
    BY DEF Signal, UpMessage
  <2>2. CASE tab[t].acked
    BY <2>1, <2>2
  <2>3. CASE ~tab[t].acked
    BY <2>1, <2>3
  <2> QED
    BY <2>2, <2>3
<1>2. /\ tab[t].socket # None /\ tab' = [tab EXCEPT ![t] = SocketGone(t, TRUE)]
      /\ up' = SendUp(up, tab[t].socket, messages) /\ down' = down
      /\ UNCHANGED <<mem, db, opened, open, closing, cut, stored, earned, told>>
  BY DEF Quit, Disconnect
<1> HIDE DEF messages
<1> QED
  BY <1>1, <1>2, RetiredKeeps

LEMMA CutNoticed ==
    ASSUME HoldersInv, NEW t \in Tabs, NoticeCut(t)
    PROVE  HoldersInv'
<1>1. /\ tab[t].socket # None /\ tab' = [tab EXCEPT ![t] = SocketGone(t, FALSE)]
      /\ up' = up /\ down' = down
      /\ UNCHANGED <<mem, db, opened, open, closing, cut, stored, earned, told>>
  BY DEF NoticeCut
<1> QED
  BY <1>1, RetiredKeeps

LEMMA CloseReceived ==
    ASSUME HoldersInv, NEW t \in Tabs, ReceiveClose(t)
    PROVE  HoldersInv'
<1> DEFINE messages == <<Signal("close")>>
<1>1. messages \in Seq(UpMessage)
  BY DEF Signal, UpMessage
<1>2. /\ tab[t].socket # None /\ tab' = [tab EXCEPT ![t] = SocketGone(t, FALSE)]
      /\ up' = SendUp(up, tab[t].socket, messages)
      /\ down[tab[t].socket] # <<>> /\ down' = [down EXCEPT ![tab[t].socket] = Tail(@)]
      /\ UNCHANGED <<mem, db, opened, open, closing, cut, stored, earned, told>>
  BY DEF ReceiveClose, HeadIs
<1> HIDE DEF messages
<1> QED
  BY <1>1, <1>2, RetiredKeeps

LEMMA ErrorReceived ==
    ASSUME HoldersInv, NEW t \in Tabs, ReceiveError(t)
    PROVE  HoldersInv'
<1> DEFINE s == tab[t].socket
           messages == <<>> \o <<Signal("close")>>
<1>1. /\ s # None /\ down[s] # <<>> /\ down' = [down EXCEPT ![s] = Tail(@)]
      /\ UNCHANGED <<mem, db, opened, open, closing, cut, stored, earned, told>>
  BY DEF ReceiveError, HeadIs
<1>2. CASE ~tab[t].acked
  <2>1. tab' = [tab EXCEPT ![t] = SocketGone(t, TRUE)] /\ up' = SendUp(up, s, messages)
    BY <1>2 DEF ReceiveError, Disconnect
  <2>2. messages \in Seq(UpMessage)
    BY DEF Signal, UpMessage
  <2> HIDE DEF messages
  <2> QED
    BY <1>1, <2>1, <2>2, RetiredKeeps
<1>3. CASE tab[t].acked
  <2>1. tab' = tab /\ up' = up
    BY <1>3 DEF ReceiveError
  <2>2. /\ tab \in [Tabs -> TabState] /\ down \in [Sockets -> Seq(DownMessage)] /\ up \in [Sockets -> Seq(UpMessage)]
        /\ stored \in [Tabs -> Tokens \cup {None}] /\ told \in SUBSET Pilots /\ TypeOK
    BY DEF HoldersInv, TypeOK
  <2>3. s \in Sockets /\ tab[t] \in TabState
    BY <1>1, <2>2 DEF TabState
  <2>4. Joins(up[s]) /\ tab[t].me # None
    BY <1>1, <1>3, <2>2 DEF HoldersInv, SocketsAreOwned, Joins, TypeOK
  <2>5. ~Sleeps /\ Good(s) => Flown(mem, tab[t].me, s)
    BY <1>1, <1>3 DEF HoldersInv, TabFliesItsShip, Good, Flown
  <2>6. down'[s] \in Seq(DownMessage) /\ \A i \in DOMAIN down'[s] : \E j \in DOMAIN down[s] : down'[s][i] = down[s][j]
    BY <1>1, <2>2, <2>3, ReadFacts
  <2>7. up' = [up EXCEPT ![s] = up'[s]] /\ up'[s] = up[s] /\ up[s] \in Seq(UpMessage)
        /\ down' = [down EXCEPT ![s] = down'[s]] /\ tab' = [tab EXCEPT ![t] = tab[t]]
    BY <1>1, <2>1, <2>2, <2>3
  <2> HIDE DEF s
  <2>8. tab[t].socket = s
    BY DEF s
  <2>9. TabMove(t, tab[t], s)
    BY <1>1, <2>2, <2>4, <2>5, <2>6, <2>7, <2>8 DEF TabMove
  <2> QED
    BY <2>3, <2>9, TabKeeps
<1> QED
  BY <1>2, <1>3

LEMMA JoinedReceived ==
    ASSUME HoldersInv, NEW t \in Tabs, ReceiveJoined(t)
    PROVE  HoldersInv'
<1> DEFINE s == tab[t].socket
           m == Head(down[s])
           x == Acknowledged(tab[t], m.token, m.id)
<1>1. /\ s # None /\ down[s] # <<>> /\ m.type = "joined"
      /\ down' = [down EXCEPT ![s] = Tail(@)]
      /\ told' = told \cup {m.id} /\ Store(t, m.token)
      /\ UNCHANGED <<mem, db, up, opened, open, closing, cut, earned>>
  BY DEF ReceiveJoined, HeadIs
<1>2. /\ tab \in [Tabs -> TabState] /\ down \in [Sockets -> Seq(DownMessage)] /\ up \in [Sockets -> Seq(UpMessage)]
      /\ stored \in [Tabs -> Tokens \cup {None}] /\ told \in SUBSET Pilots
  BY DEF HoldersInv, TypeOK
<1>3. s \in Sockets /\ tab[t] \in TabState
  BY <1>1, <1>2 DEF TabState
<1>4. /\ down'[s] \in Seq(DownMessage) /\ down' = [down EXCEPT ![s] = down'[s]]
      /\ \A i \in DOMAIN down'[s] : \E j \in DOMAIN down[s] : down'[s][i] = down[s][j]
      /\ m \in DownMessage /\ \E j \in DOMAIN down[s] : m = down[s][j]
  BY <1>1, <1>2, <1>3, ReadFacts
<1>5. m.id \in Pilots /\ m.token \in Tokens
  <2> HIDE DEF m
  <2> QED
    BY <1>1, <1>4 DEF DownMessage
<1>6. tab' = [tab EXCEPT ![t] = x]
  BY DEF ReceiveJoined, Acknowledged
<1>7. ~Sleeps /\ Good(s) => Flown(mem, m.id, s)
  <2> SUFFICES ASSUME ~Sleeps, Good(s)
               PROVE  Flown(mem, m.id, s)
    OBVIOUS
  <2>1. AnswersAreTrue
    BY Zenon DEF HoldersInv
  <2>2. \A j \in DOMAIN down[s] : down[s][j].type = "joined" => Flown(mem, down[s][j].id, s)
    BY <1>1, <2>1 DEF AnswersAreTrue, Good, Flown
  <2>3. PICK j \in DOMAIN down[s] : m = down[s][j]
    BY <1>4
  <2>4. down[s][j].type = "joined"
    BY <1>1, <2>3
  <2> HIDE DEF m, s
  <2> QED
    BY <2>2, <2>3, <2>4
<1>8. Joins(up[s])
  BY <1>1 DEF HoldersInv, SocketsAreOwned, Joins
<1> HIDE DEF m, x
<1>9. x \in TabState /\ x.socket = s /\ x.me = m.id
  BY <1>3, <1>5, AcknowledgedFacts DEF x
<1>10. stored' \in [Tabs -> Tokens \cup {None}] /\ told' \in SUBSET Pilots
  BY <1>1, <1>2, <1>5 DEF Store
<1>11. up' = [up EXCEPT ![s] = up'[s]] /\ up'[s] = up[s] /\ up[s] \in Seq(UpMessage) /\ m.id # None
  BY <1>1, <1>2, <1>3, <1>5, Sentinels
<1> HIDE DEF s
<1>12. tab[t].socket = s
  BY DEF s
<1>13. TabMove(t, x, s)
  BY <1>1, <1>4, <1>6, <1>7, <1>8, <1>9, <1>10, <1>11, <1>12 DEF TabMove
<1> QED
  BY <1>3, <1>9, <1>13, TabKeeps

LEMMA ExpiredReceived ==
    ASSUME HoldersInv, NEW t \in Tabs, ReceiveExpired(t)
    PROVE  HoldersInv'
<1> DEFINE s == tab[t].socket
           after == [NoSession EXCEPT !.halted = FALSE]
<1>1. /\ s # None /\ down[s] # <<>> /\ SendJoin(t, s, after)
      /\ down' = [down EXCEPT ![s] = Tail(@)] /\ Store(t, None)
      /\ UNCHANGED <<mem, db, opened, open, closing, cut, earned, told>>
  BY DEF ReceiveExpired, HeadIs
<1>2. /\ tab \in [Tabs -> TabState] /\ down \in [Sockets -> Seq(DownMessage)]
      /\ stored \in [Tabs -> Tokens \cup {None}] /\ told \in SUBSET Pilots
  BY DEF HoldersInv, TypeOK
<1>3. s \in Sockets
  BY <1>1, <1>2 DEF TabState
<1>4. after \in TabState /\ after.acked = FALSE
  BY Afresh
<1>5. Joins(up[s])
  BY <1>1 DEF HoldersInv, SocketsAreOwned, Joins
<1> HIDE DEF after
<1>6. PICK x \in TabState : /\ tab' = [tab EXCEPT ![t] = x] /\ x.socket = s /\ x.acked = FALSE
                            /\ up'[s] \in Seq(UpMessage) /\ up' = [up EXCEPT ![s] = up'[s]]
                            /\ Joins(up[s]) => Joins(up'[s])
  BY <1>1, <1>3, <1>4, SendJoinFacts
<1>7. /\ down'[s] \in Seq(DownMessage) /\ down' = [down EXCEPT ![s] = down'[s]]
      /\ \A i \in DOMAIN down'[s] : \E j \in DOMAIN down[s] : down'[s][i] = down[s][j]
  BY <1>1, <1>2, <1>3, ReadFacts
<1>8. stored' \in [Tabs -> Tokens \cup {None}] /\ told' \in SUBSET Pilots
  BY <1>1, <1>2 DEF Store
<1> HIDE DEF s
<1>9. tab[t].socket = s
  BY DEF s
<1>10. TabMove(t, x, s)
  BY <1>1, <1>5, <1>6, <1>7, <1>8, <1>9 DEF TabMove
<1> QED
  BY <1>3, <1>10, TabKeeps

LEMMA ConnectStep ==
    ASSUME HoldersInv, NEW t \in Tabs, NEW after \in TabState, after.acked = FALSE, Connect(t, after)
    PROVE  HoldersInv'
<1> DEFINE s == opened + 1
<1>1. /\ s \in Sockets /\ opened' = s /\ open' = open \cup {s} /\ SendJoin(t, s, after)
      /\ UNCHANGED <<mem, db, down, closing, cut, stored, earned, told>>
  BY DEF Connect
<1>2. /\ down \in [Sockets -> Seq(DownMessage)] /\ opened \in Nat
      /\ stored \in [Tabs -> Tokens \cup {None}] /\ told \in SUBSET Pilots
  BY PilotSessionsAssumption DEF HoldersInv, TypeOK
<1>3. up[s] = <<>>
  BY <1>1, <1>2 DEF HoldersInv, SocketsAreOwned
<1> HIDE DEF s
<1>4. PICK x \in TabState : /\ tab' = [tab EXCEPT ![t] = x] /\ x.socket = s /\ x.acked = FALSE
                            /\ up'[s] \in Seq(UpMessage) /\ up' = [up EXCEPT ![s] = up'[s]]
                            /\ Joins(up[s]) => Joins(up'[s])
  BY <1>1, SendJoinFacts
<1>5. Joins(up[s])
  BY <1>3 DEF Joins
<1>6. /\ down'[s] \in Seq(DownMessage) /\ down' = [down EXCEPT ![s] = down'[s]]
      /\ \A i \in DOMAIN down'[s] : \E j \in DOMAIN down[s] : down'[s][i] = down[s][j]
  BY <1>1, <1>2
<1>7. s = opened + 1 /\ stored' \in [Tabs -> Tokens \cup {None}] /\ told' \in SUBSET Pilots
  BY <1>1, <1>2 DEF s
<1>8. TabMove(t, x, s)
  BY <1>1, <1>4, <1>5, <1>6, <1>7 DEF TabMove
<1> QED
  BY <1>1, <1>8, TabKeeps

LEMMA SocketOpened ==
    ASSUME HoldersInv, NEW t \in Tabs, Start(t) \/ Reconnect(t)
    PROVE  HoldersInv'
<1>1. tab[t] \in TabState /\ stored[t] \in Tokens \cup {None}
  BY DEF HoldersInv, TypeOK
<1>2. CASE Start(t)
  <2>1. PICK token \in {tab[t].token, stored[t]} :
          Connect(t, [NoSession EXCEPT !.token = token, !.halted = FALSE])
    BY <1>2 DEF Start
  <2>2. token \in Tokens \cup {None}
    BY <1>1 DEF TabState
  <2> DEFINE after == [NoSession EXCEPT !.token = token, !.halted = FALSE]
  <2>3. after \in TabState /\ after.acked = FALSE
    BY <2>2, AfreshWith, Zenon
  <2> HIDE DEF after
  <2>4. Connect(t, after)
    BY <2>1 DEF after
  <2> QED
    BY <2>3, <2>4, ConnectStep
<1>3. CASE Reconnect(t)
  <2>1. Connect(t, tab[t]) /\ tab[t].socket = None
    BY <1>3 DEF Reconnect, Connect
  <2>2. tab[t].acked = FALSE
    BY <1>1, <2>1 DEF HoldersInv, TypeOK, TabState
  <2> QED
    BY <1>1, <2>1, <2>2, ConnectStep
<1> QED
  BY <1>2, <1>3

-----------------------------------------------------------------------------
(* The theorems.                                                           *)

LEMMA HoldersInit ==
    ASSUME Init
    PROVE  HoldersInv
<1>1. mem = Empty(db) /\ db = [p \in Pilots |-> None]
  BY DEF Init
<1>2. db \in Rows
  BY <1>1 DEF Rows
<1>3. Sound(Empty(db), db, [p \in Pilots |-> IF db[p] = None THEN 0 ELSE db[p].cargo], {})
  BY <1>2, EmptySound
<1>4. [p \in Pilots |-> IF db[p] = None THEN 0 ELSE db[p].cargo] = earned
  BY <1>1 DEF Init
<1>5. Server /\ mem \in Memory /\ earned \in [Pilots -> Cargo]
  <2>1. Sound(mem, db, earned, {}) /\ open = {}
    BY <1>1, <1>3, <1>4 DEF Init
  <2> QED
    BY <2>1 DEF Server, Sound
<1>6. NoSession \in TabState /\ NoSession.socket = None /\ NoSession.acked = FALSE
  BY DEF NoSession, TabState
<1>7. TypeOK
  BY <1>2, <1>5, <1>6 DEF Init, TypeOK, Rows
<1>8. RecordsAgree /\ ProgressIsKept /\ TokensAgree
  BY <1>5, <1>7, SoundIs
<1>9. \A t \in Tabs : tab[t].socket = None
  BY <1>6 DEF Init
<1>10. SocketsAreOwned /\ AnswersAreTrue /\ TabFliesItsShip
  BY <1>9 DEF Init, SocketsAreOwned, AnswersAreTrue, TabFliesItsShip
<1> QED
  BY <1>7, <1>8, <1>10 DEF HoldersInv

LEMMA HoldersNext ==
    ASSUME HoldersInv, [Next]_vars
    PROVE  HoldersInv'
<1>1. ASSUME NEW t \in Tabs, Tab(t)
      PROVE  HoldersInv'
  BY <1>1, SocketOpened, QuitStep, JoinedReceived, ExpiredReceived, ErrorReceived, CloseReceived, CutNoticed DEF Tab
<1>2. ASSUME NEW s \in Sockets, HandleJoin(s) \/ Leave(s) \/ CloseEvent(s) \/ Cut(s)
      PROVE  HoldersInv'
  BY <1>2, RejectedStep, FreshStep, LiveStep, SavedStep, LeaveStep, CloseStep, CutStep, ServerStepKeeps
     DEF HandleJoin
<1>3. ASSUME NEW p \in Pilots, GraceEnds(p) \/ Trade(p)
      PROVE  HoldersInv'
  BY <1>3, GraceStep, TradeStep, ServerStepKeeps
<1>4. CASE Frame \/ Checkpoint \/ Crash
  BY <1>4, FrameStep, CheckpointStep, CrashStep, ServerStepKeeps
<1>5. CASE UNCHANGED vars
  BY <1>5, StillStep, ServerStepKeeps
<1> QED
  BY <1>1, <1>2, <1>3, <1>4, <1>5 DEF Next

\* The records of who flies what agree, progress is kept, tokens open their pilots and
\* sockets are owned, in every reachable state: after any order of joins, takeovers,
\* closes, leaves, expiries, cuts, crashes and restores.
THEOREM InvHolds == Spec => []HoldersInv
<1>1. Init => HoldersInv
  BY HoldersInit
<1>2. HoldersInv /\ [Next]_vars => HoldersInv'
  BY HoldersNext
<1> QED
  BY <1>1, <1>2, PTL DEF Spec

\* EntityManager and the two maps of PlayerMotionService always name the same pilots on
\* the same sockets.
THEOREM RecordsAgreeHolds == Spec => []RecordsAgree
<1>1. HoldersInv => RecordsAgree
  BY DEF HoldersInv
<1> QED
  BY <1>1, InvHolds, PTL

\* No removal, takeover, flush, crash or restore loses what a pilot has earned or leaves
\* an older row to be restored from.
THEOREM ProgressIsKeptHolds == Spec => []ProgressIsKept
<1>1. HoldersInv => ProgressIsKept
  BY DEF HoldersInv
<1> QED
  BY <1>1, InvHolds, PTL

\* While every tab keeps sending its poses, a tab that was told it flies a pilot does fly
\* it until its socket is closed, cut or superseded.
THEOREM TabFliesItsShipHolds ==
    ASSUME ~Sleeps
    PROVE  Spec => []TabFliesItsShip
<1>1. HoldersInv => TabFliesItsShip
  BY DEF HoldersInv
<1> QED
  BY <1>1, InvHolds, PTL

-----------------------------------------------------------------------------
(* A pilot can be opened again, while every tab is a browser of its own    *)
(* and waits for its answers, and the process stays up.                    *)

\* The saved rows of both memories open with the same tokens.
SameTokens(m, n) ==
    \A p \in Pilots : /\ n.pilots[p] = None <=> m.pilots[p] = None
                      /\ m.pilots[p] # None => n.pilots[p].tokenHash = m.pilots[p].tokenHash

LEMMA SameSaved ==
    ASSUME NEW m, NEW n, SameTokens(m, n), NEW token
    PROVE  SavedBy(n, token) = SavedBy(m, token)
  BY DEF SameTokens, SavedBy

\* A capture keeps the digest of the row it writes.
LEMMA CaptureKeepsTokens ==
    ASSUME NEW m \in Memory, NEW n, NEW P \in SUBSET Pilots,
           n.pilots = [p \in Pilots |-> IF p \in P THEN CapturedRow(m, p) ELSE m.pilots[p]]
    PROVE  SameTokens(m, n)
<1>1. ASSUME NEW p \in Pilots
      PROVE  /\ CapturedRow(m, p) = None <=> m.pilots[p] = None
             /\ m.pilots[p] # None => CapturedRow(m, p).tokenHash = m.pilots[p].tokenHash
  BY RowType
<1> QED
  BY <1>1 DEF SameTokens

LEMMA FlushKeepsTokens ==
    ASSUME NEW m \in Memory, NEW d \in Rows
    PROVE  SameTokens(m, Flushed(m))
<1>1. Flushed(m).pilots = [p \in Pilots |-> CapturedRow(m, p)]
  BY FlushFacts
<1>2. Flushed(m).pilots = [p \in Pilots |-> IF p \in Pilots THEN CapturedRow(m, p) ELSE m.pilots[p]]
  BY <1>1
<1> QED
  BY <1>2, CaptureKeepsTokens

LEMMA RemovalKeepsTokens ==
    ASSUME NEW m \in Memory, NEW d \in Rows, NEW n \in Memory, SameTokens(m, n),
           NEW w \in AfterRemoval(n, d)
    PROVE  SameTokens(m, w[1])
<1>1. w = <<n, d>> \/ w = <<Flushed(n), Saved(n, d)>>
  BY DEF AfterRemoval
<1>2. SameTokens(n, Flushed(n))
  BY FlushKeepsTokens
<1>3. w[1] = n \/ w[1] = Flushed(n)
  BY <1>1
<1> QED
  BY <1>2, <1>3 DEF SameTokens

LEMMA OneLeaves ==
    ASSUME NEW m \in Memory, NEW d \in Rows, NEW p \in Pilots,
           NEW w \in AfterRemoval(RemovePlayer(m, p), d)
    PROVE  SameTokens(m, w[1])
<1> DEFINE n == RemovePlayer(m, p)
<1>1. n \in Memory /\ n.pilots = [m.pilots EXCEPT ![p] = CapturedRow(m, p)]
  BY RemoveFacts
<1>2. m.pilots \in [Pilots -> SavedRow \cup {None}]
  BY DEF Memory
<1> DEFINE P == {p}
<1> HIDE DEF n
<1>3. P \in SUBSET Pilots /\ n.pilots = [q \in Pilots |-> IF q \in P THEN CapturedRow(m, q) ELSE m.pilots[q]]
  BY <1>1, <1>2
<1> HIDE DEF P
<1>4. SameTokens(m, n)
  BY <1>3, CaptureKeepsTokens
<1> QED
  BY <1>1, <1>4, RemovalKeepsTokens DEF n

\* Pilots whose rows have the same digest are one pilot.
OneEach(m) ==
    \A p, q \in Pilots :
      m.pilots[p] # None /\ m.pilots[q] # None /\ m.pilots[p].tokenHash = m.pilots[q].tokenHash => p = q

LEMMA SavedOnce ==
    ASSUME NEW m, OneEach(m), NEW token, NEW p \in SavedBy(m, token), NEW q \in SavedBy(m, token)
    PROVE  p = q
  BY DEF OneEach, SavedBy

\* No row opens without a token.
LEMMA NoneOpensNothing ==
    ASSUME NEW m \in Memory
    PROVE  SavedBy(m, None) = {}
<1> SUFFICES ASSUME NEW p \in SavedBy(m, None)
             PROVE  FALSE
  OBVIOUS
<1>1. p \in Pilots /\ m.pilots[p] # None /\ m.pilots[p].tokenHash = Digest(None)
  BY DEF SavedBy
<1>2. m.pilots[p] \in SavedRow
  BY <1>1 DEF Memory
<1>3. PICK token \in Tokens : m.pilots[p].tokenHash = Digest(token)
  BY <1>2 DEF SavedRow
<1>4. <<"sha256", None>> = <<"sha256", token>>
  BY <1>1, <1>3 DEF Digest
<1>5. None = token
  BY <1>4
<1> QED
  BY <1>5, Sentinels

-----------------------------------------------------------------------------
(* Turns.                                                                  *)

Joining(s) == \E t \in Tabs : AwaitsReply(t) /\ tab[t].socket = s
NoJoin(q) == \A i \in DOMAIN q : q[i].type # "join"
OnlyCloses(q) == \A i \in DOMAIN q : q[i].type = "close"

\* What a tab that waits may be told from.
LEMMA Waiting ==
    ASSUME ReachableInv, NEW t \in Tabs, AwaitsReply(t)
    PROVE  LET s == tab[t].socket
           IN  /\ s \in Sockets /\ s \in open \ cut
               /\ Welcomed(t) \/ ((Asked(t) \/ Refused(t)) /\ mem.sockets[s] = None /\ s \notin closing)
               /\ \A u \in Tabs \ {t} : tab[u].socket # s
<1>1. /\ tab[t].socket \in Sockets /\ SocketsAreOwned /\ JoinsTakeTurns
  BY Sentinels DEF ReachableInv, HoldersInv, TypeOK, TabState, AwaitsReply
<1> QED
  BY <1>1 DEF SocketsAreOwned, JoinsTakeTurns, AwaitsReply

\* A socket whose tab does not wait.
LEMMA NotJoining ==
    ASSUME ReachableInv, NEW s \in Sockets, ~Joining(s)
    PROVE  NoJoin(up[s]) /\ OnlyCloses(down[s])
<1>1. \A t \in Tabs : AwaitsReply(t) => tab[t].socket # s
  BY DEF Joining
<1> QED
  BY <1>1 DEF ReachableInv, JoinsTakeTurns, NoJoin, OnlyCloses

\* The tab that asked.
LEMMA Asker ==
    ASSUME ReachableInv, NEW s \in Sockets, Inbound(s, "join")
    PROVE  \E t \in Tabs : /\ AwaitsReply(t) /\ tab[t].socket = s /\ Asked(t)
                           /\ mem.sockets[s] = None /\ s \notin closing /\ s \in open \ cut
<1>1. up[s] \in Seq(UpMessage) /\ up[s] # <<>> /\ Head(up[s]).type = "join" /\ s \in open \ cut
  BY DEF Inbound, HeadIs, ReachableInv, HoldersInv, TypeOK
<1>2. 1 \in DOMAIN up[s] /\ up[s][1].type = "join"
  BY <1>1
<1>3. PICK t \in Tabs : AwaitsReply(t) /\ tab[t].socket = s
  BY <1>2, NotJoining DEF NoJoin, Joining
<1>4. Asked(t) /\ mem.sockets[s] = None /\ s \notin closing
  BY <1>1, <1>3, Waiting DEF Welcomed, Refused
<1> QED
  BY <1>1, <1>3, <1>4

-----------------------------------------------------------------------------
(* Steps nobody waits for.                                                 *)

LEMMA QuietReach ==
    ASSUME ReachableInv, HoldersInv', SameTokens(mem, mem'), UNCHANGED <<tab, stored, creator, told>>,
           \A r \in Sockets : mem.sockets[r] = None => mem'.sockets[r] = None,
           \A r \in Sockets : Joining(r) =>
             /\ up'[r] = up[r] /\ down'[r] = down[r]
             /\ r \in open \ cut => r \in open' \ cut'
             /\ r \notin closing => r \notin closing',
           \A r \in Sockets : ~Joining(r) => NoJoin(up'[r]) /\ OnlyCloses(down'[r])
    PROVE  ReachableInv'
<1>1. \A t \in Tabs : AwaitsReply(t)' <=> AwaitsReply(t)
  BY DEF AwaitsReply
<1>2. \A token : SavedBy(mem', token) = SavedBy(mem, token)
  BY SameSaved
<1>3. ASSUME NEW t \in Tabs, AwaitsReply(t)
      PROVE  /\ up'[tab'[t].socket] = up[tab[t].socket] /\ down'[tab'[t].socket] = down[tab[t].socket]
             /\ tab[t].socket \in open' \ cut'
             /\ tab[t].socket \in Sockets
             /\ tab[t].socket \notin closing => tab[t].socket \notin closing'
  BY <1>3, Waiting DEF Joining
<1>4. ASSUME NEW t \in Tabs, AwaitsReply(t)
      PROVE  /\ Asked(t)' <=> Asked(t)
             /\ Refused(t)' <=> Refused(t)
             /\ Welcomed(t)' <=> Welcomed(t)
             /\ Head(down[tab[t].socket])' = Head(down[tab[t].socket])
  <2>1. /\ up'[tab'[t].socket] = up[tab[t].socket] /\ down'[tab'[t].socket] = down[tab[t].socket]
        /\ tab' = tab
    BY <1>3, <1>4
  <2>2. Asked(t)' <=> Asked(t)
    BY <2>1 DEF Asked
  <2>3. Refused(t)' <=> Refused(t)
    BY <1>2, <2>1 DEF Refused
  <2>4. Welcomed(t)' <=> Welcomed(t)
    BY <2>1 DEF Welcomed
  <2> QED
    BY <2>1, <2>2, <2>3, <2>4
<1>5. JoinsTakeTurns'
  <2>1. ASSUME NEW t \in Tabs, AwaitsReply(t)'
        PROVE  LET s == tab[t].socket
               IN  /\ s \in open' \ cut'
                   /\ Welcomed(t)' \/ ((Asked(t)' \/ Refused(t)') /\ mem'.sockets[s] = None /\ s \notin closing')
    <3>1. AwaitsReply(t)
      BY <1>1, <2>1
    <3>2. Welcomed(t) \/ ((Asked(t) \/ Refused(t)) /\ mem.sockets[tab[t].socket] = None
                          /\ tab[t].socket \notin closing)
      BY <3>1, Waiting
    <3> QED
      BY <1>3, <1>4, <3>1, <3>2
  <2>2. ASSUME NEW s \in Sockets, \A t \in Tabs : AwaitsReply(t)' => tab[t].socket # s
        PROVE  NoJoin(up'[s]) /\ OnlyCloses(down'[s])
    BY <1>1, <2>2 DEF Joining
  <2> QED
    BY <2>1, <2>2 DEF JoinsTakeTurns, NoJoin, OnlyCloses
<1>6. TokensReachTheirTab'
  <2>1. TokensReachTheirTab
    BY DEF ReachableInv
  <2>2. OneEach(mem)'
    BY <2>1 DEF TokensReachTheirTab, OneEach, SameTokens
  <2>3. ASSUME NEW t \in Tabs, AwaitsReply(t)', Welcomed(t)'
        PROVE  LET m == Head(down'[tab[t].socket])
               IN  m.id \in SavedBy(mem', m.token) /\ creator[m.id] = t
    BY <1>1, <1>2, <1>4, <2>1, <2>3 DEF TokensReachTheirTab
  <2>4. ASSUME NEW t \in Tabs, NEW p \in told, creator[p] = t
        PROVE  IF AwaitsReply(t)' /\ Welcomed(t)' THEN Head(down'[tab[t].socket]).id = p
               ELSE p \in SavedBy(mem', tab[t].token)
    BY <1>1, <1>2, <1>4, <2>1, <2>4 DEF TokensReachTheirTab
  <2> QED
    BY <1>2, <2>1, <2>2, <2>3, <2>4 DEF TokensReachTheirTab, OneEach
<1> QED
  BY <1>5, <1>6 DEF ReachableInv

LEMMA StillReach ==
    ASSUME ReachableInv, HoldersInv', SameTokens(mem, mem'),
           UNCHANGED <<up, down, open, closing, cut, tab, stored, creator, told>>,
           \A r \in Sockets : mem.sockets[r] = None => mem'.sockets[r] = None
    PROVE  ReachableInv'
<1>1. \A r \in Sockets : ~Joining(r) => NoJoin(up'[r]) /\ OnlyCloses(down'[r])
  BY NotJoining
<1> QED
  BY <1>1, QuietReach

LEMMA FlightReach ==
    ASSUME ReachableInv, HoldersInv', NEW p \in Pilots, GraceEnds(p) \/ Trade(p)
    PROVE  ReachableInv'
<1>1. mem \in Memory /\ UNCHANGED <<up, down, open, closing, cut, tab, stored, creator, told>>
  BY DEF ReachableInv, HoldersInv, TypeOK, GraceEnds, Trade
<1>2. mem'.pilots = mem.pilots /\ mem'.sockets = mem.sockets
  <2>1. CASE GraceEnds(p)
    <3>1. mem' = [mem EXCEPT !.session[p].grace = "over"]
      BY <2>1 DEF GraceEnds
    <3> QED
      BY <1>1, <3>1 DEF Memory
  <2>2. CASE Trade(p)
    <3>1. PICK c \in Cargo : mem' = [mem EXCEPT !.actor[p].cargo = c]
      BY <2>2 DEF Trade
    <3> QED
      BY <1>1, <3>1 DEF Memory
  <2> QED
    BY <2>1, <2>2
<1>3. SameTokens(mem, mem')
  BY <1>2 DEF SameTokens
<1> QED
  BY <1>1, <1>2, <1>3, StillReach

LEMMA FrameReach ==
    ASSUME ReachableInv, HoldersInv', Frame
    PROVE  ReachableInv'
<1>1. /\ mem \in Memory /\ db \in Rows
      /\ UNCHANGED <<up, down, open, closing, cut, tab, stored, creator, told>>
  BY DEF ReachableInv, HoldersInv, TypeOK, Rows, Frame
<1>2. PICK stale \in IF Sleeps THEN SUBSET Present(mem) ELSE {{}} :
        \E w \in AfterRemoval(RemoveAll(mem, stale \cup Expired(mem)), db) : mem' = w[1]
  BY DEF Frame
<1> DEFINE gone == stale \cup Expired(mem)
           n == RemoveAll(mem, gone)
<1>3. gone \in SUBSET Pilots
  BY <1>2 DEF Present, Expired
<1>4. PICK w \in AfterRemoval(n, db) : mem' = w[1]
  BY <1>2
<1> HIDE DEF gone
<1>5. /\ n \in Memory
      /\ n.pilots = [p \in Pilots |-> IF p \in gone THEN CapturedRow(mem, p) ELSE mem.pilots[p]]
      /\ n.sockets = [s \in Sockets |->
                        IF \E p \in gone : mem.session[p] # None /\ s = mem.session[p].socket
                        THEN None ELSE mem.sockets[s]]
  BY <1>1, <1>3, RemoveAllFacts
<1> HIDE DEF n
<1>6. SameTokens(mem, n)
  BY <1>1, <1>3, <1>5, CaptureKeepsTokens
<1>7. SameTokens(mem, mem')
  BY <1>1, <1>4, <1>5, <1>6, RemovalKeepsTokens
<1>8. mem'.sockets = n.sockets
  <2>1. w[1] = n \/ w[1] = Flushed(n)
    BY <1>4 DEF AfterRemoval
  <2>2. SameFlights(n, Flushed(n))
    BY <1>1, <1>5, FlushFacts
  <2> QED
    BY <1>4, <2>1, <2>2 DEF SameFlights
<1>9. \A r \in Sockets : mem.sockets[r] = None => mem'.sockets[r] = None
  BY <1>5, <1>8
<1> QED
  BY <1>1, <1>7, <1>9, StillReach

LEMMA CheckpointReach ==
    ASSUME ReachableInv, HoldersInv', Checkpoint
    PROVE  ReachableInv'
<1>1. /\ mem \in Memory /\ db \in Rows /\ mem' = Flushed(mem)
      /\ UNCHANGED <<up, down, open, closing, cut, tab, stored, creator, told>>
  BY DEF ReachableInv, HoldersInv, TypeOK, Rows, Checkpoint
<1>2. SameTokens(mem, mem') /\ SameFlights(mem, mem')
  BY <1>1, FlushKeepsTokens, FlushFacts
<1> QED
  BY <1>1, <1>2, StillReach DEF SameFlights

\* One pilot leaves, with the flush that may bring, or nobody does.
LEMMA DepartureKeeps ==
    ASSUME NEW m \in Memory, NEW d \in Rows, NEW n,
           n = m \/ \E p \in Pilots : \E w \in AfterRemoval(RemovePlayer(m, p), d) : n = w[1]
    PROVE  SameTokens(m, n) /\ \A r \in Sockets : m.sockets[r] = None => n.sockets[r] = None
<1>1. CASE n = m
  BY <1>1 DEF SameTokens
<1>2. ASSUME NEW p \in Pilots, NEW w \in AfterRemoval(RemovePlayer(m, p), d), n = w[1]
      PROVE  SameTokens(m, n) /\ \A r \in Sockets : m.sockets[r] = None => n.sockets[r] = None
  <2> DEFINE g == RemovePlayer(m, p)
  <2>1. SameTokens(m, n)
    BY <1>2, OneLeaves
  <2>2. g \in Memory /\ \A r \in Sockets : m.sockets[r] = None => g.sockets[r] = None
    <3>1. /\ g \in Memory
          /\ g.sockets = [r \in Sockets |-> IF m.session[p] # None /\ r = m.session[p].socket
                                            THEN None ELSE m.sockets[r]]
      BY RemoveFacts
    <3> HIDE DEF g
    <3> QED
      BY <3>1
  <2> HIDE DEF g
  <2>3. n = g \/ n = Flushed(g)
    BY <1>2 DEF AfterRemoval, g
  <2>4. SameFlights(g, Flushed(g))
    BY <2>2, FlushFacts
  <2> QED
    BY <2>1, <2>2, <2>3, <2>4 DEF SameFlights
<1> QED
  BY <1>1, <1>2

LEMMA LeaveReach ==
    ASSUME ReachableInv, HoldersInv', NEW s \in Sockets, Leave(s)
    PROVE  ReachableInv'
<1>1. /\ mem \in Memory /\ db \in Rows /\ up \in [Sockets -> Seq(UpMessage)]
      /\ HeadIs(up[s], "leave") /\ Inbound(s, "leave") /\ up' = [up EXCEPT ![s] = Tail(@)]
      /\ UNCHANGED <<down, open, closing, cut, tab, stored, creator, told>>
  BY DEF ReachableInv, HoldersInv, TypeOK, Rows, Leave, Inbound, Consume
<1>2. ~Joining(s)
  <2>1. HoldersInv
    BY DEF ReachableInv
  <2> QED
    BY <1>1, <2>1, LetGo DEF Joining, Held
<1>3. mem' = mem \/ \E p \in Pilots : \E w \in AfterRemoval(RemovePlayer(mem, p), db) : mem' = w[1]
  <2> DEFINE flown == PlayersBySocket(mem, s)
  <2>1. CASE flown = {}
    BY <2>1 DEF Leave
  <2>2. CASE flown # {}
    <3>1. \E w \in AfterRemoval(RemovePlayer(mem, CHOOSE p \in flown : TRUE), db) : mem' = w[1]
      BY <2>2 DEF Leave
    <3>2. (CHOOSE p \in flown : TRUE) \in Pilots
      BY <2>2 DEF PlayersBySocket, Present
    <3> QED
      BY <3>1, <3>2
  <2> QED
    BY <2>1, <2>2
<1>4. SameTokens(mem, mem') /\ \A r \in Sockets : mem.sockets[r] = None => mem'.sockets[r] = None
  BY <1>1, <1>3, DepartureKeeps
<1>5. NoJoin(up'[s])
  <2> DEFINE q == up[s]
  <2>1. q \in Seq(UpMessage) /\ q # <<>> /\ NoJoin(q) /\ up'[s] = Tail(q)
    BY <1>1, <1>2, NotJoining DEF HeadIs
  <2> HIDE DEF q
  <2>2. \A i \in DOMAIN Tail(q) : i + 1 \in DOMAIN q /\ Tail(q)[i] = q[i + 1]
    BY <2>1
  <2> QED
    BY <2>1, <2>2 DEF NoJoin
<1>6. \A r \in Sockets \ {s} : up'[r] = up[r]
  BY <1>1
<1>7. \A r \in Sockets : ~Joining(r) => NoJoin(up'[r]) /\ OnlyCloses(down'[r])
  BY <1>1, <1>5, <1>6, NotJoining
<1> QED
  BY <1>1, <1>2, <1>4, <1>6, <1>7, QuietReach

LEMMA CloseReach ==
    ASSUME ReachableInv, HoldersInv', NEW s \in Sockets, CloseEvent(s)
    PROVE  ReachableInv'
<1>1. /\ HoldersInv /\ TypeOK /\ mem \in Memory /\ db \in Rows
      /\ open' = open \ {s} /\ closing' = closing \ {s} /\ cut' = cut \ {s}
      /\ up' = [up EXCEPT ![s] = <<>>] /\ down' = [down EXCEPT ![s] = <<>>]
      /\ s \in open /\ (s \in cut \/ HeadIs(up[s], "close"))
      /\ UNCHANGED <<tab, stored, creator, told>>
  BY DEF ReachableInv, HoldersInv, TypeOK, Rows, CloseEvent
<1>2. ~Joining(s)
  <2>1. CASE s \in cut
    BY <2>1, Waiting DEF Joining
  <2>2. CASE s \notin cut
    <3>1. Inbound(s, "close")
      BY <1>1, <2>2 DEF Inbound
    <3> QED
      BY <1>1, <3>1, LetGo DEF Joining, Held
  <2> QED
    BY <2>1, <2>2
<1>3. SameTokens(mem, mem') /\ \A r \in Sockets : mem.sockets[r] = None => mem'.sockets[r] = None
  <2> DEFINE p == Owner(mem, s)
             flown == PlayersBySocket(mem, s)
  <2>1. CASE p # None
    <3>1. mem' = TransportClosed(mem, p, s)
      BY <2>1 DEF CloseEvent
    <3>2. mem'.pilots = mem.pilots /\ mem'.sockets = [mem.sockets EXCEPT ![s] = None]
      BY <1>1, <3>1 DEF TransportClosed, Memory
    <3> QED
      BY <1>1, <3>2 DEF SameTokens, Memory
  <2>2. CASE p = None /\ flown = {}
    <3>1. mem' = mem
      BY <2>2 DEF CloseEvent
    <3> QED
      BY <3>1 DEF SameTokens
  <2>3. CASE p = None /\ flown # {}
    <3>1. \E w \in AfterRemoval(RemovePlayer(mem, CHOOSE q \in flown : TRUE), db) : mem' = w[1]
      BY <2>3 DEF CloseEvent
    <3>2. (CHOOSE q \in flown : TRUE) \in Pilots
      BY <2>3 DEF PlayersBySocket, Present
    <3> QED
      BY <1>1, <3>1, <3>2, DepartureKeeps
  <2> QED
    BY <2>1, <2>2, <2>3
<1>4. /\ up'[s] = <<>> /\ down'[s] = <<>>
      /\ \A r \in Sockets \ {s} : up'[r] = up[r] /\ down'[r] = down[r]
  BY <1>1 DEF TypeOK
<1>5. \A r \in Sockets : ~Joining(r) => NoJoin(up'[r]) /\ OnlyCloses(down'[r])
  BY <1>4, NotJoining DEF NoJoin, OnlyCloses
<1> QED
  BY <1>1, <1>2, <1>3, <1>4, <1>5, QuietReach

LEMMA CutReach ==
    ASSUME ReachableInv, HoldersInv', ~LosesReplies, NEW s \in Sockets, Cut(s)
    PROVE  ReachableInv'
<1>1. /\ TypeOK /\ mem' = mem /\ cut' = cut \cup {s} /\ open' = open /\ closing' = closing
      /\ up' = [up EXCEPT ![s] = <<>>] /\ down' = [down EXCEPT ![s] = <<>>]
      /\ UNCHANGED <<tab, stored, creator, told>>
  BY DEF ReachableInv, HoldersInv, Cut
<1>2. ~Joining(s)
  BY DEF Cut, MayLose, Joining
<1>3. /\ up'[s] = <<>> /\ down'[s] = <<>>
      /\ \A r \in Sockets \ {s} : up'[r] = up[r] /\ down'[r] = down[r]
  BY <1>1 DEF TypeOK
<1>4. \A r \in Sockets : ~Joining(r) => NoJoin(up'[r]) /\ OnlyCloses(down'[r])
  BY <1>3, NotJoining DEF NoJoin, OnlyCloses
<1>5. SameTokens(mem, mem')
  BY <1>1 DEF SameTokens
<1> QED
  BY <1>1, <1>2, <1>3, <1>4, <1>5, QuietReach

-----------------------------------------------------------------------------
(* The answer to a join.                                                   *)

\* Tab t has had its answer m on socket s, and no other tab that waits has had one.
Turned(t, s, m) ==
    /\ JoinsTakeTurns'
    /\ Welcomed(t)' <=> m.type = "joined"
    /\ Head(down'[s]) = m
    /\ \A u \in Tabs \ {t} : AwaitsReply(u) =>
         /\ Welcomed(u)' <=> Welcomed(u)
         /\ Welcomed(u) => Head(down'[tab[u].socket]) = Head(down[tab[u].socket])

\* Socket r of another tab, which a takeover may have closed.
Bystander(r) ==
    /\ down'[r] \in {down[r], Append(down[r], Signal("close"))}
    /\ mem.sockets[r] = None =>
         mem'.sockets[r] = None /\ down'[r] = down[r] /\ (r \notin closing => r \notin closing')

Refusal(t, s, m) ==
    /\ m = Signal("error") \/ (m = Signal("sessionExpired") /\ SavedBy(mem', tab[t].token) = {})
    /\ mem'.sockets[s] = None /\ s \notin closing'

LEMMA WaitsElsewhere ==
    ASSUME ReachableInv, NEW u \in Tabs, AwaitsReply(u), NEW s \in Sockets, tab[u].socket # s,
           UNCHANGED <<open, cut, tab>>, up' = [up EXCEPT ![s] = <<>>],
           \A r \in Sockets \ {s} : Bystander(r),
           SavedBy(mem', tab[u].token) \subseteq SavedBy(mem, tab[u].token)
    PROVE  LET r == tab[u].socket
           IN  /\ Welcomed(u)' <=> Welcomed(u)
               /\ Welcomed(u) => Head(down'[r]) = Head(down[r])
               /\ Welcomed(u)' \/ ((Asked(u)' \/ Refused(u)') /\ mem'.sockets[r] = None /\ r \notin closing')
<1> DEFINE r == tab[u].socket
<1>1. /\ r \in Sockets \ {s}
      /\ Welcomed(u) \/ ((Asked(u) \/ Refused(u)) /\ mem.sockets[r] = None /\ r \notin closing)
  BY Waiting
<1>2. up \in [Sockets -> Seq(UpMessage)] /\ down[r] \in Seq(DownMessage)
  BY <1>1 DEF ReachableInv, HoldersInv, TypeOK
<1>3. up'[r] = up[r] /\ Bystander(r) /\ tab'[u].socket = r /\ tab'[u] = tab[u]
  BY <1>1, <1>2
<1> HIDE DEF r
<1>4. tab[u].socket = r
  BY DEF r
<1>5. CASE Welcomed(u)
  <2>1. /\ up[r] = <<>> /\ down[r] # <<>> /\ Head(down[r]).type = "joined"
        /\ \A i \in DOMAIN down[r] : i > 1 => down[r][i].type = "close"
    BY <1>4, <1>5 DEF Welcomed
  <2>2. CASE down'[r] = down[r]
    BY <1>3, <1>4, <1>5, <2>1, <2>2 DEF Welcomed
  <2>3. CASE down'[r] = Append(down[r], Signal("close"))
    <3> DEFINE q == down[r]
               m == Signal("close")
    <3>1. q \in Seq(DownMessage) /\ q # <<>> /\ m.type = "close" /\ down'[r] = Append(q, m)
      BY <1>2, <2>1, <2>3 DEF Signal
    <3>2. \A i \in DOMAIN q : i > 1 => q[i].type = "close"
      BY <2>1
    <3> HIDE DEF q, m
    <3>3. Append(q, m) # <<>> /\ Head(Append(q, m)) = Head(q)
      BY <3>1
    <3>4. \A i \in DOMAIN Append(q, m) : (i \in DOMAIN q /\ Append(q, m)[i] = q[i]) \/ Append(q, m)[i] = m
      BY <3>1
    <3>5. \A i \in DOMAIN Append(q, m) : i > 1 => Append(q, m)[i].type = "close"
      BY <3>1, <3>2, <3>4
    <3>6. Head(down'[r]) = Head(down[r]) /\ down'[r] # <<>>
      BY <3>1, <3>3 DEF q
    <3>7. \A i \in DOMAIN down'[r] : i > 1 => down'[r][i].type = "close"
      BY <3>1, <3>5
    <3>8. Welcomed(u)'
      BY <1>3, <2>1, <3>6, <3>7 DEF Welcomed
    <3> QED
      BY <1>4, <1>5, <3>6, <3>8
  <2> QED
    BY <1>3, <2>2, <2>3 DEF Bystander
<1>6. CASE ~Welcomed(u)
  <2>1. /\ down'[r] = down[r] /\ mem'.sockets[r] = None /\ r \notin closing'
    BY <1>1, <1>3, <1>6 DEF Bystander
  <2>2. ~Welcomed(u)'
    BY <1>3, <1>4, <1>6, <2>1 DEF Welcomed
  <2>3. Asked(u) => Asked(u)'
    BY <1>3, <1>4, <2>1 DEF Asked
  <2>4. Refused(u) => Refused(u)'
    BY <1>3, <1>4, <2>1 DEF Refused
  <2> QED
    BY <1>1, <1>4, <1>6, <2>1, <2>2, <2>3, <2>4
<1> QED
  BY <1>5, <1>6

LEMMA TurnTaken ==
    ASSUME ReachableInv, NEW t \in Tabs, NEW s \in Sockets, tab[t].socket = s, AwaitsReply(t), NEW m,
           UNCHANGED <<open, cut, tab>>,
           up' = [up EXCEPT ![s] = <<>>], down'[s] = <<m>>,
           m.type = "joined" \/ Refusal(t, s, m),
           \A r \in Sockets \ {s} : Bystander(r),
           \A u \in Tabs \ {t} : SavedBy(mem', tab[u].token) \subseteq SavedBy(mem, tab[u].token)
    PROVE  Turned(t, s, m)
<1>1. up \in [Sockets -> Seq(UpMessage)] /\ down \in [Sockets -> Seq(DownMessage)]
  BY DEF ReachableInv, HoldersInv, TypeOK
<1>2. /\ up'[s] = <<>> /\ down'[s] # <<>> /\ Head(down'[s]) = m
      /\ \A i \in DOMAIN down'[s] : ~(i > 1)
      /\ \A r \in Sockets \ {s} : up'[r] = up[r]
  BY <1>1
<1>3. Welcomed(t)' <=> m.type = "joined"
  BY <1>2 DEF Welcomed
<1>4. Refusal(t, s, m) => Refused(t)'
  BY <1>2 DEF Refusal, Refused
<1>5. s \in open \ cut /\ \A u \in Tabs \ {t} : tab[u].socket # s
  BY Waiting
<1>6. \A u \in Tabs : AwaitsReply(u)' <=> AwaitsReply(u)
  BY DEF AwaitsReply
<1>7. ASSUME NEW u \in Tabs \ {t}, AwaitsReply(u)
      PROVE  LET r == tab[u].socket
             IN  /\ Welcomed(u)' <=> Welcomed(u)
                 /\ Welcomed(u) => Head(down'[r]) = Head(down[r])
                 /\ Welcomed(u)' \/ ((Asked(u)' \/ Refused(u)') /\ mem'.sockets[r] = None /\ r \notin closing')
                 /\ r \in open \ cut
  BY <1>5, <1>7, Waiting, WaitsElsewhere
<1>8. ASSUME NEW r \in Sockets, \A u \in Tabs : AwaitsReply(u) => tab[u].socket # r
      PROVE  NoJoin(up'[r]) /\ OnlyCloses(down'[r])
  <2>1. r # s /\ NoJoin(up[r]) /\ OnlyCloses(down[r]) /\ down[r] \in Seq(DownMessage)
    BY <1>1, <1>8, NotJoining DEF Joining
  <2>2. NoJoin(up'[r]) /\ down'[r] \in {down[r], Append(down[r], Signal("close"))}
    BY <1>2, <2>1 DEF Bystander
  <2> DEFINE q == down[r]
             c == Signal("close")
  <2>3. c.type = "close" /\ q \in Seq(DownMessage) /\ OnlyCloses(q)
    BY <2>1 DEF Signal
  <2> HIDE DEF q, c
  <2>4. OnlyCloses(Append(q, c))
    BY <2>3 DEF OnlyCloses
  <2> QED
    BY <2>2, <2>3, <2>4 DEF q, c
<1>9. JoinsTakeTurns'
  <2>1. ASSUME NEW u \in Tabs, AwaitsReply(u)'
        PROVE  LET r == tab[u].socket
               IN  /\ r \in open' \ cut'
                   /\ Welcomed(u)' \/ ((Asked(u)' \/ Refused(u)') /\ mem'.sockets[r] = None /\ r \notin closing')
    <3>1. CASE u = t
      BY <1>3, <1>4, <1>5, <3>1 DEF Refusal
    <3>2. CASE u # t
      BY <1>6, <1>7, <2>1, <3>2
    <3> QED
      BY <3>1, <3>2
  <2>2. ASSUME NEW r \in Sockets, \A u \in Tabs : AwaitsReply(u)' => tab[u].socket # r
        PROVE  NoJoin(up'[r]) /\ OnlyCloses(down'[r])
    BY <1>6, <1>8, <2>2
  <2> QED
    BY <2>1, <2>2 DEF JoinsTakeTurns, NoJoin, OnlyCloses
<1> QED
  BY <1>2, <1>3, <1>7, <1>9 DEF Turned

\* The answer names a pilot the tab's token opens, or nobody.
LEMMA KnownAnswer ==
    ASSUME ReachableInv, NEW t \in Tabs, NEW s \in Sockets, tab[t].socket = s, AwaitsReply(t), Asked(t), NEW m,
           Turned(t, s, m), UNCHANGED <<tab, stored, creator, told>>, SameTokens(mem, mem'),
           m.type = "joined" => m.id \in SavedBy(mem, tab[t].token) /\ m.token = tab[t].token
    PROVE  TokensReachTheirTab'
<1>1. TokensReachTheirTab /\ ~Welcomed(t)
  BY DEF ReachableInv, Asked, Welcomed
<1>2. \A token : SavedBy(mem', token) = SavedBy(mem, token)
  BY SameSaved
<1>3. \A u \in Tabs : AwaitsReply(u)' <=> AwaitsReply(u)
  BY DEF AwaitsReply
<1>4. OneEach(mem) /\ OneEach(mem')
  BY <1>1 DEF TokensReachTheirTab, OneEach, SameTokens
<1>5. ASSUME NEW u \in Tabs, AwaitsReply(u)', Welcomed(u)'
      PROVE  LET a == Head(down'[tab[u].socket])
             IN  a.id \in SavedBy(mem', a.token) /\ creator[a.id] = u
  <2>1. CASE u = t
    BY <1>1, <1>2, <1>5, <2>1 DEF Turned, TokensReachTheirTab
  <2>2. CASE u # t
    BY <1>1, <1>2, <1>3, <1>5, <2>2 DEF Turned, TokensReachTheirTab
  <2> QED
    BY <2>1, <2>2
<1>6. ASSUME NEW u \in Tabs, NEW p \in told, creator[p] = u
      PROVE  IF AwaitsReply(u)' /\ Welcomed(u)' THEN Head(down'[tab[u].socket]).id = p
             ELSE p \in SavedBy(mem', tab[u].token)
  <2>1. CASE u = t
    <3>1. p \in SavedBy(mem, tab[t].token)
      BY <1>1, <1>6, <2>1 DEF TokensReachTheirTab
    <3>2. m.type = "joined" => m.id = p
      BY <1>4, <3>1, SavedOnce
    <3> QED
      BY <1>2, <2>1, <3>1, <3>2 DEF Turned
  <2>2. CASE u # t
    BY <1>1, <1>2, <1>3, <1>6, <2>2 DEF Turned, TokensReachTheirTab
  <2> QED
    BY <2>1, <2>2
<1> QED
  BY <1>1, <1>2, <1>4, <1>5, <1>6 DEF TokensReachTheirTab, OneEach

LEMMA DigestsDiffer ==
    ASSUME NEW a, NEW b, Digest(a) = Digest(b)
    PROVE  a = b
<1>1. <<"sha256", a>> = <<"sha256", b>>
  BY DEF Digest
<1> QED
  BY <1>1

\* Pilot p has a new token, and otherwise the rows are as they were.
NewlyOpens(m, n, p, token) ==
    /\ n.pilots[p] # None /\ n.pilots[p].tokenHash = Digest(token)
    /\ \A q \in Pilots \ {p} : /\ n.pilots[q] = None <=> m.pilots[q] = None
                               /\ m.pilots[q] # None => n.pilots[q].tokenHash = m.pilots[q].tokenHash
    /\ \A q \in Pilots : m.pilots[q] # None => m.pilots[q].tokenHash # Digest(token)

LEMMA NewlySaved ==
    ASSUME NEW m, NEW n, NEW p \in Pilots, NEW token, NewlyOpens(m, n, p, token)
    PROVE  /\ SavedBy(m, token) = {}
           /\ SavedBy(n, token) = {p}
           /\ \A other : other # token => SavedBy(n, other) = SavedBy(m, other) \ {p}
           /\ OneEach(m) => OneEach(n)
<1>1. SavedBy(m, token) = {} /\ SavedBy(n, token) = {p}
  BY DEF NewlyOpens, SavedBy
<1>2. ASSUME NEW other, other # token
      PROVE  SavedBy(n, other) = SavedBy(m, other) \ {p}
  <2>1. Digest(other) # Digest(token)
    BY <1>2, DigestsDiffer
  <2> QED
    BY <2>1 DEF NewlyOpens, SavedBy
<1>3. ASSUME OneEach(m), NEW q \in Pilots, NEW r \in Pilots,
             n.pilots[q] # None, n.pilots[r] # None, n.pilots[q].tokenHash = n.pilots[r].tokenHash
      PROVE  q = r
  <2>1. CASE q = p \/ r = p
    BY <1>3, <2>1 DEF NewlyOpens
  <2>2. CASE q # p /\ r # p
    BY <1>3, <2>2 DEF NewlyOpens, OneEach
  <2> QED
    BY <2>1, <2>2
<1> QED
  BY <1>1, <1>2, <1>3 DEF OneEach

\* The answer names a new pilot, or the tab's own under a new token.
LEMMA NewAnswer ==
    ASSUME ReachableInv, NEW t \in Tabs, NEW s \in Sockets, tab[t].socket = s, AwaitsReply(t), Asked(t),
           NEW p \in Pilots, NEW token,
           Turned(t, s, Joined(p, token)), UNCHANGED <<tab, stored, told>>,
           creator' = [creator EXCEPT ![p] = t],
           NewlyOpens(mem, mem', p, token),
           \A u \in Tabs : tab[u].token # token,
           (mem.pilots[p] = None /\ tab[t].token = None) \/ p \in SavedBy(mem, tab[t].token)
    PROVE  TokensReachTheirTab'
<1>1. TokensReachTheirTab /\ ~Welcomed(t) /\ mem \in Memory
  BY DEF ReachableInv, Asked, Welcomed, HoldersInv, TypeOK
<1>2. creator \in [Pilots -> Tabs \cup {None}] /\ OneEach(mem)
  BY <1>1 DEF TokensReachTheirTab, OneEach
<1>3. /\ SavedBy(mem, token) = {}
      /\ SavedBy(mem', token) = {p}
      /\ \A other : other # token => SavedBy(mem', other) = SavedBy(mem, other) \ {p}
      /\ OneEach(mem')
  BY <1>2, NewlySaved
<1>4. \A u \in Tabs : AwaitsReply(u)' <=> AwaitsReply(u)
  BY DEF AwaitsReply
<1>5. /\ Joined(p, token).type = "joined" /\ Joined(p, token).id = p /\ Joined(p, token).token = token
  BY DEF Joined
<1>6. Welcomed(t)' /\ Head(down'[s]) = Joined(p, token)
  BY <1>5 DEF Turned
\* What another tab's pilot has to do with p.
<1>7. ASSUME NEW q \in Pilots, NEW other, q \in SavedBy(mem, other), creator[q] # t
      PROVE  q # p /\ creator'[q] = creator[q] /\ q \in SavedBy(mem', other)
  <2>1. mem.pilots[q] # None
    BY <1>7 DEF SavedBy
  <2>2. q # p
    BY <1>1, <1>7, <2>1 DEF TokensReachTheirTab
  <2>3. other # token
    BY <1>3, <1>7
  <2> QED
    BY <1>2, <1>3, <1>7, <2>2, <2>3
<1>8. creator'[p] = t /\ creator' \in [Pilots -> Tabs \cup {None}]
  BY <1>2
<1>9. ASSUME NEW u \in Tabs, NEW q \in SavedBy(mem', tab[u].token)
      PROVE  creator'[q] = u
  <2>1. q \in SavedBy(mem, tab[u].token) /\ q # p /\ q \in Pilots
    BY <1>3, <1>9 DEF SavedBy
  <2>2. creator[q] = u
    BY <1>1, <2>1 DEF TokensReachTheirTab
  <2> QED
    BY <1>2, <2>1, <2>2
<1>10. ASSUME NEW u \in Tabs, AwaitsReply(u)', Welcomed(u)'
       PROVE  LET a == Head(down'[tab[u].socket])
              IN  a.id \in SavedBy(mem', a.token) /\ creator'[a.id] = u
  <2>1. CASE u = t
    BY <1>3, <1>5, <1>6, <1>8, <2>1
  <2>2. CASE u # t
    <3> DEFINE a == Head(down[tab[u].socket])
    <3>1. Head(down'[tab[u].socket]) = a /\ AwaitsReply(u) /\ Welcomed(u)
      BY <1>4, <1>10, <2>2 DEF Turned
    <3>2. a.id \in SavedBy(mem, a.token) /\ creator[a.id] = u
      BY <1>1, <3>1 DEF TokensReachTheirTab
    <3> HIDE DEF a
    <3>3. a.id \in Pilots
      BY <3>2 DEF SavedBy
    <3> QED
      BY <1>7, <2>2, <3>1, <3>2, <3>3
  <2> QED
    BY <2>1, <2>2
<1>11. ASSUME NEW q \in told, NEW v \in Tabs, creator[q] = v, v # t
       PROVE  /\ q # p
              /\ IF AwaitsReply(v)' /\ Welcomed(v)' THEN Head(down'[tab[v].socket]).id = q
                 ELSE q \in SavedBy(mem', tab[v].token)
  <2> DEFINE a == Head(down[tab[v].socket])
  <2>1. IF AwaitsReply(v) /\ Welcomed(v) THEN a.id = q ELSE q \in SavedBy(mem, tab[v].token)
    BY <1>1, <1>11 DEF TokensReachTheirTab
  <2>2. CASE AwaitsReply(v) /\ Welcomed(v)
    <3>1. a.id = q /\ q \in SavedBy(mem, a.token)
      BY <1>1, <2>1, <2>2 DEF TokensReachTheirTab
    <3>2. AwaitsReply(v)' /\ Welcomed(v)' /\ Head(down'[tab[v].socket]) = a
      BY <1>4, <1>11, <2>2 DEF Turned
    <3> HIDE DEF a
    <3>3. q \in Pilots
      BY <3>1 DEF SavedBy
    <3>4. q # p
      BY <1>7, <1>11, <3>1, <3>3
    <3> QED
      BY <3>1, <3>2, <3>4
  <2>3. CASE ~(AwaitsReply(v) /\ Welcomed(v))
    <3>1. q \in SavedBy(mem, tab[v].token)
      BY <2>1, <2>3
    <3>2. q \in Pilots
      BY <3>1 DEF SavedBy
    <3>3. q # p /\ q \in SavedBy(mem', tab[v].token)
      BY <1>7, <1>11, <3>1, <3>2
    <3>4. ~(AwaitsReply(v)' /\ Welcomed(v)')
      BY <1>4, <1>11, <2>3 DEF Turned
    <3> QED
      BY <3>3, <3>4
  <2> QED
    BY <2>2, <2>3
<1>12. ASSUME NEW q \in told, creator[q] = t
       PROVE  q = p
  <2>1. q \in SavedBy(mem, tab[t].token)
    BY <1>1, <1>12 DEF TokensReachTheirTab
  <2>2. p \in SavedBy(mem, tab[t].token)
    BY <1>1, <2>1, NoneOpensNothing
  <2> QED
    BY <1>2, <2>1, <2>2, SavedOnce
<1>13. /\ told \in SUBSET Pilots
       /\ \A q \in told : creator[q] \in Tabs /\ creator'[q] = creator[q]
  <2>1. told \in SUBSET Pilots /\ \A q \in told : creator[q] \in Tabs
    BY <1>1 DEF TokensReachTheirTab, ReachableInv, HoldersInv, TypeOK
  <2>2. ASSUME NEW q \in told
        PROVE  creator'[q] = creator[q]
    <3>1. CASE creator[q] = t
      BY <1>2, <1>8, <1>12, <2>1, <3>1
    <3>2. CASE creator[q] # t
      BY <1>2, <1>11, <2>1, <3>2
    <3> QED
      BY <3>1, <3>2
  <2> QED
    BY <2>1, <2>2
<1>14. ASSUME NEW u \in Tabs, NEW q \in told, creator'[q] = u
       PROVE  IF AwaitsReply(u)' /\ Welcomed(u)' THEN Head(down'[tab[u].socket]).id = q
              ELSE q \in SavedBy(mem', tab[u].token)
  <2>1. creator[q] = u
    BY <1>13, <1>14
  <2>2. CASE u = t
    <3>1. q = p
      BY <1>12, <2>1, <2>2
    <3>2. AwaitsReply(t)'
      BY <1>4
    <3> QED
      BY <1>5, <1>6, <2>2, <3>1, <3>2
  <2>3. CASE u # t
    BY <1>11, <2>1, <2>3
  <2> QED
    BY <2>2, <2>3
<1>15. /\ told' = told /\ tab' = tab /\ stored' = stored /\ stored = [u \in Tabs |-> tab[u].token]
       /\ \A q \in told : creator'[q] \in Tabs
  BY <1>1, <1>13 DEF TokensReachTheirTab
<1> QED
  BY <1>3, <1>8, <1>9, <1>10, <1>14, <1>15 DEF TokensReachTheirTab, OneEach

-----------------------------------------------------------------------------
(* The handlers of a join.                                                 *)

LEMMA UnusedToken ==
    ASSUME Free(Tokens, TokensInUse) # {}
    PROVE  LET token == Least(Free(Tokens, TokensInUse))
           IN  /\ token \in Tokens
               /\ \A u \in Tabs : tab[u].token # token
               /\ \A q \in Pilots : mem.pilots[q] # None => mem.pilots[q].tokenHash # Digest(token)
<1> DEFINE token == Least(Free(Tokens, TokensInUse))
<1>1. token \in Tokens /\ token \notin TokensInUse
  <2>1. token \in Free(Tokens, TokensInUse)
    BY LeastIsIn, PilotSessionsAssumption DEF Free
  <2> QED
    BY <2>1 DEF Free
<1> HIDE DEF token
<1>2. \A u \in Tabs : tab[u].token # token
  <2>1. ASSUME NEW u \in Tabs
        PROVE  tab[u].token \in TokensInUse
    BY Zenon DEF TokensInUse
  <2>2. ASSUME NEW u \in Tabs
        PROVE  tab[u].token # token
    BY <1>1, <2>1, Zenon
  <2> QED
    BY <2>2, Zenon
<1>3. ASSUME NEW q \in Pilots, mem.pilots[q] # None
      PROVE  mem.pilots[q].tokenHash # Digest(token)
  <2> DEFINE used == {x \in Tokens : \E p \in Pilots, rows \in {mem.pilots, db} :
                                     rows[p] # None /\ rows[p].tokenHash = Digest(x)}
  <2>1. used \subseteq TokensInUse
    BY Zenon DEF TokensInUse
  <2>2. mem.pilots[q].tokenHash = Digest(token) => token \in used
    BY <1>1, <1>3
  <2> QED
    BY <1>1, <2>1, <2>2
<1> QED
  BY <1>1, <1>2, <1>3 DEF token

LEMMA AskFacts ==
    ASSUME ReachableInv, NEW t \in Tabs, NEW s \in Sockets, tab[t].socket = s, Asked(t)
    PROVE  /\ Head(up[s]).token = tab[t].token /\ Head(up[s]).from = t
           /\ Consume(s) => up' = [up EXCEPT ![s] = <<>>]
<1> DEFINE j == Join(tab[t].id, tab[t].token, t)
<1>1. up[s] = <<j>> /\ up \in [Sockets -> Seq(UpMessage)] /\ j.token = tab[t].token /\ j.from = t
  BY DEF Asked, ReachableInv, HoldersInv, TypeOK, Join
<1> HIDE DEF j
<1>2. Head(<<j>>) = j /\ Tail(<<j>>) = <<>>
  OBVIOUS
<1> QED
  BY <1>1, <1>2 DEF Consume

LEMMA ReplyFacts ==
    ASSUME ReachableInv, NEW t \in Tabs, NEW s \in Sockets, tab[t].socket = s, Asked(t),
           s \notin closing, s \in open \ cut
    PROVE  \A m : /\ SendDown(down, s, m)[s] = <<m>>
                  /\ \A r \in Sockets \ {s} : SendDown(down, s, m)[r] = down[r]
<1> SUFFICES ASSUME NEW m
             PROVE  /\ SendDown(down, s, m)[s] = <<m>>
                    /\ \A r \in Sockets \ {s} : SendDown(down, s, m)[r] = down[r]
  OBVIOUS
<1>1. down[s] = <<>> /\ down \in [Sockets -> Seq(DownMessage)]
  BY DEF Asked, ReachableInv, HoldersInv, TypeOK
<1>2. SendDown(down, s, m) = [down EXCEPT ![s] = Append(@, m)]
  BY DEF SendDown
<1>3. Append(<<>>, m) = <<m>>
  OBVIOUS
<1> QED
  BY <1>1, <1>2, <1>3

LEMMA RefusalReach ==
    ASSUME ReachableInv, HoldersInv', NEW s \in Sockets, JoinRejected(s) \/ ResumeRefused(s)
    PROVE  ReachableInv'
<1>1. /\ Inbound(s, "join") /\ Consume(s)
      /\ UNCHANGED <<mem, closing, creator, open, cut, tab, stored, told>>
  BY DEF JoinRejected, ResumeRefused, Answer
<1>2. PICK t \in Tabs : /\ AwaitsReply(t) /\ tab[t].socket = s /\ Asked(t)
                        /\ mem.sockets[s] = None /\ s \notin closing /\ s \in open \ cut
  BY <1>1, Asker
<1>3. PICK m : /\ down' = SendDown(down, s, m)
               /\ \/ m = Signal("error")
                  \/ m = Signal("sessionExpired") /\ SavedBy(mem, Head(up[s]).token) = {}
  BY DEF JoinRejected, ResumeRefused, Answer
<1>4. /\ Head(up[s]).token = tab[t].token /\ up' = [up EXCEPT ![s] = <<>>]
      /\ down'[s] = <<m>> /\ \A r \in Sockets \ {s} : down'[r] = down[r]
  <2>1. Head(up[s]).token = tab[t].token /\ up' = [up EXCEPT ![s] = <<>>]
    BY <1>1, <1>2, AskFacts
  <2>2. \A n : /\ SendDown(down, s, n)[s] = <<n>>
              /\ \A r \in Sockets \ {s} : SendDown(down, s, n)[r] = down[r]
    BY <1>2, ReplyFacts
  <2> QED
    BY <1>3, <2>1, <2>2
<1>5. Refusal(t, s, m) /\ m.type # "joined"
  BY <1>1, <1>2, <1>3, <1>4 DEF Refusal, Signal
<1>6. \A r \in Sockets \ {s} : Bystander(r)
  BY <1>1, <1>4 DEF Bystander
<1>7. Turned(t, s, m)
  BY <1>1, <1>2, <1>4, <1>5, <1>6, TurnTaken
<1>8. SameTokens(mem, mem')
  BY <1>1 DEF SameTokens
<1>9. TokensReachTheirTab'
  BY <1>1, <1>2, <1>5, <1>7, <1>8, KnownAnswer
<1> QED
  BY <1>7, <1>9 DEF ReachableInv, Turned

LEMMA LiveReach ==
    ASSUME ReachableInv, HoldersInv', NEW s \in Sockets, ResumeLive(s)
    PROVE  ReachableInv'
<1>1. /\ HoldersInv /\ Inbound(s, "join") /\ Consume(s)
      /\ UNCHANGED <<open, cut, tab, stored, creator, told>>
  BY DEF ReachableInv, ResumeLive
<1>2. PICK t \in Tabs : /\ AwaitsReply(t) /\ tab[t].socket = s /\ Asked(t)
                        /\ mem.sockets[s] = None /\ s \notin closing /\ s \in open \ cut
  BY <1>1, Asker
<1>3. PICK p \in LiveBy(mem, Head(up[s]).token) :
        /\ mem' = TakeOver(mem, p, s)
        /\ down' = SendClose(SendDown(down, s, Joined(p, mem.session[p].token)), Superseded(mem, p, s))
        /\ closing' = closing \cup Superseded(mem, p, s)
  BY DEF ResumeLive
<1> DEFINE olds == Superseded(mem, p, s)
           m == Joined(p, mem.session[p].token)
           sent == SendDown(down, s, m)
<1>4. mem \in Memory /\ Agree(mem, open) /\ Known(mem)
  BY <1>1, Before
<1>5. /\ Head(up[s]).token = tab[t].token /\ up' = [up EXCEPT ![s] = <<>>]
      /\ sent[s] = <<m>> /\ \A r \in Sockets \ {s} : sent[r] = down[r]
  <2>1. Head(up[s]).token = tab[t].token /\ up' = [up EXCEPT ![s] = <<>>]
    BY <1>1, <1>2, AskFacts
  <2> HIDE DEF m
  <2>2. \A n : /\ SendDown(down, s, n)[s] = <<n>>
              /\ \A r \in Sockets \ {s} : SendDown(down, s, n)[r] = down[r]
    BY <1>2, ReplyFacts
  <2> QED
    BY <2>1, <2>2, Zenon
<1>6. /\ p \in Pilots /\ mem.session[p] # None /\ mem.actor[p] # None
      /\ mem.session[p].token = tab[t].token /\ mem.session[p] \in Session
  BY <1>4, <1>5 DEF LiveBy, Agree, Memory
<1>7. s \notin olds /\ \A r \in Sockets : mem.sockets[r] = None => r \notin olds
  <2>1. \A r \in Sockets : mem.session[p].socket = r => mem.sockets[r] = p
    BY <1>4, <1>6, Sentinels DEF Agree
  <2> QED
    BY <1>6, <2>1, Sentinels DEF Superseded
<1>8. TakenOver(mem', mem, p, s)
  BY <1>3, <1>4, <1>6, TakeOverFacts
<1>9. \A r \in Sockets \ {s} : mem.sockets[r] = None => mem'.sockets[r] = None
  BY <1>8 DEF TakenOver
<1>10. down'[s] = <<m>>
  BY <1>3, <1>5, <1>7 DEF SendClose
<1>11. ASSUME NEW r \in Sockets \ {s}
       PROVE  Bystander(r)
  <2> DEFINE c == Signal("close")
  <2>1. down'[r] = IF r \in olds THEN SendDown(sent, r, c)[r] ELSE sent[r]
    BY <1>3 DEF SendClose
  <2>2. sent \in [Sockets -> Seq(DownMessage)]
    <3>1. /\ down \in [Sockets -> Seq(DownMessage)] /\ m \in DownMessage
      BY <1>1, <1>6 DEF HoldersInv, TypeOK, Joined, DownMessage, Session
    <3> HIDE DEF m
    <3> QED
      BY <3>1, SendDownFacts
  <2> HIDE DEF sent, c
  <2>3. SendDown(sent, r, c)[r] \in {sent[r], Append(sent[r], c)}
    BY <2>2 DEF SendDown
  <2>4. sent[r] = down[r]
    BY <1>5 DEF sent
  <2>5. down'[r] \in {down[r], Append(down[r], c)}
    BY <2>1, <2>3, <2>4
  <2>6. mem.sockets[r] = None => down'[r] = down[r] /\ (r \notin closing => r \notin closing')
    BY <1>3, <1>7, <2>1, <2>4
  <2> QED
    BY <1>9, <2>5, <2>6 DEF Bystander, c
<1>12. SameTokens(mem, mem')
  BY <1>8 DEF TakenOver, SameTokens
<1>13. \A u \in Tabs \ {t} : SavedBy(mem', tab[u].token) \subseteq SavedBy(mem, tab[u].token)
  BY <1>12, SameSaved
<1>14. m.type = "joined" /\ m.id = p /\ m.token = tab[t].token
  BY <1>6 DEF Joined
<1>15. p \in SavedBy(mem, tab[t].token)
  BY <1>4, <1>6 DEF Known, SavedBy
<1> HIDE DEF m
<1>16. Turned(t, s, m)
  BY <1>1, <1>2, <1>5, <1>10, <1>11, <1>13, <1>14, TurnTaken
<1>17. TokensReachTheirTab'
  BY <1>1, <1>2, <1>12, <1>14, <1>15, <1>16, KnownAnswer
<1> QED
  BY <1>16, <1>17 DEF ReachableInv, Turned

\* A pilot is registered for the tab that asked, in a memory that keeps what there was.
LEMMA RegisteredReach ==
    ASSUME ReachableInv, HoldersInv', NEW t \in Tabs, NEW s \in Sockets, AwaitsReply(t), tab[t].socket = s,
           Asked(t), s \notin closing, s \in open \ cut,
           NEW p \in Pilots, NEW token, NEW n \in Memory, NEW c, Registered(mem', n, p, s, token, c),
           SameTokens(mem, n), \A r \in Sockets : mem.sockets[r] = None => n.sockets[r] = None,
           Free(Tokens, TokensInUse) # {}, token = Least(Free(Tokens, TokensInUse)),
           Answer(s, Joined(p, token)), closing' = closing, creator' = [creator EXCEPT ![p] = t],
           (mem.pilots[p] = None /\ tab[t].token = None) \/ p \in SavedBy(mem, tab[t].token)
    PROVE  ReachableInv'
<1> DEFINE m == Joined(p, token)
<1>1. Consume(s) /\ down' = SendDown(down, s, m) /\ UNCHANGED <<open, cut, tab, stored, told>>
  BY DEF Answer
<1>2. m.type = "joined"
  BY DEF Joined
<1>3. /\ token \in Tokens
      /\ \A u \in Tabs : tab[u].token # token
      /\ \A q \in Pilots : mem.pilots[q] # None => mem.pilots[q].tokenHash # Digest(token)
  BY UnusedToken
<1> DEFINE row == [tokenHash |-> Digest(token), cargo |-> c]
<1>4. /\ mem'.pilots = [n.pilots EXCEPT ![p] = row] /\ mem' \in Memory
      /\ mem'.sockets = [n.sockets EXCEPT ![s] = p]
  BY DEF Registered
<1>5. /\ n.pilots \in [Pilots -> SavedRow \cup {None}] /\ n.sockets \in [Sockets -> Pilots \cup {None}]
      /\ mem'.session = [n.session EXCEPT ![p] = [token |-> token, socket |-> s, grace |-> "none"]]
      /\ n.session \in [Pilots -> Session \cup {None}]
  BY DEF Registered, Memory
<1>6. mem'.pilots[p] = row /\ row.tokenHash = Digest(token) /\ mem'.pilots[p] # None
  <2>1. mem'.pilots[p] = row /\ row.tokenHash = Digest(token)
    BY <1>4, <1>5
  <2>2. [token |-> token, socket |-> s, grace |-> "none"] \in Session
    BY <1>3 DEF Session
  <2>3. mem'.session[p] # None
    BY <1>5, <2>2, Sentinels
  <2>4. TokensAgree'
    BY DEF HoldersInv
  <2> QED
    BY <2>1, <2>3, <2>4 DEF TokensAgree
<1> HIDE DEF row
<1>7. NewlyOpens(mem, mem', p, token)
  BY <1>3, <1>4, <1>5, <1>6 DEF NewlyOpens, SameTokens
<1>8. \A u \in Tabs : SavedBy(mem', tab[u].token) \subseteq SavedBy(mem, tab[u].token)
  BY <1>3, <1>7, NewlySaved
<1> HIDE DEF m
<1>9. /\ up' = [up EXCEPT ![s] = <<>>]
      /\ down'[s] = <<m>> /\ \A r \in Sockets \ {s} : down'[r] = down[r]
  <2>1. up' = [up EXCEPT ![s] = <<>>]
    BY <1>1, AskFacts
  <2>2. \A msg : /\ SendDown(down, s, msg)[s] = <<msg>>
                /\ \A r \in Sockets \ {s} : SendDown(down, s, msg)[r] = down[r]
    BY ReplyFacts
  <2> QED
    BY <1>1, <2>1, <2>2, Zenon
<1>10. \A r \in Sockets \ {s} : Bystander(r)
  BY <1>4, <1>5, <1>9 DEF Bystander
<1>11. Turned(t, s, m)
  BY <1>1, <1>2, <1>8, <1>9, <1>10, TurnTaken
<1>12. Turned(t, s, Joined(p, token))
  BY <1>11 DEF m
<1>13. TokensReachTheirTab'
  BY <1>1, <1>3, <1>7, <1>12, NewAnswer
<1> QED
  BY <1>11, <1>13 DEF ReachableInv, Turned

LEMMA FreshReach ==
    ASSUME ReachableInv, HoldersInv', NEW s \in Sockets, JoinFresh(s)
    PROVE  ReachableInv'
<1> DEFINE id == Head(up[s]).id
           token == Least(Free(Tokens, TokensInUse))
<1>1. /\ HoldersInv /\ TypeOK /\ mem \in Memory /\ Inbound(s, "join") /\ Head(up[s]).token = None
      /\ Free(Tokens, TokensInUse) # {} /\ closing' = closing
  BY DEF ReachableInv, HoldersInv, TypeOK, JoinFresh
<1>2. /\ mem.pilots[id] = None
      /\ mem' = RegisterPilot(AddPlayer(mem, id, s, 0), id, s, token)
      /\ creator' = [creator EXCEPT ![id] = Head(up[s]).from]
      /\ Answer(s, Joined(id, token))
  BY DEF JoinFresh
<1>3. PICK t \in Tabs : /\ AwaitsReply(t) /\ tab[t].socket = s /\ Asked(t)
                        /\ mem.sockets[s] = None /\ s \notin closing /\ s \in open \ cut
  BY <1>1, Asker
<1>4. Head(up[s]).token = tab[t].token /\ Head(up[s]).from = t
  BY <1>3, AskFacts
<1>5. token \in Tokens
  BY <1>1, NewToken
<1>6. id \in Pilots
  BY <1>1, Arrived, Sentinels DEF UpMessage, JoinMessage
<1> HIDE DEF id, token
<1>7. Registered(mem', mem, id, s, token, 0)
  BY <1>1, <1>2, <1>5, <1>6, RegisterFacts, PilotSessionsAssumption
<1>8. SameTokens(mem, mem)
  BY DEF SameTokens
<1>9. token = Least(Free(Tokens, TokensInUse)) /\ tab[t].token = None /\ creator' = [creator EXCEPT ![id] = t]
  BY <1>1, <1>2, <1>4 DEF token
<1> QED
  BY <1>1, <1>2, <1>3, <1>6, <1>7, <1>8, <1>9, RegisteredReach

LEMMA SavedReach ==
    ASSUME ReachableInv, HoldersInv', NEW s \in Sockets, ResumeSaved(s)
    PROVE  ReachableInv'
<1> DEFINE token == Least(Free(Tokens, TokensInUse))
<1>1. /\ HoldersInv /\ TypeOK /\ mem \in Memory /\ db \in Rows /\ Inbound(s, "join")
      /\ Server /\ Free(Tokens, TokensInUse) # {} /\ UNCHANGED <<closing, creator>>
  BY Before DEF ReachableInv, ResumeSaved
<1>2. PICK p \in SavedBy(mem, Head(up[s]).token) :
        \E w \in IF mem.actor[p] = None THEN {<<mem, db>>} ELSE AfterRemoval(RemovePlayer(mem, p), db) :
          /\ mem' = RegisterPilot(AddPlayer(w[1], p, s, w[1].pilots[p].cargo), p, s, token)
          /\ Answer(s, Joined(p, token))
  BY DEF ResumeSaved, Restored
<1>3. PICK w \in IF mem.actor[p] = None THEN {<<mem, db>>} ELSE AfterRemoval(RemovePlayer(mem, p), db) :
        /\ mem' = RegisterPilot(AddPlayer(w[1], p, s, w[1].pilots[p].cargo), p, s, token)
        /\ Answer(s, Joined(p, token))
  BY <1>2
<1>4. PICK t \in Tabs : /\ AwaitsReply(t) /\ tab[t].socket = s /\ Asked(t)
                        /\ mem.sockets[s] = None /\ s \notin closing /\ s \in open \ cut
  BY <1>1, Asker
<1>5. Head(up[s]).token = tab[t].token
  BY <1>4, AskFacts
<1>6. p \in Pilots /\ p \in SavedBy(mem, tab[t].token) /\ mem.pilots[p] # None
  BY <1>5 DEF SavedBy
<1>7. token \in Tokens
  BY <1>1, NewToken
<1> HIDE DEF token
<1> DEFINE n == w[1]
<1>8. n = mem \/ \E q \in Pilots : \E v \in AfterRemoval(RemovePlayer(mem, q), db) : n = v[1]
  <2>1. CASE mem.actor[p] = None
    BY <1>3, <2>1
  <2>2. CASE mem.actor[p] # None
    BY <1>3, <1>6, <2>2
  <2> QED
    BY <2>1, <2>2
<1>9. n \in Memory
  <2>1. CASE mem.actor[p] = None
    BY <1>1, <1>3, <2>1
  <2>2. CASE mem.actor[p] # None
    <3>1. w \in AfterRemoval(RemovePlayer(mem, p), db) /\ Sound(mem, db, earned, open)
      BY <1>1, <1>3, <2>2 DEF Server
    <3>2. Sound(w[1], w[2], earned, open)
      BY <1>6, <3>1, Removed
    <3> QED
      BY <3>2 DEF Sound
  <2> QED
    BY <2>1, <2>2
<1>10. mem' = RegisterPilot(AddPlayer(n, p, s, n.pilots[p].cargo), p, s, token)
  BY <1>3
<1> HIDE DEF n
<1>11. SameTokens(mem, n) /\ \A r \in Sockets : mem.sockets[r] = None => n.sockets[r] = None
  BY <1>1, <1>8, DepartureKeeps
<1>12. n.pilots[p].cargo \in Cargo
  <2>1. n.pilots[p] # None /\ n.pilots[p] \in SavedRow \cup {None}
    BY <1>6, <1>9, <1>11 DEF SameTokens, Memory
  <2> QED
    BY <2>1 DEF SavedRow
<1>13. Registered(mem', n, p, s, token, n.pilots[p].cargo)
  BY <1>6, <1>7, <1>9, <1>10, <1>12, RegisterFacts
<1>14. creator' = [creator EXCEPT ![p] = t]
  <2>1. creator \in [Pilots -> Tabs \cup {None}] /\ creator[p] = t
    BY <1>6 DEF ReachableInv, TokensReachTheirTab
  <2> QED
    BY <1>1, <2>1
<1>15. token = Least(Free(Tokens, TokensInUse)) /\ closing' = closing
  BY <1>1 DEF token
<1> QED
  BY <1>1, <1>3, <1>4, <1>6, <1>9, <1>11, <1>13, <1>14, <1>15, RegisteredReach

-----------------------------------------------------------------------------
(* The steps of a tab.                                                     *)

\* Tab t, now x, touches the queues of socket s, its own or a new one, and has just asked on
\* it if it waits. It holds a token of its own pilot, and has not lost one it held.
TabTurn(t, x, s) ==
    /\ tab' = [tab EXCEPT ![t] = x] /\ UNCHANGED <<mem, closing, cut, creator>> /\ open \subseteq open'
    /\ tab[t].socket \in {None, s} /\ x.socket \in {None, s}
    /\ \A u \in Tabs \ {t} : tab[u].socket # s
    /\ \A r \in Sockets \ {s} : up'[r] = up[r] /\ down'[r] = down[r]
    /\ x.socket = s /\ ~x.acked =>
         /\ up'[s] = <<Join(x.id, x.token, t)>> /\ down'[s] = <<>>
         /\ s \in open' \ cut /\ s \notin closing /\ mem.sockets[s] = None
    /\ ~(x.socket = s /\ ~x.acked) => NoJoin(up'[s]) /\ OnlyCloses(down'[s])
    /\ stored' = [stored EXCEPT ![t] = x.token]
    /\ \A p \in SavedBy(mem, x.token) : creator[p] = t
    /\ \A p \in told' : /\ creator[p] \in Tabs
                        /\ creator[p] # t => p \in told
                        /\ creator[p] = t => p \in SavedBy(mem, x.token)

LEMMA WhoIsTold ==
    ASSUME ReachableInv, NEW t \in Tabs, NEW p \in told, creator[p] = t
    PROVE  IF AwaitsReply(t) /\ Welcomed(t) THEN Head(down[tab[t].socket]).id = p
           ELSE p \in SavedBy(mem, tab[t].token)
<1>1. TokensReachTheirTab
  BY DEF ReachableInv
<1> QED
  BY <1>1 DEF TokensReachTheirTab

LEMMA TabTurnReach ==
    ASSUME ReachableInv, HoldersInv', NEW t \in Tabs, NEW x \in TabState, NEW s \in Sockets, TabTurn(t, x, s)
    PROVE  ReachableInv'
<1>1. /\ tab \in [Tabs -> TabState] /\ tab' = [tab EXCEPT ![t] = x]
      /\ mem' = mem /\ closing' = closing /\ cut' = cut /\ creator' = creator /\ open \subseteq open'
      /\ JoinsTakeTurns /\ TokensReachTheirTab /\ HoldersInv
  BY DEF ReachableInv, HoldersInv, TypeOK, TabTurn
<1>2. tab'[t] = x /\ \A u \in Tabs \ {t} : tab'[u] = tab[u]
  BY <1>1
<1>3. \A u \in Tabs \ {t} : AwaitsReply(u)' <=> AwaitsReply(u)
  BY <1>2 DEF AwaitsReply
<1>4. AwaitsReply(t)' <=> x.socket = s /\ ~x.acked
  BY <1>2, Sentinels DEF AwaitsReply, TabTurn
<1>5. AwaitsReply(t)' => Asked(t)' /\ ~Welcomed(t)'
  <2> SUFFICES ASSUME AwaitsReply(t)'
               PROVE  Asked(t)' /\ ~Welcomed(t)'
    OBVIOUS
  <2> DEFINE j == Join(x.id, x.token, t)
  <2>1. up'[s] = <<j>> /\ down'[s] = <<>> /\ x.socket = s
    BY <1>4 DEF TabTurn
  <2>2. Asked(t)'
    BY <1>2, <2>1 DEF Asked
  <2> HIDE DEF j
  <2>3. ~Welcomed(t)'
    BY <1>2, <2>1 DEF Welcomed
  <2> QED
    BY <2>2, <2>3
<1>6. ASSUME NEW u \in Tabs \ {t}, AwaitsReply(u)
      PROVE  LET r == tab[u].socket
             IN  /\ r \in open' \ cut
                 /\ Welcomed(u) \/ ((Asked(u) \/ Refused(u)) /\ mem.sockets[r] = None /\ r \notin closing)
                 /\ Asked(u)' <=> Asked(u)
                 /\ Refused(u)' <=> Refused(u)
                 /\ Welcomed(u)' <=> Welcomed(u)
                 /\ down'[r] = down[r]
  <2> DEFINE r == tab[u].socket
  <2>1. /\ r \in Sockets /\ r \in open' \ cut
        /\ Welcomed(u) \/ ((Asked(u) \/ Refused(u)) /\ mem.sockets[r] = None /\ r \notin closing)
    BY <1>1, <1>6, Waiting
  <2>2. tab'[u] = tab[u] /\ up'[r] = up[r] /\ down'[r] = down[r]
    BY <1>2, <2>1 DEF TabTurn
  <2>3. Asked(u)' <=> Asked(u)
    BY <2>2 DEF Asked
  <2>4. Refused(u)' <=> Refused(u)
    BY <1>1, <2>2 DEF Refused
  <2>5. Welcomed(u)' <=> Welcomed(u)
    BY <2>2 DEF Welcomed
  <2> QED
    BY <2>1, <2>2, <2>3, <2>4, <2>5
<1>7. JoinsTakeTurns'
  <2>1. ASSUME NEW u \in Tabs, AwaitsReply(u)'
        PROVE  LET r == tab'[u].socket
               IN  /\ r \in open' \ cut'
                   /\ Welcomed(u)' \/ ((Asked(u)' \/ Refused(u)') /\ mem'.sockets[r] = None /\ r \notin closing')
    <3>1. CASE u = t
      BY <1>1, <1>2, <1>4, <1>5, <2>1, <3>1 DEF TabTurn
    <3>2. CASE u # t
      BY <1>1, <1>2, <1>3, <1>6, <2>1, <3>2
    <3> QED
      BY <3>1, <3>2
  <2>2. ASSUME NEW r \in Sockets, \A u \in Tabs : AwaitsReply(u)' => tab'[u].socket # r
        PROVE  NoJoin(up'[r]) /\ OnlyCloses(down'[r])
    <3>1. CASE r = s
      BY <1>2, <1>4, <2>2, <3>1 DEF TabTurn
    <3>2. CASE r # s
      <4>1. ~Joining(r)
        BY <1>2, <1>3, <2>2, <3>2, Sentinels DEF Joining, TabTurn
      <4> QED
        BY <3>2, <4>1, NotJoining DEF TabTurn
    <3> QED
      BY <3>1, <3>2
  <2> QED
    BY <2>1, <2>2 DEF JoinsTakeTurns, NoJoin, OnlyCloses
<1>8. TokensReachTheirTab'
  <2>1. creator \in [Pilots -> Tabs \cup {None}] /\ OneEach(mem)
    BY <1>1 DEF TokensReachTheirTab, OneEach
  <2>2. stored' = [u \in Tabs |-> tab'[u].token]
    BY <1>1, <1>2 DEF TokensReachTheirTab, TabTurn
  <2>3. ASSUME NEW u \in Tabs, NEW p \in SavedBy(mem, tab'[u].token)
        PROVE  creator[p] = u
    BY <1>1, <1>2, <2>3 DEF TokensReachTheirTab, TabTurn
  <2>4. ASSUME NEW u \in Tabs, AwaitsReply(u)', Welcomed(u)'
        PROVE  LET m == Head(down'[tab'[u].socket])
               IN  m.id \in SavedBy(mem, m.token) /\ creator[m.id] = u
    <3>1. u # t
      BY <1>5, <2>4
    <3>2. AwaitsReply(u) /\ Welcomed(u) /\ tab'[u] = tab[u] /\ down'[tab[u].socket] = down[tab[u].socket]
      BY <1>2, <1>3, <1>6, <2>4, <3>1
    <3> QED
      BY <1>1, <3>2 DEF TokensReachTheirTab
  <2>5. ASSUME NEW u \in Tabs, NEW p \in told', creator[p] = u
        PROVE  IF AwaitsReply(u)' /\ Welcomed(u)' THEN Head(down'[tab'[u].socket]).id = p
               ELSE p \in SavedBy(mem, tab'[u].token)
    <3>1. CASE u = t
      BY <1>2, <1>5, <2>5, <3>1 DEF TabTurn
    <3>2. CASE u # t
      <4>1. p \in told
        BY <2>5, <3>2 DEF TabTurn
      <4>2. IF AwaitsReply(u) /\ Welcomed(u) THEN Head(down[tab[u].socket]).id = p
            ELSE p \in SavedBy(mem, tab[u].token)
        BY <2>5, <4>1, WhoIsTold
      <4>3. CASE AwaitsReply(u)
        BY <1>2, <1>3, <1>6, <3>2, <4>2, <4>3
      <4>4. CASE ~AwaitsReply(u)
        BY <1>2, <1>3, <3>2, <4>2, <4>4
      <4> QED
        BY <4>3, <4>4
    <3> QED
      BY <3>1, <3>2
  <2>6. \A p \in told' : creator[p] \in Tabs
    BY DEF TabTurn
  <2> QED
    BY <1>1, <2>1, <2>2, <2>3, <2>4, <2>5, <2>6 DEF TokensReachTheirTab, OneEach
<1> QED
  BY <1>7, <1>8 DEF ReachableInv

\* A tab that has not been told of a pilot holds the token of every pilot that is its own.
LEMMA TokenHeld ==
    ASSUME ReachableInv, NEW t \in Tabs, ~(AwaitsReply(t) /\ Welcomed(t))
    PROVE  /\ stored = [stored EXCEPT ![t] = tab[t].token] /\ stored[t] = tab[t].token
           /\ \A p \in SavedBy(mem, tab[t].token) : creator[p] = t
           /\ \A p \in told : creator[p] \in Tabs /\ (creator[p] = t => p \in SavedBy(mem, tab[t].token))
<1>1. /\ stored = [u \in Tabs |-> tab[u].token] /\ \A p \in told : creator[p] \in Tabs
      /\ \A p \in SavedBy(mem, tab[t].token) : creator[p] = t
  BY DEF ReachableInv, TokensReachTheirTab
<1>2. \A p \in told : creator[p] = t => p \in SavedBy(mem, tab[t].token)
  BY WhoIsTold
<1>3. stored[t] = tab[t].token /\ stored = [stored EXCEPT ![t] = tab[t].token]
  BY <1>1, Zenon
<1> QED
  BY <1>1, <1>2, <1>3, Zenon

\* A tab that waits has nothing but its answer to read.
LEMMA Reading ==
    ASSUME ReachableInv, NEW t \in Tabs, NEW s \in Sockets, tab[t].socket = s, NEW type, HeadIs(down[s], type),
           type # "close"
    PROVE  /\ AwaitsReply(t)
           /\ type = "joined" => Welcomed(t)
           /\ type # "joined" =>
                /\ up[s] = <<>> /\ Tail(down[s]) = <<>> /\ ~Welcomed(t)
                /\ type = "sessionExpired" => SavedBy(mem, tab[t].token) = {}
                /\ s \in open \ cut /\ s \notin closing /\ mem.sockets[s] = None
<1>1. /\ down[s] \in Seq(DownMessage) /\ down[s] # <<>> /\ Head(down[s]).type = type
      /\ SocketsAreOwned /\ s # None
  BY Sentinels DEF HeadIs, ReachableInv, HoldersInv, TypeOK
<1>2. 1 \in DOMAIN down[s] /\ down[s][1].type # "close"
  BY <1>1
<1>3. Joining(s)
  BY <1>2, NotJoining DEF OnlyCloses
<1>4. AwaitsReply(t)
  BY <1>1, <1>3 DEF Joining, SocketsAreOwned
<1>5. /\ s \in open \ cut
      /\ Welcomed(t) \/ ((Asked(t) \/ Refused(t)) /\ mem.sockets[s] = None /\ s \notin closing)
  BY <1>4, Waiting
<1>6. ~Asked(t)
  BY <1>1 DEF Asked
<1>7. Welcomed(t) => type = "joined"
  BY <1>1 DEF Welcomed
<1>8. Refused(t) => /\ up[s] = <<>> /\ Tail(down[s]) = <<>> /\ type \in {"error", "sessionExpired"}
                    /\ type = "sessionExpired" => SavedBy(mem, tab[t].token) = {}
  <2> DEFINE e == Signal("error")
             x == Signal("sessionExpired")
  <2>1. e.type = "error" /\ x.type = "sessionExpired"
    BY DEF Signal
  <2>2. Refused(t) => /\ up[s] = <<>>
                      /\ down[s] = <<e>> \/ (down[s] = <<x>> /\ SavedBy(mem, tab[t].token) = {})
    BY DEF Refused
  <2> HIDE DEF e, x
  <2>3. Head(<<e>>) = e /\ Tail(<<e>>) = <<>> /\ Head(<<x>>) = x /\ Tail(<<x>>) = <<>>
    OBVIOUS
  <2> QED
    BY <1>1, <2>1, <2>2, <2>3
<1> QED
  BY <1>4, <1>5, <1>6, <1>7, <1>8

\* A tab that lets go of its socket keeps its token.
LEMMA RetiredReach ==
    ASSUME ReachableInv, HoldersInv', NEW t \in Tabs, NEW s \in Sockets, tab[t].socket = s,
           ~(AwaitsReply(t) /\ Welcomed(t)), NEW h \in BOOLEAN,
           tab' = [tab EXCEPT ![t] = SocketGone(t, h)],
           UNCHANGED <<mem, open, closing, cut, stored, creator, told>>,
           \A r \in Sockets \ {s} : up'[r] = up[r] /\ down'[r] = down[r],
           NoJoin(up'[s]), OnlyCloses(down'[s])
    PROVE  ReachableInv'
<1> DEFINE x == OffSocket(tab[t], h)
<1>1. tab[t] \in TabState /\ \A u \in Tabs \ {t} : tab[u].socket # s
  BY Sentinels DEF ReachableInv, HoldersInv, TypeOK, SocketsAreOwned
<1>2. x \in TabState /\ x.socket = None /\ x.token = tab[t].token
  BY <1>1, OffSocketFacts
<1>3. tab' = [tab EXCEPT ![t] = x]
  BY DEF SocketGone, OffSocket
<1> HIDE DEF x
<1>4. stored' = [stored EXCEPT ![t] = x.token]
  BY <1>2, TokenHeld
<1>5. /\ \A p \in SavedBy(mem, x.token) : creator[p] = t
      /\ \A p \in told' : creator[p] \in Tabs /\ (creator[p] = t => p \in SavedBy(mem, x.token))
  BY <1>2, TokenHeld
<1>6. x.socket # s
  BY <1>2, Sentinels
<1>7. TabTurn(t, x, s)
  BY <1>1, <1>2, <1>3, <1>4, <1>5, <1>6 DEF TabTurn
<1> QED
  BY <1>2, <1>7, TabTurnReach

LEMMA NoneJoins ==
    ASSUME NEW p \in Seq(UpMessage), NEW q \in Seq(UpMessage), NoJoin(p), NoJoin(q)
    PROVE  p \o q \in Seq(UpMessage) /\ NoJoin(p \o q)
<1>1. ASSUME NEW i \in DOMAIN (p \o q)
      PROVE  (p \o q)[i].type # "join"
  <2>1. CASE i <= Len(p)
    BY <2>1 DEF NoJoin
  <2>2. CASE i > Len(p)
    <3>1. i - Len(p) \in DOMAIN q /\ (p \o q)[i] = q[i - Len(p)]
      BY <2>2
    <3> QED
      BY <3>1 DEF NoJoin
  <2> QED
    BY <2>1, <2>2
<1> QED
  BY <1>1 DEF NoJoin

LEMMA SaidLast ==
    ASSUME NEW q \in [Sockets -> Seq(UpMessage)], NEW s \in Sockets, NEW messages \in Seq(UpMessage),
           NoJoin(q[s]), NoJoin(messages)
    PROVE  NoJoin(SendUp(q, s, messages)[s]) /\ \A r \in Sockets \ {s} : SendUp(q, s, messages)[r] = q[r]
<1>1. CASE s \in cut
  BY <1>1 DEF SendUp
<1>2. CASE s \notin cut
  <2>1. SendUp(q, s, messages) = [q EXCEPT ![s] = q[s] \o messages]
    BY <1>2 DEF SendUp
  <2>2. NoJoin(q[s] \o messages)
    BY NoneJoins
  <2> QED
    BY <2>1, <2>2
<1> QED
  BY <1>1, <1>2

\* The socket of a tab that does not wait.
LEMMA OwnSocketQuiet ==
    ASSUME ReachableInv, NEW t \in Tabs, NEW s \in Sockets, tab[t].socket = s, ~AwaitsReply(t)
    PROVE  NoJoin(up[s]) /\ OnlyCloses(down[s])
<1>1. ~Joining(s)
  BY Sentinels DEF Joining, ReachableInv, HoldersInv, SocketsAreOwned
<1> QED
  BY <1>1, NotJoining

LEMMA QuitReach ==
    ASSUME ReachableInv, HoldersInv', ~LosesReplies, NEW t \in Tabs, Quit(t)
    PROVE  ReachableInv'
<1> DEFINE s == tab[t].socket
           messages == (IF tab[t].acked THEN <<Signal("leave")>> ELSE <<>>) \o <<Signal("close")>>
<1>1. /\ s # None /\ ~AwaitsReply(t) /\ tab[t].acked /\ tab' = [tab EXCEPT ![t] = SocketGone(t, TRUE)]
      /\ up' = SendUp(up, s, messages) /\ down' = down
      /\ UNCHANGED <<mem, open, closing, cut, stored, creator, told>>
  BY DEF Quit, Disconnect, MayLose, AwaitsReply
<1>2. s \in Sockets /\ up \in [Sockets -> Seq(UpMessage)]
  BY <1>1 DEF ReachableInv, HoldersInv, TypeOK, TabState
<1>3. messages \in Seq(UpMessage) /\ NoJoin(messages)
  <2> DEFINE l == Signal("leave")
             c == Signal("close")
  <2>1. l \in UpMessage /\ c \in UpMessage /\ l.type # "join" /\ c.type # "join"
    BY DEF Signal, UpMessage
  <2>2. messages = <<l>> \o <<c>>
    BY <1>1
  <2> HIDE DEF l, c, messages
  <2>3. <<l>> \in Seq(UpMessage) /\ NoJoin(<<l>>) /\ <<c>> \in Seq(UpMessage) /\ NoJoin(<<c>>)
    BY <2>1 DEF NoJoin
  <2> QED
    BY <2>2, <2>3, NoneJoins
<1> HIDE DEF messages, s
<1>4. tab[t].socket = s
  BY DEF s
<1>5. NoJoin(up[s]) /\ OnlyCloses(down[s])
  BY <1>1, <1>2, <1>4, OwnSocketQuiet
<1>6. NoJoin(up'[s]) /\ \A r \in Sockets \ {s} : up'[r] = up[r]
  BY <1>1, <1>2, <1>3, <1>5, SaidLast
<1> QED
  BY <1>1, <1>2, <1>4, <1>5, <1>6, RetiredReach

LEMMA CutNoticedReach ==
    ASSUME ReachableInv, HoldersInv', NEW t \in Tabs, NoticeCut(t)
    PROVE  ReachableInv'
<1> DEFINE s == tab[t].socket
<1>1. /\ s # None /\ (s \in cut \/ s \notin open) /\ tab' = [tab EXCEPT ![t] = SocketGone(t, FALSE)]
      /\ up' = up /\ down' = down /\ UNCHANGED <<mem, open, closing, cut, stored, creator, told>>
  BY DEF NoticeCut
<1>2. s \in Sockets
  BY <1>1 DEF ReachableInv, HoldersInv, TypeOK, TabState
<1>3. ~AwaitsReply(t)
  BY <1>1, Waiting
<1> HIDE DEF s
<1>4. tab[t].socket = s
  BY DEF s
<1>5. NoJoin(up[s]) /\ OnlyCloses(down[s])
  BY <1>2, <1>3, <1>4, OwnSocketQuiet
<1> QED
  BY <1>1, <1>2, <1>3, <1>4, <1>5, RetiredReach

LEMMA CloseReceivedReach ==
    ASSUME ReachableInv, HoldersInv', NEW t \in Tabs, ReceiveClose(t)
    PROVE  ReachableInv'
<1> DEFINE s == tab[t].socket
           messages == <<Signal("close")>>
<1>1. /\ s # None /\ HeadIs(down[s], "close") /\ tab' = [tab EXCEPT ![t] = SocketGone(t, FALSE)]
      /\ up' = SendUp(up, s, messages) /\ down' = [down EXCEPT ![s] = Tail(@)]
      /\ UNCHANGED <<mem, open, closing, cut, stored, creator, told>>
  BY DEF ReceiveClose
<1>2. s \in Sockets /\ up \in [Sockets -> Seq(UpMessage)] /\ down \in [Sockets -> Seq(DownMessage)]
  BY <1>1 DEF ReachableInv, HoldersInv, TypeOK, TabState
<1>3. ~AwaitsReply(t)
  <2> DEFINE e == Signal("error")
             x == Signal("sessionExpired")
  <2>1. e.type = "error" /\ x.type = "sessionExpired"
    BY DEF Signal
  <2>2. AwaitsReply(t) => \/ Head(down[s]).type = "joined"
                          \/ down[s] \in {<<>>, <<e>>, <<x>>}
    BY Waiting DEF Welcomed, Asked, Refused
  <2> HIDE DEF e, x
  <2>3. Head(<<e>>) = e /\ Head(<<x>>) = x
    OBVIOUS
  <2> QED
    BY <1>1, <2>1, <2>2, <2>3 DEF HeadIs
<1>4. messages \in Seq(UpMessage) /\ NoJoin(messages)
  BY DEF Signal, UpMessage, NoJoin
<1> HIDE DEF messages, s
<1>5. tab[t].socket = s
  BY DEF s
<1>6. NoJoin(up[s]) /\ OnlyCloses(down[s])
  BY <1>2, <1>3, <1>5, OwnSocketQuiet
<1>7. NoJoin(up'[s]) /\ \A r \in Sockets \ {s} : up'[r] = up[r]
  BY <1>1, <1>2, <1>4, <1>6, SaidLast
<1>8. OnlyCloses(down'[s]) /\ \A r \in Sockets \ {s} : down'[r] = down[r]
  <2> DEFINE q == down[s]
  <2>1. q \in Seq(DownMessage) /\ q # <<>> /\ down'[s] = Tail(q) /\ OnlyCloses(q)
    BY <1>1, <1>2, <1>6 DEF HeadIs
  <2> HIDE DEF q
  <2>2. \A i \in DOMAIN Tail(q) : i + 1 \in DOMAIN q /\ Tail(q)[i] = q[i + 1]
    BY <2>1
  <2>3. OnlyCloses(Tail(q))
    BY <2>1, <2>2 DEF OnlyCloses
  <2> QED
    BY <1>1, <1>2, <2>1, <2>3
<1> QED
  BY <1>1, <1>2, <1>3, <1>5, <1>7, <1>8, RetiredReach

LEMMA ErrorReceivedReach ==
    ASSUME ReachableInv, HoldersInv', NEW t \in Tabs, ReceiveError(t)
    PROVE  ReachableInv'
<1> DEFINE s == tab[t].socket
           messages == <<>> \o <<Signal("close")>>
           kind == "error"
<1>1. /\ s # None /\ HeadIs(down[s], kind) /\ down' = [down EXCEPT ![s] = Tail(@)]
      /\ UNCHANGED <<mem, open, closing, cut, stored, creator, told>>
  BY DEF ReceiveError
<1>2. s \in Sockets /\ up \in [Sockets -> Seq(UpMessage)] /\ down \in [Sockets -> Seq(DownMessage)]
  BY <1>1 DEF ReachableInv, HoldersInv, TypeOK, TabState
<1>3. AwaitsReply(t) /\ up[s] = <<>> /\ Tail(down[s]) = <<>> /\ ~Welcomed(t)
  <2>1. kind \notin {"close", "joined"} /\ tab[t].socket = s
    OBVIOUS
  <2> HIDE DEF kind, s
  <2> QED
    BY <1>1, <1>2, <2>1, Reading
<1>4. tab' = [tab EXCEPT ![t] = SocketGone(t, TRUE)] /\ up' = SendUp(up, s, messages)
  BY <1>3 DEF ReceiveError, Disconnect, AwaitsReply
<1>5. messages \in Seq(UpMessage) /\ NoJoin(messages)
  <2>1. messages = <<Signal("close")>>
    OBVIOUS
  <2> QED
    BY <2>1 DEF Signal, UpMessage, NoJoin
<1> HIDE DEF messages, s
<1>6. tab[t].socket = s
  BY DEF s
<1>7. NoJoin(up'[s]) /\ \A r \in Sockets \ {s} : up'[r] = up[r]
  <2>1. NoJoin(up[s])
    BY <1>3 DEF NoJoin
  <2> QED
    BY <1>2, <1>4, <1>5, <2>1, SaidLast
<1>8. OnlyCloses(down'[s]) /\ \A r \in Sockets \ {s} : down'[r] = down[r]
  BY <1>1, <1>2, <1>3 DEF OnlyCloses
<1> QED
  BY <1>1, <1>2, <1>3, <1>4, <1>6, <1>7, <1>8, RetiredReach

\* The socket of a tab is its own.
LEMMA OwnSocket ==
    ASSUME ReachableInv, NEW t \in Tabs, tab[t].socket # None
    PROVE  /\ tab[t].socket \in Sockets /\ tab[t] \in TabState
           /\ \A u \in Tabs \ {t} : tab[u].socket # tab[t].socket
<1>1. TypeOK /\ SocketsAreOwned
  BY DEF ReachableInv, HoldersInv
<1>2. tab[t] \in TabState
  BY <1>1 DEF TypeOK
<1> QED
  BY <1>1, <1>2 DEF TabState, SocketsAreOwned

LEMMA AcknowledgedHolds ==
    ASSUME NEW x \in TabState, NEW token, NEW me
    PROVE  Acknowledged(x, token, me).token = token /\ Acknowledged(x, token, me).acked
  BY DEF TabState, Acknowledged

\* A tab that is told of its pilot takes the one token the pilot's row opens with.
LEMMA JoinedReceivedReach ==
    ASSUME ReachableInv, HoldersInv', ~SharedStore, NEW t \in Tabs, ReceiveJoined(t)
    PROVE  ReachableInv'
<1> DEFINE s == tab[t].socket
           m == Head(down[s])
           x == Acknowledged(tab[t], m.token, m.id)
           kind == "joined"
<1>1. /\ s # None /\ HeadIs(down[s], kind) /\ down' = [down EXCEPT ![s] = Tail(@)]
      /\ told' = told \cup {m.id} /\ Store(t, m.token)
      /\ UNCHANGED <<mem, up, open, closing, cut, creator>>
  BY DEF ReceiveJoined
<1>2. tab' = [tab EXCEPT ![t] = x]
  BY DEF ReceiveJoined, Acknowledged
<1>3. /\ s \in Sockets /\ tab[t] \in TabState /\ down \in [Sockets -> Seq(DownMessage)]
      /\ stored \in [Tabs -> Tokens \cup {None}]
      /\ \A u \in Tabs \ {t} : tab[u].socket # s
  <2>1. down \in [Sockets -> Seq(DownMessage)] /\ stored \in [Tabs -> Tokens \cup {None}]
    BY DEF ReachableInv, HoldersInv, TypeOK
  <2> QED
    BY <1>1, <2>1, OwnSocket
<1>4. AwaitsReply(t) /\ Welcomed(t)
  <2>1. kind = "joined" /\ kind # "close" /\ tab[t].socket = s
    OBVIOUS
  <2> HIDE DEF kind, s
  <2> QED
    BY <1>1, <1>3, <2>1, Reading
<1>5. /\ m.id \in SavedBy(mem, m.token) /\ creator[m.id] = t /\ OneEach(mem)
      /\ \A p \in told : creator[p] \in Tabs
  BY <1>4 DEF ReachableInv, TokensReachTheirTab, OneEach
<1>6. \A p \in told : creator[p] = t => p = m.id
  BY <1>4, WhoIsTold
<1>7. /\ up[s] = <<>> /\ down[s] # <<>> /\ m.type = "joined"
      /\ \A i \in DOMAIN down[s] : i > 1 => down[s][i].type = "close"
  BY <1>4 DEF Welcomed
<1>8. NoJoin(up'[s]) /\ OnlyCloses(down'[s]) /\ \A r \in Sockets \ {s} : up'[r] = up[r] /\ down'[r] = down[r]
  <2> DEFINE q == down[s]
  <2>1. q \in Seq(DownMessage) /\ q # <<>> /\ down'[s] = Tail(q)
        /\ \A i \in DOMAIN q : i > 1 => q[i].type = "close"
    BY <1>1, <1>3, <1>7
  <2> HIDE DEF q
  <2>2. \A i \in DOMAIN Tail(q) : i + 1 \in DOMAIN q /\ i + 1 > 1 /\ Tail(q)[i] = q[i + 1]
    BY <2>1
  <2>3. OnlyCloses(Tail(q))
    BY <2>1, <2>2 DEF OnlyCloses
  <2>4. NoJoin(up'[s])
    BY <1>1, <1>7 DEF NoJoin
  <2> QED
    BY <1>1, <1>3, <2>1, <2>3, <2>4
<1>9. m \in DownMessage
  BY <1>3, <1>7
<1> HIDE DEF m, kind
<1>10. m.id \in Pilots /\ m.token \in Tokens
  BY <1>7, <1>9 DEF DownMessage
<1>11. x \in TabState /\ x.socket = tab[t].socket /\ x.token = m.token /\ x.acked
  BY <1>3, <1>10, AcknowledgedFacts, AcknowledgedHolds
<1> HIDE DEF x
<1>12. stored' = [stored EXCEPT ![t] = x.token]
  BY <1>1, <1>3, <1>11 DEF Store, SameBrowser
<1>13. \A p \in SavedBy(mem, x.token) : p = m.id
  BY <1>5, <1>11, SavedOnce
<1>14. /\ \A p \in SavedBy(mem, x.token) : creator[p] = t
       /\ \A p \in told' : /\ creator[p] \in Tabs
                           /\ creator[p] # t => p \in told
                           /\ creator[p] = t => p \in SavedBy(mem, x.token)
  BY <1>1, <1>5, <1>6, <1>11, <1>13
<1> HIDE DEF s
<1>15. tab[t].socket = s
  BY DEF s
<1>16. TabTurn(t, x, s)
  BY <1>1, <1>3, <1>8, <1>11, <1>12, <1>14, <1>15, <1>2 DEF TabTurn
<1> QED
  BY <1>3, <1>11, <1>16, TabTurnReach

\* A tab that asks, on a socket that is empty and flies nothing, waits for an answer.
LEMMA Asking ==
    ASSUME ReachableInv, HoldersInv', NEW t \in Tabs, NEW s \in Sockets, NEW after \in TabState, after.acked = FALSE,
           SendJoin(t, s, after), up[s] = <<>>, s \notin cut, s \notin closing, s \in open', open \subseteq open',
           mem.sockets[s] = None, tab[t].socket \in {None, s}, \A u \in Tabs \ {t} : tab[u].socket # s,
           down'[s] = <<>>, \A r \in Sockets \ {s} : down'[r] = down[r],
           stored' = [stored EXCEPT ![t] = after.token], UNCHANGED <<mem, closing, cut, creator, told>>,
           \A p \in SavedBy(mem, after.token) : creator[p] = t,
           \A p \in told : creator[p] = t => p \in SavedBy(mem, after.token)
    PROVE  ReachableInv'
<1>1. PICK x \in TabState : /\ tab' = [tab EXCEPT ![t] = x]
                            /\ x.socket = s /\ x.acked = after.acked /\ x.token = after.token
                            /\ Join(x.id, x.token, t) \in UpMessage
                            /\ up' = SendUp(up, s, <<Join(x.id, x.token, t)>>)
  BY JoinSent
<1> DEFINE j == Join(x.id, x.token, t)
           messages == <<j>>
<1>2. up'[s] = <<j>> /\ \A r \in Sockets \ {s} : up'[r] = up[r]
  <2>1. j \in UpMessage /\ up' = [up EXCEPT ![s] = @ \o messages] /\ up \in [Sockets -> Seq(UpMessage)]
    BY <1>1 DEF SendUp, ReachableInv, HoldersInv, TypeOK
  <2> HIDE DEF j
  <2>2. messages \in Seq(UpMessage) /\ messages = <<j>>
    BY <2>1
  <2> HIDE DEF messages
  <2>3. <<>> \o messages = messages
    BY <2>2
  <2> QED
    BY <2>1, <2>2, <2>3
<1>3. \A p \in told : creator[p] \in Tabs
  BY DEF ReachableInv, TokensReachTheirTab
<1>4. x.socket = s /\ ~x.acked
  BY <1>1
<1> HIDE DEF messages
<1>5. up'[s] = <<Join(x.id, x.token, t)>>
  BY <1>2
<1> HIDE DEF j
<1>6. TabTurn(t, x, s)
  BY <1>1, <1>2, <1>3, <1>4, <1>5 DEF TabTurn
<1> QED
  BY <1>6, TabTurnReach

\* A tab whose token nothing knows asks again without one.
LEMMA ExpiredReceivedReach ==
    ASSUME ReachableInv, HoldersInv', ~SharedStore, NEW t \in Tabs, ReceiveExpired(t)
    PROVE  ReachableInv'
<1> DEFINE s == tab[t].socket
           after == [NoSession EXCEPT !.halted = FALSE]
           kind == "sessionExpired"
<1>1. /\ s # None /\ HeadIs(down[s], kind) /\ SendJoin(t, s, after) /\ down' = [down EXCEPT ![s] = Tail(@)]
      /\ Store(t, None) /\ UNCHANGED <<mem, open, closing, cut, creator, told>>
  BY DEF ReceiveExpired
<1>2. /\ s \in Sockets /\ down \in [Sockets -> Seq(DownMessage)] /\ stored \in [Tabs -> Tokens \cup {None}]
      /\ \A u \in Tabs \ {t} : tab[u].socket # s
      /\ mem \in Memory
  <2>1. /\ down \in [Sockets -> Seq(DownMessage)] /\ stored \in [Tabs -> Tokens \cup {None}]
        /\ mem \in Memory
    BY DEF ReachableInv, HoldersInv, TypeOK
  <2> QED
    BY <1>1, <2>1, OwnSocket
<1>3. /\ up[s] = <<>> /\ Tail(down[s]) = <<>> /\ ~Welcomed(t) /\ SavedBy(mem, tab[t].token) = {}
      /\ s \in open \ cut /\ s \notin closing /\ mem.sockets[s] = None
  <2>1. kind = "sessionExpired" /\ kind # "joined" /\ kind # "close" /\ tab[t].socket = s
    OBVIOUS
  <2> HIDE DEF kind, s
  <2> QED
    BY <1>1, <1>2, <2>1, Reading
<1>4. after \in TabState /\ after.acked = FALSE /\ after.token = None
  BY Afresh
<1> HIDE DEF after, kind
<1>5. \A p \in told : creator[p] # t
  BY <1>3, TokenHeld
<1>6. SavedBy(mem, after.token) = {}
  BY <1>2, <1>4, NoneOpensNothing
<1>7. stored' = [stored EXCEPT ![t] = after.token]
  BY <1>1, <1>2, <1>4 DEF Store, SameBrowser
<1>8. down'[s] = <<>> /\ \A r \in Sockets \ {s} : down'[r] = down[r]
  BY <1>1, <1>2, <1>3
<1> HIDE DEF s
<1>9. tab[t].socket = s
  BY DEF s
<1>10. /\ SendJoin(t, s, after) /\ UNCHANGED <<mem, closing, cut, creator, told>>
       /\ s \notin cut /\ s \in open' /\ open \subseteq open' /\ tab[t].socket \in {None, s}
  BY <1>1, <1>3, <1>9
<1>11. /\ \A p \in SavedBy(mem, after.token) : creator[p] = t
       /\ \A p \in told : creator[p] = t => p \in SavedBy(mem, after.token)
  BY <1>5, <1>6
<1> QED
  BY <1>2, <1>3, <1>4, <1>7, <1>8, <1>10, <1>11, Asking

LEMMA UnopenedFliesNothing ==
    ASSUME NEW m \in Memory, NEW op, Agree(m, op), NEW s \in Sockets, s \notin op
    PROVE  m.sockets[s] = None
<1> SUFFICES ASSUME m.sockets[s] # None
             PROVE  FALSE
  OBVIOUS
<1> DEFINE p == m.sockets[s]
<1>1. p \in Pilots
  BY DEF Memory
<1>2. m.session[p] # None /\ m.session[p].socket = s
  BY DEF Agree
<1>3. s # None
  BY Sentinels
<1> HIDE DEF p
<1> QED
  BY <1>1, <1>2, <1>3 DEF Agree

LEMMA ConnectReach ==
    ASSUME ReachableInv, HoldersInv', NEW t \in Tabs, NEW after \in TabState, after.acked = FALSE,
           after.token = tab[t].token, Connect(t, after)
    PROVE  ReachableInv'
<1> DEFINE s == opened + 1
<1>1. /\ tab[t].socket = None /\ s \in Sockets /\ open' = open \cup {s} /\ SendJoin(t, s, after)
      /\ UNCHANGED <<mem, down, closing, cut, stored, creator, told>>
  BY DEF Connect
<1>2. /\ opened \in Nat /\ closing \subseteq open /\ cut \subseteq open /\ SocketsAreOwned /\ Agree(mem, open)
      /\ mem \in Memory
  <2>1. HoldersInv /\ TypeOK
    BY DEF ReachableInv, HoldersInv
  <2>2. mem \in Memory /\ Agree(mem, open)
    BY <2>1, Before
  <2> QED
    BY <2>1, <2>2, PilotSessionsAssumption DEF HoldersInv, TypeOK
<1>3. s > opened /\ s \in Nat
  BY <1>2
<1>4. \A u \in Tabs : tab[u].socket # s
  <2> SUFFICES ASSUME NEW u \in Tabs, tab[u].socket = s
               PROVE  FALSE
    OBVIOUS
  <2>1. tab[u].socket # None
    BY <1>1, Sentinels
  <2>2. tab[u].socket <= opened
    BY <1>2, <2>1 DEF SocketsAreOwned
  <2> QED
    BY <1>2, <1>3, <2>2
<1>5. s \notin open /\ up[s] = <<>> /\ down[s] = <<>>
  BY <1>1, <1>2, <1>3 DEF SocketsAreOwned
<1> HIDE DEF s
<1>6. mem.sockets[s] = None
  BY <1>1, <1>2, <1>5, UnopenedFliesNothing
<1>7. ~AwaitsReply(t)
  BY <1>1 DEF AwaitsReply
<1>8. /\ stored' = [stored EXCEPT ![t] = after.token]
      /\ \A p \in SavedBy(mem, after.token) : creator[p] = t
      /\ \A p \in told : creator[p] = t => p \in SavedBy(mem, after.token)
  BY <1>1, <1>7, TokenHeld
<1> QED
  BY <1>1, <1>2, <1>4, <1>5, <1>6, <1>8, Asking

LEMMA SocketOpenedReach ==
    ASSUME ReachableInv, HoldersInv', NEW t \in Tabs, Start(t) \/ Reconnect(t)
    PROVE  ReachableInv'
<1>1. tab[t] \in TabState
  BY DEF ReachableInv, HoldersInv, TypeOK
<1>2. CASE Start(t)
  <2>1. PICK token \in {tab[t].token, stored[t]} :
          Connect(t, [NoSession EXCEPT !.token = token, !.halted = FALSE])
    BY <1>2 DEF Start
  <2>2. stored[t] = tab[t].token
    BY DEF ReachableInv, TokensReachTheirTab
  <2>3. token = tab[t].token /\ token \in Tokens \cup {None}
    BY <1>1, <2>1, <2>2 DEF TabState
  <2> DEFINE after == [NoSession EXCEPT !.token = token, !.halted = FALSE]
  <2>4. after \in TabState /\ after.acked = FALSE /\ after.token = token
    BY <2>3, AfreshWith, Zenon
  <2>5. Connect(t, after)
    BY <2>1
  <2> HIDE DEF after
  <2> QED
    BY <2>3, <2>4, <2>5, ConnectReach
<1>3. CASE Reconnect(t)
  <2>1. Connect(t, tab[t]) /\ tab[t].socket = None
    BY <1>3 DEF Reconnect, Connect
  <2>2. tab[t].acked = FALSE
    BY <1>1, <2>1 DEF ReachableInv, HoldersInv, TypeOK, TabState
  <2> QED
    BY <1>1, <2>1, <2>2, ConnectReach
<1> QED
  BY <1>2, <1>3

-----------------------------------------------------------------------------
(* A told pilot can be opened.                                             *)

LEMMA ReachInit ==
    ASSUME Init
    PROVE  ReachableInv
<1>1. NoSession.socket = None /\ NoSession.token = None
  BY DEF NoSession
<1>2. \A t \in Tabs : tab[t].socket = None /\ tab[t].token = None
  BY <1>1, Zenon DEF Init
<1>3. \A p \in Pilots : mem.pilots[p] = None
  BY DEF Init, Empty
<1>4. JoinsTakeTurns
  BY <1>2 DEF Init, JoinsTakeTurns, AwaitsReply
<1>5. stored = [t \in Tabs |-> tab[t].token]
  BY <1>2 DEF Init
<1>6. TokensReachTheirTab
  BY <1>2, <1>3, <1>5 DEF Init, TokensReachTheirTab, AwaitsReply, SavedBy
<1> QED
  BY <1>4, <1>6, HoldersInit DEF ReachableInv

LEMMA ReachNext ==
    ASSUME ~SharedStore, ~LosesReplies, ~Crashes, ReachableInv, [Next]_vars
    PROVE  ReachableInv'
<1>1. HoldersInv'
  BY HoldersNext DEF ReachableInv
<1>2. ASSUME NEW t \in Tabs, Tab(t)
      PROVE  ReachableInv'
  BY <1>1, <1>2, SocketOpenedReach, QuitReach, JoinedReceivedReach, ExpiredReceivedReach, ErrorReceivedReach,
     CloseReceivedReach, CutNoticedReach DEF Tab
<1>3. ASSUME NEW s \in Sockets, HandleJoin(s) \/ Leave(s) \/ CloseEvent(s) \/ Cut(s)
      PROVE  ReachableInv'
  BY <1>1, <1>3, RefusalReach, FreshReach, LiveReach, SavedReach, LeaveReach, CloseReach, CutReach DEF HandleJoin
<1>4. ASSUME NEW p \in Pilots, GraceEnds(p) \/ Trade(p)
      PROVE  ReachableInv'
  BY <1>1, <1>4, FlightReach
<1>5. CASE Frame \/ Checkpoint
  BY <1>1, <1>5, FrameReach, CheckpointReach
<1>6. CASE Crash
  BY <1>6 DEF Crash
<1>7. CASE UNCHANGED vars
  <2>1. SameTokens(mem, mem') /\ \A r \in Sockets : mem.sockets[r] = None => mem'.sockets[r] = None
    BY <1>7 DEF vars, SameTokens
  <2> QED
    BY <1>1, <1>7, <2>1, StillReach DEF vars
<1> QED
  BY <1>2, <1>3, <1>4, <1>5, <1>6, <1>7 DEF Next

LEMMA ReachableOpens ==
    ASSUME ReachableInv
    PROVE  PilotStaysReachable
<1> SUFFICES ASSUME NEW p \in told
             PROVE  \E t \in Tabs :
                      /\ SameBrowser(t, creator[p])
                      /\ \/ \E token \in {tab[t].token, stored[t]} \ {None} : Opens(token, p)
                         \/ /\ tab[t].socket # None
                            /\ \E i \in DOMAIN down[tab[t].socket] :
                                 LET m == down[tab[t].socket][i] IN m.type = "joined" /\ Opens(m.token, p)
  BY DEF PilotStaysReachable
<1>1. PICK t \in Tabs : creator[p] = t
  BY DEF ReachableInv, TokensReachTheirTab
<1>2. SameBrowser(t, creator[p])
  BY <1>1 DEF SameBrowser
<1>3. CASE AwaitsReply(t) /\ Welcomed(t)
  <2> DEFINE s == tab[t].socket
             q == down[s]
  <2>1. s \in Sockets /\ s # None
    BY <1>3, Waiting DEF AwaitsReply
  <2>2. q \in Seq(DownMessage) /\ q # <<>> /\ Head(q).type = "joined"
    BY <1>3, <2>1 DEF Welcomed, ReachableInv, HoldersInv, TypeOK
  <2>3. Head(q).id = p
    BY <1>1, <1>3, WhoIsTold
  <2>4. Head(q).id \in SavedBy(mem, Head(q).token)
    BY <1>3 DEF ReachableInv, TokensReachTheirTab
  <2> HIDE DEF q
  <2>5. 1 \in DOMAIN q /\ q[1].type = "joined" /\ p \in SavedBy(mem, q[1].token)
    BY <2>2, <2>3, <2>4
  <2>6. Opens(q[1].token, p)
    BY <2>5 DEF Opens
  <2> QED
    BY <1>2, <2>1, <2>5, <2>6 DEF q
<1>4. CASE ~(AwaitsReply(t) /\ Welcomed(t))
  <2>1. p \in SavedBy(mem, tab[t].token)
    BY <1>1, <1>4, WhoIsTold
  <2>2. mem \in Memory
    BY DEF ReachableInv, HoldersInv, TypeOK
  <2>3. tab[t].token # None /\ Opens(tab[t].token, p)
    BY <2>1, <2>2, NoneOpensNothing DEF Opens
  <2> QED
    BY <1>2, <2>3
<1> QED
  BY <1>3, <1>4

\* A pilot whose token has once reached a tab can still be opened, by a token that its tab
\* holds or is about to receive: through any order of closes, takeovers, expiries, saves and
\* restores, for any number of tabs. Each tab is a browser of its own and waits for the
\* answer to its join, and the process stays up: without any one of these it does not hold.
THEOREM PilotStaysReachableHolds ==
    ASSUME ~SharedStore, ~LosesReplies, ~Crashes
    PROVE  Spec => []PilotStaysReachable
<1>1. Init => ReachableInv
  BY ReachInit
<1>2. ReachableInv /\ [Next]_vars => ReachableInv'
  BY ReachNext
<1>3. ReachableInv => PilotStaysReachable
  BY ReachableOpens
<1> QED
  BY <1>1, <1>2, <1>3, PTL DEF Spec

-----------------------------------------------------------------------------
(* Numbers.                                                                *)

\* The longest span is there: a set of integers with a bound has a greatest one.
LEMMA Greatest ==
  ASSUME NEW S \in SUBSET Int, S # {}, NEW b \in Int, \A x \in S : x <= b
  PROVE  Max(S) \in S /\ \A y \in S : Max(S) >= y
<1> DEFINE T == {b - x : x \in S}
           R == OpToRel(<, Nat)
<1>1. IsWellFoundedOn(R, Nat)
  BY NatLessThanWellFounded
<1>2. \A x, y \in Nat : y < x => <<y, x>> \in R
  BY DEF OpToRel
<1>3. T \subseteq Nat /\ T # {}
  <2>1. \A x \in S : b - x \in Nat /\ b - x \in T
    OBVIOUS
  <2>2. \A t \in T : \E x \in S : t = b - x
    OBVIOUS
  <2> QED BY <2>1, <2>2
<1> HIDE DEF R, T
<1>4. PICK t \in T : \A u \in T : ~(<<u, t>> \in R)
  BY <1>1, <1>3, WFMin
<1>5. t \in Nat /\ \A u \in T : u \in Nat /\ ~(u < t)
  BY <1>2, <1>3, <1>4
<1>6. PICK x \in S : t = b - x
  BY <1>4 DEF T
<1>7. \A y \in S : b - y \in T
  BY DEF T
<1>8. \A y \in S : x >= y
  BY <1>5, <1>6, <1>7
<1>9. \E z \in S : \A y \in S : z >= y
  BY <1>8
<1> QED BY <1>9 DEF Max

\* An epoch opened for a lead, after a stall at least as long: `t' travelled, `c' and
\* `b' the credit at time `a', `p' what is paid for, `k' the credit at time `n'.
LEMMA StallPays ==
  ASSUME NEW t \in Nat, NEW a \in Nat, NEW p \in Nat, NEW n \in Nat, NEW k \in Nat,
         NEW l \in Nat, t <= a + p, k <= l, a + l <= n
  PROVE  t + k + 0 <= n + p
OBVIOUS

\* An epoch opened with what was there and what time has added since.
LEMMA TimePays ==
  ASSUME NEW t \in Nat, NEW s \in Nat, NEW a \in Nat, NEW p \in Nat, NEW n \in Nat,
         NEW k \in Nat, t + s <= a + p, a <= n, k <= s + (n - a)
  PROVE  t + k + 0 <= n + p
OBVIOUS

\* An epoch opened with one more lead, paid for.
LEMMA LeadPays ==
  ASSUME NEW t \in Nat, NEW a \in Nat, NEW p \in Nat, NEW n \in Nat, NEW k \in Nat,
         NEW l \in Nat, t <= a + p, a <= n, k <= l
  PROVE  t + k + 0 <= n + (p + l)
OBVIOUS

LEMMA Constants ==
  /\ FrameMs \in Nat \ {0} /\ CatchUp \in Nat \ {0} /\ MinSpan \in Nat
  /\ MaxDebt \in Nat /\ LeadTime \in Nat /\ HandoffTimeout \in Nat /\ HandoffTimeout >= LeadTime
  /\ Paces \subseteq Nat /\ MinSpan * FrameMs \in Nat
BY PoseAssumption DEF MaxDebt, LeadTime

\* Whole frames, what is left of one, and what is given up make what was owed.
LEMMA Frames ==
  ASSUME NEW owed \in Nat
  PROVE  LET drained == Consumed(owed) IN
         /\ drained.frames \in Nat /\ drained.rest \in Nat /\ drained.dropped \in Nat
         /\ drained.rest < FrameMs
         /\ drained.frames * FrameMs + drained.rest + drained.dropped = owed
<1> DEFINE bounded == Lesser(owed, MaxDebt)
<1>1. bounded \in Nat /\ bounded <= owed
  BY Constants DEF Lesser
<1>2. \A n \in Nat, f \in Nat \ {0} :
        n \div f \in Nat /\ n % f \in 0 .. f - 1 /\ (n \div f) * f + (n % f) = n
  OBVIOUS
<1> HIDE DEF bounded
<1>3. /\ bounded \div FrameMs \in Nat /\ bounded % FrameMs \in 0 .. FrameMs - 1
      /\ (bounded \div FrameMs) * FrameMs + (bounded % FrameMs) = bounded
  BY <1>1, <1>2, Constants
<1>4. Consumed(owed) = [frames |-> bounded \div FrameMs, rest |-> bounded % FrameMs,
                        dropped |-> owed - bounded]
  BY DEF Consumed, bounded
<1> DEFINE q == bounded \div FrameMs
           r == bounded % FrameMs
<1>5. /\ q \in Nat /\ r \in Nat /\ r < FrameMs /\ q * FrameMs \in Nat /\ q * FrameMs + r = bounded
  BY <1>3, Constants
<1> HIDE DEF q, r
<1>6. Consumed(owed) = [frames |-> q, rest |-> r, dropped |-> owed - bounded]
  BY <1>4 DEF q, r
<1> QED BY <1>1, <1>5, <1>6

\* Blocked time between two moments is never more than the time between them.
LEMMA Blocked ==
  ASSUME NEW from \in Nat, NEW to \in Nat, from <= to,
         spans \subseteq [from : Nat, to : Nat]
  PROVE  BlockedBetween(from, to) \in 0 .. (to - from)
<1> DEFINE S == {0} \cup {Lesser(span.to, to) - Greater(span.from, from) : span \in spans}
<1>1. \A span \in spans : /\ Lesser(span.to, to) - Greater(span.from, from) \in Int
                          /\ Lesser(span.to, to) - Greater(span.from, from) <= to
  BY DEF Lesser, Greater
<1>2. S \in SUBSET Int /\ S # {} /\ to \in Int /\ \A x \in S : x <= to
  BY <1>1
<1>3. 0 \in S /\ BlockedBetween(from, to) = Lesser(to - from, Max(S))
  BY DEF BlockedBetween
<1> HIDE DEF S
<1>4. Max(S) \in Int /\ Max(S) >= 0
  BY <1>2, <1>3, Greatest
<1> QED BY <1>3, <1>4 DEF Lesser

\* Silence and blocked time together are never credited beyond the time that passed.
LEMMA Grants ==
  ASSUME NEW elapsed \in Nat, NEW blocked \in 0 .. elapsed
  PROVE  Granted(elapsed, blocked) \in 0 .. elapsed
BY Constants DEF Granted, Lesser

-----------------------------------------------------------------------------
(* The clock.                                                              *)

\* The sums that the invariant is about.
Accounted == gameTime * FrameMs + debt + discarded = lastTick /\ debt < FrameMs
PaidFor == travelled + poseCredit + burstCredit <= poseAt + LeadTime * (1 + grants)

\* An epoch that is opened takes no more credit than there is.
LEMMA Opening ==
  ASSUME PoseTypeOK, NEW how \in {"free", "handoff"}, NEW credit \in Nat, Opened(how, credit)
  PROVE  /\ mode' \in {"free", "handoff"} /\ poseAt' = now /\ burstAt' = now /\ ship' = place
         /\ poseCredit' \in 0 .. LeadTime /\ poseCredit' <= credit /\ burstCredit' = 0
         /\ link' \in Seq(Nat) /\ arrived' \in Seq(Nat)
BY Constants DEF PoseTypeOK, Opened, Lesser

LEMMA StartTickInv == PoseInv /\ StartTick => PoseInv'
<1> SUFFICES ASSUME PoseInv, StartTick PROVE PoseInv'
  OBVIOUS
<1> DEFINE owed == debt + (now - lastTick)
           drained == Consumed(owed)
<1>1. /\ now \in Nat /\ lastTick \in Nat /\ debt \in Nat /\ gameTime \in Nat /\ discarded \in Nat
      /\ lastTick <= now /\ lastFinished \in Nat /\ due \in Nat /\ lastFinished <= now
      /\ gameTime * FrameMs + debt + discarded = lastTick
      /\ poseAt \in 0 .. now /\ place \in Nat /\ travelled \in Nat /\ grants \in Nat
      /\ poseCredit \in 0 .. LeadTime /\ burstCredit \in Nat
  BY DEF PoseInv, PoseTypeOK, TimeIsAccounted
<1>2. owed \in Nat
  BY <1>1
<1> HIDE DEF owed
<1>3. /\ drained.frames \in Nat /\ drained.rest \in Nat /\ drained.dropped \in Nat
      /\ drained.rest < FrameMs
      /\ drained.frames * FrameMs + drained.rest + drained.dropped = owed
  BY <1>2, Frames
<1>4. /\ debt' = drained.rest /\ gameTime' = gameTime + drained.frames
      /\ discarded' = discarded + drained.dropped /\ lastTick' = now
      /\ blockedFrom' = Greater(lastFinished, due) /\ due' = now + FrameMs /\ now >= due
      /\ loop' = "replaying"
      /\ UNCHANGED <<now, lastFinished, spans, place, holding, poseHistory>>
      /\ IF drained.frames > 0 /\ mode = "handoff" /\ now - poseAt >= HandoffTimeout
         THEN Opened("handoff", LeadTime)
         ELSE UNCHANGED <<creditVars, ship, link, arrived>>
  BY DEF StartTick, owed
<1> HIDE DEF drained
<1>5. TimeIsAccounted'
  <2> DEFINE F == drained.frames
             D == drained.rest
             X == drained.dropped
  <2>1. F \in Nat /\ D \in Nat /\ X \in Nat /\ FrameMs \in Nat /\ owed = debt + (now - lastTick)
    BY <1>3, Constants DEF owed
  <2> HIDE DEF F, D, X
  <2>2. (gameTime + F) * FrameMs = gameTime * FrameMs + F * FrameMs
        /\ gameTime * FrameMs \in Nat /\ F * FrameMs \in Nat
    BY <1>1, <2>1
  <2>3. F * FrameMs + D + X = owed /\ D < FrameMs
    BY <1>3 DEF F, D, X
  <2>4. (gameTime + F) * FrameMs + D + (discarded + X) = now
    BY <1>1, <2>1, <2>2, <2>3
  <2> QED BY <1>4, <2>3, <2>4 DEF TimeIsAccounted, F, D, X
<1>6. /\ debt' \in Nat /\ gameTime' \in Nat /\ discarded' \in Nat /\ lastTick' \in Nat
      /\ blockedFrom' \in Nat /\ due' \in Nat /\ blockedFrom' <= now
  BY <1>1, <1>3, <1>4, Constants DEF Greater
<1>7. CASE Opened("handoff", LeadTime) /\ now - poseAt >= HandoffTimeout
  <2>1. /\ mode' \in {"free", "handoff"} /\ poseAt' = now /\ burstAt' = now /\ ship' = place
        /\ poseCredit' \in 0 .. LeadTime /\ burstCredit' = 0
        /\ link' \in Seq(Nat) /\ arrived' \in Seq(Nat)
    BY <1>7, Opening, Constants DEF PoseInv
  <2>2. PoseTypeOK'
    BY <1>1, <1>4, <1>6, <2>1 DEF PoseInv, PoseTypeOK, Loops, poseHistory
  <2>3. PaidFor'
    <3>1. travelled + poseCredit + burstCredit <= poseAt + LeadTime * (1 + grants)
      BY DEF PoseInv
    <3>2. LeadTime * (1 + grants) \in Nat /\ LeadTime \in Nat
      BY <1>1, Constants
    <3> DEFINE paid == LeadTime * (1 + grants)
    <3>3. poseAt + LeadTime <= now
      BY <1>1, <1>7, Constants
    <3>6. /\ paid \in Nat /\ travelled + poseCredit + burstCredit <= poseAt + paid
      BY <3>1, <3>2
    <3> HIDE DEF paid
    <3>7. travelled <= poseAt + paid /\ poseCredit' <= LeadTime /\ poseCredit' \in Nat
      BY <1>1, <2>1, <3>2, <3>6
    <3>4. travelled + poseCredit' + 0 <= now + paid
      <4>1. travelled \in Nat /\ poseAt \in Nat /\ now \in Nat
        BY <1>1, <3>2
      <4> QED BY <3>2, <3>3, <3>6, <3>7, <4>1, StallPays
    <3>5. travelled' = travelled /\ grants' = grants
      BY <1>4 DEF poseHistory
    <3> QED BY <2>1, <3>4, <3>5 DEF PaidFor, paid
  <2> QED BY <1>1, <1>4, <1>5, <1>6, <2>2, <2>3 DEF PoseInv, PaidFor
<1>8. CASE UNCHANGED <<creditVars, ship, link, arrived>>
  <2>1. PoseTypeOK'
    BY <1>1, <1>4, <1>6, <1>8 DEF PoseInv, PoseTypeOK, Loops, poseHistory, creditVars
  <2> QED BY <1>1, <1>4, <1>5, <1>6, <1>8, <2>1 DEF PoseInv, creditVars, poseHistory
<1> QED BY <1>4, <1>7, <1>8

LEMMA FinishTickInv == PoseInv /\ FinishTick => PoseInv'
<1> SUFFICES ASSUME PoseInv, FinishTick PROVE PoseInv'
  OBVIOUS
<1>1. /\ now \in Nat /\ blockedFrom \in Nat /\ blockedFrom <= now
      /\ spans \subseteq [from : Nat, to : Nat]
      /\ \A span \in spans : span.from <= span.to /\ span.to <= now
  BY DEF PoseInv, PoseTypeOK, FinishTick
<1>2. /\ spans' = Recorded(blockedFrom, now) /\ lastFinished' = now /\ loop' = "polling"
      /\ UNCHANGED <<now, lastTick, due, blockedFrom, debt, gameTime, discarded>>
      /\ UNCHANGED <<sessionVars, flightVars, poseHistory>>
  BY DEF FinishTick
<1>3. /\ spans' \subseteq [from : Nat, to : Nat]
      /\ \A span \in spans' : span.from <= span.to /\ span.to <= now
  <2> DEFINE new == [from |-> blockedFrom, to |-> now]
  <2>1. new \in [from : Nat, to : Nat] /\ new.from <= new.to /\ new.to <= now
    BY <1>1
  <2>2. spans' \subseteq spans \cup {new}
    BY <1>2 DEF Recorded
  <2> HIDE DEF new
  <2> QED BY <1>1, <2>1, <2>2
<1>4. PoseTypeOK'
  BY <1>1, <1>2, <1>3 DEF PoseInv, PoseTypeOK, Loops, sessionVars, creditVars, flightVars, poseHistory
<1> QED BY <1>1, <1>2, <1>3, <1>4
    DEF PoseInv, TimeIsAccounted, sessionVars, creditVars, flightVars, poseHistory

\* Steps that leave the clock's sums and the session alone.
LEMMA AsideInv ==
  ASSUME PoseInv, PoseTypeOK', now' >= now,
         UNCHANGED <<lastTick, lastFinished, blockedFrom, debt, gameTime, discarded, spans>>,
         UNCHANGED <<poseAt, poseCredit, burstCredit, travelled, grants>>,
         loop' \in {"replaying", "slow"} => loop \in {"replaying", "slow"}
  PROVE  PoseInv'
<1>1. /\ now \in Nat /\ now' \in Nat /\ lastTick \in Nat /\ lastFinished \in Nat
      /\ blockedFrom \in Nat /\ \A span \in spans : span.to \in Nat
  BY DEF PoseInv, PoseTypeOK
<1> QED BY <1>1 DEF PoseInv, TimeIsAccounted

LEMMA BlockInv == PoseInv /\ (Block \/ Unblock) => PoseInv'
<1> SUFFICES ASSUME PoseInv, Block \/ Unblock PROVE PoseInv'
  OBVIOUS
<1>1. CASE Block
  <2>1. /\ UNCHANGED <<now, lastTick, lastFinished, due, blockedFrom, debt, gameTime>>
        /\ UNCHANGED <<discarded, spans, sessionVars, flightVars>>
        /\ UNCHANGED <<travelled, grants, heldFrom, honest, corrected>>
        /\ oddities' = oddities + 1
        /\ loop' = "stuck" \/ (loop = "replaying" /\ loop' = "slow")
    BY <1>1 DEF Block, Unusual
  <2>2. oddities' \in Nat /\ now \in Nat
    BY <2>1 DEF PoseInv, PoseTypeOK
  <2>3. PoseTypeOK'
    BY <2>1, <2>2 DEF PoseInv, PoseTypeOK, Loops, sessionVars, creditVars, flightVars
  <2> QED BY <2>1, <2>2, <2>3, AsideInv DEF sessionVars, creditVars
<1>2. CASE Unblock
  <2>1. /\ UNCHANGED <<now, lastTick, lastFinished, due, blockedFrom, debt, gameTime>>
        /\ UNCHANGED <<discarded, spans, sessionVars, flightVars, poseHistory>>
        /\ loop' = "polling"
    BY <1>2 DEF Unblock
  <2>2. now \in Nat
    BY DEF PoseInv, PoseTypeOK
  <2>3. PoseTypeOK'
    BY <2>1 DEF PoseInv, PoseTypeOK, Loops, sessionVars, creditVars, flightVars, poseHistory
  <2> QED BY <2>1, <2>2, <2>3, AsideInv DEF sessionVars, creditVars, poseHistory
<1> QED BY <1>1, <1>2

-----------------------------------------------------------------------------
(* The client and its link.                                                *)

LEMMA PassInv == ASSUME PoseInv, NEW pace \in Paces, Pass(pace) PROVE PoseInv'
<1>1. /\ now \in Nat /\ ship \in Nat /\ pace \in Nat /\ oddities \in Nat
      /\ link \in Seq(Nat) /\ arrived \in Seq(Nat) /\ poseAt \in 0 .. now
  BY Constants DEF PoseInv, PoseTypeOK
<1>2. /\ now' = now + 1 /\ ship' = ship + pace /\ UNCHANGED <<clockVars, sessionVars>>
      /\ UNCHANGED <<holding, travelled, grants, heldFrom, corrected>>
      /\ honest' \in BOOLEAN /\ (oddities' = oddities \/ oddities' = oddities + 1)
      /\ link' = link \/ link' = Append(link, ship')
      /\ arrived' = arrived \/ arrived' = Append(arrived, ship')
  BY DEF Pass, Unusual
<1>3. /\ now' \in Nat /\ ship' \in Nat /\ oddities' \in Nat /\ link' \in Seq(Nat)
      /\ arrived' \in Seq(Nat) /\ poseAt \in 0 .. now' /\ now' >= now
  <2>1. now' \in Nat /\ ship' \in Nat /\ oddities' \in Nat /\ poseAt \in 0 .. now' /\ now' >= now
    BY <1>1, <1>2
  <2>2. Append(link, ship') \in Seq(Nat) /\ Append(arrived, ship') \in Seq(Nat)
    BY <1>1, <2>1
  <2> QED BY <1>1, <1>2, <2>1, <2>2
<1>4. PoseTypeOK'
  BY <1>2, <1>3 DEF PoseInv, PoseTypeOK, clockVars, sessionVars, creditVars
<1> QED BY <1>2, <1>3, <1>4, AsideInv DEF clockVars, sessionVars, creditVars

LEMMA HoldInv == PoseInv /\ (Hold \/ Release) => PoseInv'
<1> SUFFICES ASSUME PoseInv, Hold \/ Release PROVE PoseInv'
  OBVIOUS
<1>1. now \in Nat /\ link \in Seq(Nat) /\ arrived \in Seq(Nat) /\ oddities \in Nat
  BY DEF PoseInv, PoseTypeOK
<1>2. CASE Hold
  <2>1. /\ UNCHANGED <<now, clockVars, sessionVars, ship, link, arrived>>
        /\ UNCHANGED <<travelled, grants, honest, corrected>>
        /\ holding' = TRUE /\ heldFrom' = now /\ oddities' = oddities + 1
    BY <1>2 DEF Hold, Unusual
  <2>2. PoseTypeOK'
    BY <1>1, <2>1 DEF PoseInv, PoseTypeOK, clockVars, sessionVars, creditVars
  <2> QED BY <1>1, <2>1, <2>2, AsideInv DEF clockVars, sessionVars, creditVars
<1>3. CASE Release
  <2>1. /\ UNCHANGED <<now, clockVars, sessionVars, ship>>
        /\ UNCHANGED <<travelled, grants, oddities, heldFrom, corrected>>
        /\ holding' = FALSE /\ arrived' = arrived \o link /\ link' = <<>>
        /\ honest' \in BOOLEAN
    BY <1>3 DEF Release
  <2>2. arrived' \in Seq(Nat) /\ link' \in Seq(Nat)
    BY <1>1, <2>1
  <2>3. PoseTypeOK'
    BY <1>1, <2>1, <2>2 DEF PoseInv, PoseTypeOK, clockVars, sessionVars, creditVars
  <2> QED BY <1>1, <2>1, <2>3, AsideInv DEF clockVars, sessionVars, creditVars
<1> QED BY <1>2, <1>3

-----------------------------------------------------------------------------
(* The session.                                                            *)

\* What a report that is accepted leaves of the credit.
LEMMA CreditLeft ==
  ASSUME NEW left \in Nat, NEW reserve \in Nat
  PROVE  LET lead == Lesser(LeadTime, left)
             excess == Lesser(reserve, left - lead)
         IN  lead \in 0 .. LeadTime /\ excess \in Nat /\ lead + excess <= left
BY Constants DEF Lesser

LEMMA ReadPoseInv == PoseInv /\ ReadPose => PoseInv'
<1> SUFFICES ASSUME PoseInv, ReadPose PROVE PoseInv'
  OBVIOUS
<1> DEFINE elapsed == now - poseAt
           blocked == BlockedBetween(poseAt, now)
           burst == IF now - burstAt > LeadTime THEN 0 ELSE burstCredit
           granted == Granted(elapsed, blocked)
           credit == poseCredit + burst + granted
           moved == IF Head(arrived) > place THEN Head(arrived) - place ELSE place - Head(arrived)
           left == credit - moved
           lead == Lesser(LeadTime, left)
           reserve == Greater(burst, MaxDebt + blocked)
           excess == Lesser(reserve, left - lead)
<1>1. /\ now \in Nat /\ poseAt \in 0 .. now /\ burstAt \in Nat /\ burstCredit \in Nat
      /\ poseCredit \in 0 .. LeadTime /\ place \in Nat /\ travelled \in Nat /\ grants \in Nat
      /\ spans \subseteq [from : Nat, to : Nat] /\ arrived \in Seq(Nat) /\ arrived # <<>>
  BY DEF PoseInv, PoseTypeOK, ReadPose
<1>2. Head(arrived) \in Nat /\ Tail(arrived) \in Seq(Nat)
  BY <1>1
<1>3. elapsed \in Nat /\ blocked \in 0 .. elapsed /\ blocked \in Nat
  <2>1. poseAt \in Nat /\ poseAt <= now /\ elapsed \in Nat
    BY <1>1
  <2>2. blocked \in 0 .. elapsed
    BY <1>1, <2>1, Blocked
  <2> QED BY <2>1, <2>2
<1>4. granted \in 0 .. elapsed
  BY <1>3, Grants
<1>5. burst \in Nat /\ burst <= burstCredit /\ moved \in Nat
  BY <1>1, <1>2
<1> HIDE DEF elapsed, blocked, granted, burst, moved
<1>6. credit \in Nat /\ credit <= poseCredit + burstCredit + elapsed /\ reserve \in Nat
  BY <1>1, <1>3, <1>4, <1>5, Constants DEF Greater
<1> HIDE DEF credit, reserve
<1>7. /\ UNCHANGED <<now, clockVars, holding, grants, oddities, heldFrom, honest>>
      /\ \/ /\ moved <= credit
            /\ poseCredit' = lead /\ burstCredit' = excess
            /\ burstAt' = burstAt \/ burstAt' = now
            /\ poseAt' = now /\ mode' = "free" /\ place' = Head(arrived)
            /\ travelled' = travelled + moved /\ arrived' = Tail(arrived)
            /\ UNCHANGED <<ship, link, corrected>>
         \/ /\ Opened("handoff", credit) /\ corrected' = TRUE
            /\ UNCHANGED <<place, travelled>>
  BY DEF ReadPose, Kept, elapsed, blocked, burst, granted, credit, moved, reserve
<1> DEFINE paid == LeadTime * (1 + grants)
<1>8. /\ paid \in Nat /\ travelled + poseCredit + burstCredit <= poseAt + paid
      /\ poseAt + elapsed = now
  BY <1>1, Constants DEF PoseInv, elapsed
<1> HIDE DEF paid
<1>9. CASE /\ moved <= credit
           /\ poseCredit' = lead /\ burstCredit' = excess
           /\ burstAt' = burstAt \/ burstAt' = now
           /\ poseAt' = now /\ mode' = "free" /\ place' = Head(arrived)
           /\ travelled' = travelled + moved /\ arrived' = Tail(arrived)
           /\ UNCHANGED <<ship, link, corrected>>
  <2>1. left \in Nat /\ left + moved = credit
    BY <1>5, <1>6, <1>9
  <2>2. lead \in 0 .. LeadTime /\ excess \in Nat /\ lead + excess <= left
    BY <1>6, <2>1, CreditLeft
  <2> HIDE DEF left, lead, excess
  <2>3. PoseTypeOK'
    <3>1. travelled' \in Nat /\ now \in 0 .. now
      BY <1>1, <1>5, <1>9
    <3> QED BY <1>1, <1>2, <1>7, <1>9, <2>2, <3>1 DEF PoseInv, PoseTypeOK, clockVars
  <2>4. travelled' + poseCredit' + burstCredit' <= now + paid
    BY <1>1, <1>3, <1>5, <1>6, <1>8, <1>9, <2>1, <2>2, Constants
  <2> QED BY <1>7, <1>9, <2>3, <2>4 DEF PoseInv, TimeIsAccounted, clockVars, paid
<1>10. CASE Opened("handoff", credit) /\ corrected' = TRUE /\ UNCHANGED <<place, travelled>>
  <2>1. /\ mode' \in {"free", "handoff"} /\ poseAt' = now /\ burstAt' = now /\ ship' = place
        /\ poseCredit' \in 0 .. LeadTime /\ poseCredit' <= credit /\ burstCredit' = 0
        /\ link' \in Seq(Nat) /\ arrived' \in Seq(Nat)
    BY <1>6, <1>10, Opening DEF PoseInv
  <2>2. PoseTypeOK'
    BY <1>1, <1>7, <1>10, <2>1 DEF PoseInv, PoseTypeOK, clockVars
  <2>3. travelled' + poseCredit' + burstCredit' <= now + paid
    <3>1. /\ poseCredit \in Nat /\ poseCredit' \in Nat /\ poseAt \in Nat
          /\ poseCredit' <= poseCredit + burstCredit + elapsed /\ travelled' = travelled
      BY <1>1, <1>3, <1>6, <1>10, <2>1, Constants
    <3>2. poseAt <= now /\ elapsed = now - poseAt
      BY <1>1 DEF elapsed
    <3> DEFINE credits == poseCredit + burstCredit
    <3>3. /\ travelled \in Nat /\ now \in Nat /\ paid \in Nat /\ credits \in Nat
          /\ travelled + credits <= poseAt + paid /\ poseCredit' <= credits + (now - poseAt)
      BY <1>1, <1>8, <3>1, <3>2
    <3> HIDE DEF credits, paid, elapsed
    <3>4. travelled + poseCredit' + 0 <= now + paid
      BY <3>1, <3>2, <3>3, TimePays
    <3> QED BY <2>1, <3>1, <3>4
  <2> QED BY <1>7, <2>1, <2>2, <2>3 DEF PoseInv, TimeIsAccounted, clockVars, paid
<1> QED BY <1>7, <1>9, <1>10

\* A life or an impulse is paid for with one more lead.
LEMMA RegrantInv ==
  ASSUME PoseInv, NEW how \in {"free", "handoff"}, Regrant(how)
  PROVE  PoseInv'
<1>1. /\ now \in Nat /\ grants \in Nat /\ oddities \in Nat /\ place \in Nat /\ travelled \in Nat
      /\ poseAt \in 0 .. now /\ poseCredit \in 0 .. LeadTime /\ burstCredit \in Nat
  BY DEF PoseInv, PoseTypeOK
<1>2. /\ grants' = grants + 1 /\ oddities' = oddities + 1 /\ Opened(how, LeadTime)
      /\ UNCHANGED <<now, clockVars, place, holding, travelled, heldFrom, honest, corrected>>
  BY DEF Regrant, Unusual
<1>3. /\ mode' \in {"free", "handoff"} /\ poseAt' = now /\ burstAt' = now /\ ship' = place
      /\ poseCredit' \in 0 .. LeadTime /\ burstCredit' = 0
      /\ link' \in Seq(Nat) /\ arrived' \in Seq(Nat)
  BY <1>2, Opening, Constants DEF PoseInv
<1>4. PoseTypeOK'
  BY <1>1, <1>2, <1>3 DEF PoseInv, PoseTypeOK, clockVars
<1> DEFINE paid == LeadTime * (1 + grants)
<1>5. /\ paid \in Nat /\ LeadTime * (1 + (grants + 1)) = paid + LeadTime
      /\ travelled + poseCredit + burstCredit <= poseAt + paid
  BY <1>1, Constants DEF PoseInv
<1>6. LeadTime * (1 + grants') = paid + LeadTime
  BY <1>2, <1>5
<1> HIDE DEF paid
<1>7. travelled + poseCredit' + 0 <= now + (paid + LeadTime)
  <2>1. /\ poseCredit' \in Nat /\ poseCredit' <= LeadTime /\ LeadTime \in Nat
        /\ poseAt \in Nat /\ poseAt <= now /\ travelled <= poseAt + paid
    BY <1>1, <1>3, <1>5, Constants
  <2>2. travelled \in Nat /\ now \in Nat /\ paid \in Nat
    BY <1>1, <1>5
  <2> QED BY <2>1, <2>2, LeadPays
<1> QED BY <1>2, <1>3, <1>4, <1>6, <1>7 DEF PoseInv, TimeIsAccounted, clockVars

-----------------------------------------------------------------------------
(* The game loop and the session.                                          *)

LEMMA InitInv == PoseInit => PoseInv
<1> SUFFICES ASSUME PoseInit PROVE PoseInv
  OBVIOUS
<1>1. PoseTypeOK
  <2>1. LeadTime \in 0 .. LeadTime /\ FrameMs \in Nat /\ 0 \in 0 .. 0
    BY Constants
  <2>2. /\ <<>> \in Seq(Nat) /\ {} \subseteq [from : Nat, to : Nat]
        /\ "polling" \in Loops /\ "free" \in {"free", "handoff"}
    BY DEF Loops
  <2> QED BY <2>1, <2>2 DEF PoseInit, PoseTypeOK
<1>2. /\ gameTime * FrameMs + debt + discarded = 0 /\ 0 < FrameMs
      /\ LeadTime * (1 + 0) = LeadTime
  BY Constants DEF PoseInit
<1> QED BY <1>1, <1>2, Constants DEF PoseInit, PoseInv, TimeIsAccounted

LEMMA StepInv == PoseInv /\ [PoseNext]_poseVars => PoseInv'
<1> SUFFICES ASSUME PoseInv, [PoseNext]_poseVars PROVE PoseInv'
  OBVIOUS
<1>1. CASE UNCHANGED poseVars
  <2>1. /\ UNCHANGED <<now, clockVars, sessionVars>> /\ UNCHANGED <<flightVars, poseHistory>>
    BY <1>1 DEF poseVars
  <2>2. PoseTypeOK'
    BY <2>1 DEF PoseInv, PoseTypeOK, clockVars, sessionVars, creditVars, flightVars, poseHistory
  <2>3. now' >= now
    BY <2>1 DEF PoseInv, PoseTypeOK
  <2> QED BY <2>1, <2>2, <2>3, AsideInv DEF clockVars, sessionVars, creditVars, poseHistory
<1>2. CASE PoseNext
  BY <1>2, StartTickInv, FinishTickInv, BlockInv, PassInv, HoldInv, ReadPoseInv, RegrantInv
     DEF PoseNext
<1> QED BY <1>1, <1>2

\* The inductive invariant of the clock and the credit it pays for.
THEOREM PoseInvHolds == PoseSpec => []PoseInv
BY InitInv, StepInv, PTL DEF PoseSpec

\* Every moment up to the last tick has been simulated, is owed or was given up, and
\* less than a frame is owed (stepClock, consumeTickAccumulator).
THEOREM TimeIsAccountedHolds == PoseSpec => []TimeIsAccounted
<1>1. PoseInv => TimeIsAccounted
  BY DEF PoseInv
<1> QED BY PoseInvHolds, <1>1, PTL

\* However reports are held and released, and however long the loop is blocked, a
\* session travels no further than the fastest flight in the time it has existed, and a
\* lead for each epoch the server opened on its own account (acceptFreePose).
THEOREM TravelWithinServerTimeHolds == PoseSpec => []TravelWithinServerTime
<1>1. ASSUME PoseInv PROVE TravelWithinServerTime
  <2>1. /\ now \in Nat /\ poseAt \in 0 .. now /\ travelled \in Nat /\ grants \in Nat
        /\ poseCredit \in Nat /\ burstCredit \in Nat /\ LeadTime * (1 + grants) \in Nat
    BY <1>1, Constants DEF PoseInv, PoseTypeOK
  <2> QED BY <1>1, <2>1 DEF PoseInv, TravelWithinServerTime
<1> QED BY PoseInvHolds, <1>1, PTL
=============================================================================
