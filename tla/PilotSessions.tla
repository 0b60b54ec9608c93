--------------------------- MODULE PilotSessions ---------------------------
(* Which browser tab flies which pilot.                                    *)
(*                                                                         *)
(* Server side: the entity of a pilot and the socket it answers to         *)
(* (EntityManager), its motion session, bearer token and reconnect grace   *)
(* (PlayerMotionService), the saved pilot row with the digest of the token *)
(* (GameEngine.pilots) and what of it is in the database. Browser side:    *)
(* the private token of ConnectionManager, its copy in localStorage (which *)
(* the tabs of one browser share) and the join handshake. Between them, a  *)
(* socket is an ordered queue each way that may be closed by either end or *)
(* cut.                                                                    *)
(*                                                                         *)
(* A pilot's progress is one number, its cargo: the field that only a      *)
(* capture copies from the ship to the saved row. Time is the state of a   *)
(* grace period (none, running, over), not a clock.                        *)
EXTENDS Naturals, Sequences

CONSTANTS
  Tabs,         \* browser tabs
  SharedStore,  \* TRUE: the tabs are tabs of one browser (one localStorage)
  Pilots,       \* 1..n, pilot ids a run may mint
  Tokens,       \* 1..n, bearer tokens a run may hold at once
  Sockets,      \* 1..n, the sockets a run may open
  Cargo,        \* amounts of cargo, 0 among them
  LosesReplies, \* a tab may leave or lose its socket before a join is answered
  Crashes,      \* the server process may die and restart
  Sleeps,       \* a tab may send no pose for thirty seconds
  None          \* a sentinel: no socket, no token, no id, nobody

ASSUME PilotSessionsAssumption ==
  /\ Pilots \subseteq Nat /\ Tokens \subseteq Nat /\ Sockets \subseteq Nat
  /\ {SharedStore, LosesReplies, Crashes, Sleeps} \subseteq BOOLEAN
  /\ 0 \in Cargo
  /\ None \notin Pilots \cup Tokens \cup Sockets \cup Tabs

VARIABLES
  mem,     \* the server's memory: pilots, dirty, actor, session, sockets
  db,      \* the saved pilot rows
  up,      \* per socket, client to server
  down,    \* per socket, server to client
  opened,  \* how many sockets have been opened
  open,    \* sockets whose close event the server has not seen
  closing, \* open sockets on which the server has called close()
  cut,     \* open sockets whose network is gone
  tab,     \* per tab: socket, id, token, acked, halted, me
  stored,  \* per tab, the token in the localStorage it sees
  earned,  \* ghost: the progress each pilot is owed
  creator, \* ghost: the tab whose first join created the pilot
  told     \* ghost: pilots whose token has reached a tab

vars == <<mem, db, up, down, opened, open, closing, cut, tab, stored, earned, creator, told>>

-----------------------------------------------------------------------------
(* The server's memory, and the operations of the engine on it.            *)

Digest(token) == <<"sha256", token>>

SavedRow == [tokenHash: {Digest(t) : t \in Tokens}, cargo: Cargo]
Actor    == [ws: Sockets \cup {None}, cargo: Cargo]
Session  == [token: Tokens, socket: Sockets \cup {None}, grace: {"none", "running", "over"}]

ASSUME SentinelAssumption == None \notin SavedRow \cup Actor \cup Session

Present(m) == {p \in Pilots : m.actor[p] # None}

\* setPilot
SetPilot(m, p, row) == [m EXCEPT !.pilots[p] = row, !.dirty = @ \cup {p}]

\* capturePilot: the saved row takes the ship's progress and keeps its digest.
CapturePilot(m, p) ==
  IF m.pilots[p] = None \/ m.actor[p] = None THEN m
  ELSE SetPilot(m, p, [m.pilots[p] EXCEPT !.cargo = m.actor[p].cargo])

\* Mutant: the socket map keeps the removed session's socket.
RemoveSessionOnly(m, p) == [m EXCEPT !.session[p] = None]

\* PlayerMotionService.removeSession
RemoveSession(m, p) ==
  IF m.session[p] = None THEN m
  ELSE [m EXCEPT !.session[p] = None,
                 !.sockets = [s \in Sockets |->
                                IF s = m.session[p].socket THEN None ELSE @[s]]]

\* Mutant: the session goes first and the ship is not captured.
RemovePlayerUncaptured(m, p) == [RemoveSession(m, p) EXCEPT !.actor[p] = None]

\* GameEngine.removePlayer
RemovePlayer(m, p) ==
  [RemoveSession(CapturePilot(m, p), p) EXCEPT !.actor[p] = None]

\* GameEngine.addPlayer, with the restored cargo
AddPlayer(m, p, s, cargo) == [m EXCEPT !.actor[p] = [ws |-> s, cargo |-> cargo]]

\* Mutant: the saved row keeps the digest it had.
RegisterPilotKeepingDigest(m, p, s, token) ==
  SetPilot([m EXCEPT !.session[p] = [token |-> token, socket |-> s, grace |-> "none"],
                     !.sockets[s] = p],
           p, [tokenHash |-> IF m.pilots[p] = None THEN Digest(token) ELSE m.pilots[p].tokenHash,
               cargo |-> m.actor[p].cargo])

\* GameEngine.registerPilot: a session with a new token, and its digest saved.
RegisterPilot(m, p, s, token) ==
  SetPilot([m EXCEPT !.session[p] = [token |-> token, socket |-> s, grace |-> "none"],
                     !.sockets[s] = p],
           p, [tokenHash |-> Digest(token), cargo |-> m.actor[p].cargo])

\* Mutant: the deadline of the interrupted grace keeps running.
TakeOverKeepingDeadline(m, p, s) ==
  [m EXCEPT !.sockets = [r \in Sockets |->
                           IF r = s THEN p
                           ELSE IF r = m.session[p].socket THEN None ELSE @[r]],
            !.session[p] = [@ EXCEPT !.socket = s],
            !.actor[p].ws = s]

\* PlayerMotionService.resume of a live session on a socket that owns nothing
TakeOver(m, p, s) ==
  [m EXCEPT !.sockets = [r \in Sockets |->
                           IF r = s THEN p
                           ELSE IF r = m.session[p].socket THEN None ELSE @[r]],
            !.session[p] = [@ EXCEPT !.socket = s, !.grace = "none"],
            !.actor[p].ws = s]

\* PlayerMotionService.owner: all three records must name the same pair.
Owner(m, s) ==
  LET p == m.sockets[s] IN
  IF p # None /\ m.session[p] # None /\ m.session[p].socket = s /\ m.actor[p].ws = s
  THEN p ELSE None

\* The socket a takeover leaves behind; the handler closes it.
Superseded(m, p, s) == {m.session[p].socket} \ {None, s}

\* Mutant: no deadline is set.
TransportClosedForGood(m, p, s) ==
  [m EXCEPT !.sockets[s] = None,
            !.session[p] = [@ EXCEPT !.socket = None],
            !.actor[p].ws = None]

\* PlayerMotionService.transportClosed: the session outlives its socket.
TransportClosed(m, p, s) ==
  [m EXCEPT !.sockets[s] = None,
            !.session[p] = [@ EXCEPT !.socket = None, !.grace = "running"],
            !.actor[p].ws = None]

\* EntityManager.getEntityBySocket
PlayersBySocket(m, s) == {p \in Present(m) : m.actor[p].ws = s}

\* checkpointWorld captures every live pilot, and saves the dirty rows.
Captured(m) ==
  [m EXCEPT !.pilots = [p \in Pilots |-> CapturePilot(m, p).pilots[p]],
            !.dirty  = @ \cup {p \in Present(m) : m.pilots[p] # None}]
Saved(m, d)  == [p \in Pilots |-> IF p \in Captured(m).dirty THEN Captured(m).pilots[p] ELSE d[p]]
Flushed(m)   == [Captured(m) EXCEPT !.dirty = {}]

\* updatePauseState: the last departure flushes at once, or as soon as the
\* writer is idle again.
AfterRemoval(m, d) ==
  {<<m, d>>} \cup IF Present(m) = {} THEN {<<Flushed(m), Saved(m, d)>>} ELSE {}

-----------------------------------------------------------------------------
(* Ids and tokens are recycled once nothing refers to them, which keeps    *)
(* the state finite and stands for randomness that never repeats. Sockets  *)
(* are numbered in the order they open: Sockets bounds a run's connections.*)

Messages == UNION {{up[s][i] : i \in DOMAIN up[s]} \cup {down[s][i] : i \in DOMAIN down[s]} :
                   s \in Sockets}

TokensInUse ==
  {tab[t].token : t \in Tabs} \cup {stored[t] : t \in Tabs}
  \cup {m.token : m \in {n \in Messages : "token" \in DOMAIN n}}
  \cup {mem.session[p].token : p \in {q \in Pilots : mem.session[q] # None}}
  \cup {t \in Tokens : \E p \in Pilots, rows \in {mem.pilots, db} :
                         rows[p] # None /\ rows[p].tokenHash = Digest(t)}

IdsInUse ==
  {tab[t].id : t \in Tabs} \cup {tab[t].me : t \in Tabs}
  \cup {m.id : m \in {n \in Messages : "id" \in DOMAIN n}}
  \cup {p \in Pilots : mem.pilots[p] # None \/ db[p] # None \/ mem.actor[p] # None}

Least(S) == CHOOSE n \in S : \A k \in S : n <= k
Free(All, used) == All \ used

SameBrowser(t, u) == t = u \/ SharedStore
Store(t, token) == stored' = [u \in Tabs |-> IF SameBrowser(t, u) THEN token ELSE stored[u]]

-----------------------------------------------------------------------------
(* Sockets.                                                                *)

\* "from" is ghost: the tab that sent the join, for creator.
Join(id, token, from) == [type |-> "join", id |-> id, token |-> token, from |-> from]
Joined(id, token) == [type |-> "joined", id |-> id, token |-> token]
Signal(type) == [type |-> type]

HeadIs(q, type) == q # <<>> /\ Head(q).type = type

\* Mutant: the pilot of the socket is looked up before the join has entered it.
SendDownThroughMap(q, s, message) ==
  IF s \in closing \cup cut \/ mem.sockets[s] = None THEN q
  ELSE [q EXCEPT ![s] = Append(@, message)]

\* Sends to a socket that is closing or cut go nowhere.
SendDown(q, s, message) ==
  IF s \in closing \cup cut THEN q ELSE [q EXCEPT ![s] = Append(@, message)]

\* The close frame of a superseded socket.
SendClose(q, olds) ==
  [s \in Sockets |-> IF s \in olds THEN SendDown(q, s, Signal("close"))[s] ELSE q[s]]

\* Either end closing in good order: frames already written are delivered.
SendUp(q, s, messages) == IF s \in cut THEN q ELSE [q EXCEPT ![s] = @ \o messages]

-----------------------------------------------------------------------------
(* The browser tab (ConnectionManager).                                    *)

NoSession == [socket |-> None, id |-> None, token |-> None, acked |-> FALSE,
              halted |-> TRUE, me |-> None]

\* initializeAsteroidSync sends the join with whatever token the tab holds; a
\* tab without one joins under its client id, minted on first use.
SendJoin(t, s, after) ==
  \E id \in IF after.token # None \/ after.id # None THEN {after.id}
            ELSE IF Free(Pilots, IdsInUse) = {} THEN {} ELSE {Least(Free(Pilots, IdsInUse))} :
    /\ tab' = [tab EXCEPT ![t] = [after EXCEPT !.socket = s, !.id = id]]
    /\ up' = SendUp(up, s, <<Join(id, after.token, t)>>)

\* Opening a socket: the menu's start, under a new client id, with the token
\* the page read from localStorage when it loaded or has been given since ...
Connect(t, after) ==
  /\ tab[t].socket = None
  /\ opened + 1 \in Sockets
  /\ opened' = opened + 1
  /\ open' = open \cup {opened'}
  /\ SendJoin(t, opened', after)
  /\ UNCHANGED <<mem, db, down, closing, cut, stored, earned, creator, told>>

Start(t) ==
  /\ tab[t].halted
  /\ \E token \in {tab[t].token, stored[t]} :
       Connect(t, [NoSession EXCEPT !.token = token, !.halted = FALSE])

\* ... or the reconnect timer, after a close nobody asked for.
Reconnect(t) == ~tab[t].halted /\ Connect(t, tab[t])

\* handleSocketClosed
SocketGone(t, halted) ==
  [tab[t] EXCEPT !.socket = None, !.acked = FALSE, !.halted = halted, !.me = None]

ReceiveJoined(t) ==
  LET s == tab[t].socket IN
  /\ s # None /\ HeadIs(down[s], "joined")
  /\ LET m == Head(down[s]) IN
       /\ tab' = [tab EXCEPT ![t] = [@ EXCEPT !.acked = TRUE, !.token = m.token, !.me = m.id]]
       /\ Store(t, m.token)
       /\ told' = told \cup {m.id}
  /\ down' = [down EXCEPT ![s] = Tail(@)]
  /\ UNCHANGED <<mem, db, up, opened, open, closing, cut, earned, creator>>

\* sessionExpired: forget the credential, in the page and in localStorage, and
\* join as a new pilot on the same socket.
ReceiveExpired(t) ==
  LET s == tab[t].socket IN
  /\ s # None /\ HeadIs(down[s], "sessionExpired")
  /\ SendJoin(t, s, [NoSession EXCEPT !.halted = FALSE])
  /\ Store(t, None)
  /\ down' = [down EXCEPT ![s] = Tail(@)]
  /\ UNCHANGED <<mem, db, opened, open, closing, cut, earned, creator, told>>

\* disconnect: a joined tab says so, then the socket is retired.
Disconnect(t, leaves) ==
  LET s == tab[t].socket IN
  /\ tab' = [tab EXCEPT ![t] = SocketGone(t, TRUE)]
  /\ up' = SendUp(up, s, (IF leaves THEN <<Signal("leave")>> ELSE <<>>) \o <<Signal("close")>>)

\* An error before the join is acknowledged ends it (failJoinCompletion).
ReceiveError(t) ==
  LET s == tab[t].socket IN
  /\ s # None /\ HeadIs(down[s], "error")
  /\ IF tab[t].acked THEN UNCHANGED <<tab, up>> ELSE Disconnect(t, FALSE)
  /\ down' = [down EXCEPT ![s] = Tail(@)]
  /\ UNCHANGED <<mem, db, opened, open, closing, cut, stored, earned, creator, told>>

\* The close frame of a server that superseded the socket. No code is special:
\* the tab reconnects as after any other close.
ReceiveClose(t) ==
  LET s == tab[t].socket IN
  /\ s # None /\ HeadIs(down[s], "close")
  /\ tab' = [tab EXCEPT ![t] = SocketGone(t, FALSE)]
  /\ up' = SendUp(up, s, <<Signal("close")>>)
  /\ down' = [down EXCEPT ![s] = Tail(@)]
  /\ UNCHANGED <<mem, db, opened, open, closing, cut, stored, earned, creator, told>>

\* A join this tab sent has not been answered.
AwaitsReply(t) == tab[t].socket # None /\ ~tab[t].acked

MayLose(t) == LosesReplies \/ ~AwaitsReply(t)

\* The player quits, the page is hidden, or the join timer runs out.
Quit(t) ==
  /\ tab[t].socket # None /\ MayLose(t)
  /\ Disconnect(t, tab[t].acked)
  /\ UNCHANGED <<mem, db, down, opened, open, closing, cut, stored, earned, creator, told>>

\* The network is cut: what is in flight either way is gone.
Cut(s) ==
  /\ s \in open \ cut
  /\ \A t \in Tabs : tab[t].socket = s => MayLose(t)
  /\ cut' = cut \cup {s}
  /\ up' = [up EXCEPT ![s] = <<>>]
  /\ down' = [down EXCEPT ![s] = <<>>]
  /\ UNCHANGED <<mem, db, opened, open, closing, tab, stored, earned, creator, told>>

\* The tab notices: an error or close event, or six seconds of silence. On a
\* socket the server has closed the same timer applies.
NoticeCut(t) ==
  LET s == tab[t].socket IN
  /\ s # None /\ (s \in cut \/ s \notin open)
  /\ s \notin open => down[s] = <<>>
  /\ tab' = [tab EXCEPT ![t] = SocketGone(t, FALSE)]
  /\ UNCHANGED <<mem, db, up, down, opened, open, closing, cut, stored, earned, creator, told>>

-----------------------------------------------------------------------------
(* The server's handler of a join (MessageHandler.handleJoin with          *)
(* GameEngine.resumePilot and registerPilot). Each branch is an action.    *)

Inbound(s, type) == s \in open \ cut /\ HeadIs(up[s], type)
Consume(s) == up' = [up EXCEPT ![s] = Tail(@)]

\* A session is found by its token until its grace is over.
LiveBy(m, token) ==
  {p \in Pilots : m.session[p] # None /\ m.session[p].token = token /\ m.session[p].grace # "over"}

\* A saved row is found by the digest.
SavedBy(m, token) ==
  {p \in Pilots : m.pilots[p] # None /\ m.pilots[p].tokenHash = Digest(token)}

\* A socket that already flies another pilot may not join as this one.
FliesAnother(s, id) == \E p \in PlayersBySocket(mem, s) : p # id

Answer(s, message) ==
  /\ Consume(s) /\ down' = SendDown(down, s, message)
  /\ UNCHANGED <<opened, open, cut, tab, stored, told>>

JoinRejected(s) ==
  /\ Inbound(s, "join")
  /\ LET id == Head(up[s]).id  token == Head(up[s]).token IN
       \/ FliesAnother(s, id)
       \/ /\ token = None
          /\ \/ mem.actor[id] # None \/ mem.pilots[id] # None
             \/ Present(mem) # {}     \* another live pilot may carry the name
  /\ Answer(s, Signal("error"))
  /\ UNCHANGED <<mem, db, closing, earned, creator>>

\* A fresh join: a new pilot, its session and its saved row.
JoinFresh(s) ==
  /\ Inbound(s, "join") /\ Head(up[s]).token = None
  /\ Free(Tokens, TokensInUse) # {}
  /\ LET id == Head(up[s]).id
         token == Least(Free(Tokens, TokensInUse)) IN
       /\ ~FliesAnother(s, id) /\ mem.actor[id] = None /\ mem.pilots[id] = None
       /\ mem' = RegisterPilot(AddPlayer(mem, id, s, 0), id, s, token)
       /\ earned' = [earned EXCEPT ![id] = 0]
       /\ creator' = [creator EXCEPT ![id] = Head(up[s]).from]
       /\ Answer(s, Joined(id, token))
  /\ UNCHANGED <<db, closing>>

\* The token names a live session: the socket takes it over, and the socket it
\* had is closed. A socket that already owns it gets the same answer again.
ResumeLive(s) ==
  /\ Inbound(s, "join")
  /\ \E p \in LiveBy(mem, Head(up[s]).token) :
       LET superseded == Superseded(mem, p, s)
           sent == SendDown(down, s, Joined(p, mem.session[p].token))
       IN /\ ~FliesAnother(s, Head(up[s]).id) /\ mem.sockets[s] \in {None, p}
          /\ mem' = TakeOver(mem, p, s)
          /\ down' = SendClose(sent, superseded)
          /\ closing' = closing \cup superseded
  /\ Consume(s)
  /\ UNCHANGED <<db, opened, open, cut, tab, stored, earned, creator, told>>

\* The row a pilot is rebuilt from: it is read again after the removal.
Restored(before, after, p) == after.pilots[p]

\* Only the saved row knows the token: the pilot is rebuilt from it under a new
\* token. A ship whose grace is over may still be there; removing it saves it
\* first, and the row is read again after that.
ResumeSaved(s) ==
  /\ Inbound(s, "join")
  /\ LiveBy(mem, Head(up[s]).token) = {}
  /\ Free(Tokens, TokensInUse) # {}
  /\ \E p \in SavedBy(mem, Head(up[s]).token) :
       /\ ~FliesAnother(s, Head(up[s]).id) /\ PlayersBySocket(mem, s) = {}
       /\ \E w \in IF mem.actor[p] = None THEN {<<mem, db>>}
                   ELSE AfterRemoval(RemovePlayer(mem, p), db) :
            LET m == w[1]
                token == Least(Free(Tokens, TokensInUse))
            IN /\ mem' = RegisterPilot(AddPlayer(m, p, s, Restored(mem, m, p).cargo), p, s, token)
               /\ db' = w[2]
               /\ Answer(s, Joined(p, token))
  /\ UNCHANGED <<closing, earned, creator>>

\* Nothing knows the token.
ResumeRefused(s) ==
  /\ Inbound(s, "join") /\ Head(up[s]).token # None
  /\ ~FliesAnother(s, Head(up[s]).id)
  /\ LiveBy(mem, Head(up[s]).token) = {} /\ SavedBy(mem, Head(up[s]).token) = {}
  /\ Answer(s, Signal("sessionExpired"))
  /\ UNCHANGED <<mem, db, closing, earned, creator>>

-----------------------------------------------------------------------------
(* The rest of the server.                                                 *)

\* leave removes whatever pilot the socket flies.
Leave(s) ==
  /\ Inbound(s, "leave")
  /\ LET flown == PlayersBySocket(mem, s) IN
       \E w \in IF flown = {} THEN {<<mem, db>>}
                ELSE AfterRemoval(RemovePlayer(mem, CHOOSE p \in flown : TRUE), db) :
         mem' = w[1] /\ db' = w[2]
  /\ Consume(s)
  /\ UNCHANGED <<down, opened, open, closing, cut, tab, stored, earned, creator, told>>

\* The close event: an owning socket puts its session in grace; otherwise a
\* ship still on that socket is removed.
CloseEvent(s) ==
  /\ s \in open /\ (s \in cut \/ HeadIs(up[s], "close"))
  /\ LET owner == Owner(mem, s)
         flown == PlayersBySocket(mem, s)
     IN \E w \in IF owner # None THEN {<<TransportClosed(mem, owner, s), db>>}
                 ELSE IF flown = {} THEN {<<mem, db>>}
                 ELSE AfterRemoval(RemovePlayer(mem, CHOOSE p \in flown : TRUE), db) :
          mem' = w[1] /\ db' = w[2]
  /\ open' = open \ {s} /\ closing' = closing \ {s} /\ cut' = cut \ {s}
  /\ up' = [up EXCEPT ![s] = <<>>] /\ down' = [down EXCEPT ![s] = <<>>]
  /\ UNCHANGED <<opened, tab, stored, earned, creator, told>>

\* Two seconds pass.
GraceEnds(p) ==
  /\ mem.session[p] # None /\ mem.session[p].grace = "running"
  /\ mem' = [mem EXCEPT !.session[p].grace = "over"]
  /\ UNCHANGED <<db, up, down, opened, open, closing, cut, tab, stored, earned, creator, told>>

\* One frame: stale ships go first, then the sessions whose grace is over.
\* The frame does neither while the world is paused, with nobody in it.
\* Each removal changes what is its own pilot's, so their order does not matter.
RemoveAll(m, gone) ==
  [m EXCEPT !.pilots  = [p \in Pilots |-> IF p \in gone THEN RemovePlayer(m, p).pilots[p] ELSE @[p]],
            !.dirty   = @ \cup UNION {RemovePlayer(m, p).dirty : p \in gone},
            !.actor   = [p \in Pilots |-> IF p \in gone THEN RemovePlayer(m, p).actor[p] ELSE @[p]],
            !.session = [p \in Pilots |-> IF p \in gone THEN RemovePlayer(m, p).session[p] ELSE @[p]],
            !.sockets = [s \in Sockets |-> IF \E p \in gone : RemovePlayer(m, p).sockets[s] = None
                                          THEN None ELSE @[s]]]

Expired(m) == {p \in Pilots : m.session[p] # None /\ m.session[p].grace = "over"}

Frame ==
  \E stale \in IF Sleeps THEN SUBSET Present(mem) ELSE {{}} :
    LET gone == stale \cup Expired(mem) IN
    /\ gone # {}
    /\ \E w \in AfterRemoval(RemoveAll(mem, gone), db) : mem' = w[1] /\ db' = w[2]
    /\ UNCHANGED <<up, down, opened, open, closing, cut, tab, stored, earned, creator, told>>

\* Flying: the cargo changes hands.
Trade(p) ==
  /\ mem.actor[p] # None
  /\ \E c \in Cargo \ {mem.actor[p].cargo} :
       /\ mem' = [mem EXCEPT !.actor[p].cargo = c]
       /\ earned' = [earned EXCEPT ![p] = c]
  /\ UNCHANGED <<db, up, down, opened, open, closing, cut, tab, stored, creator, told>>

\* checkpointWorld: once a second while somebody plays, and once more when a
\* flush is owed.
Checkpoint ==
  /\ Present(mem) # {} \/ mem.dirty # {}
  /\ db' = Saved(mem, db)
  /\ mem' = Flushed(mem)
  /\ UNCHANGED <<up, down, opened, open, closing, cut, tab, stored, earned, creator, told>>

Empty(rows) == [pilots  |-> rows, dirty |-> {},
                actor   |-> [p \in Pilots |-> None],
                session |-> [p \in Pilots |-> None],
                sockets |-> [s \in Sockets |-> None]]

\* The process dies and starts again from the database.
Crash ==
  /\ Crashes
  /\ \A t \in Tabs : MayLose(t)
  /\ mem' = Empty(db)
  /\ open' = {} /\ closing' = {} /\ cut' = {}
  /\ up' = [s \in Sockets |-> <<>>] /\ down' = [s \in Sockets |-> <<>>]
  /\ earned' = [p \in Pilots |-> IF db[p] = None THEN 0 ELSE db[p].cargo]
  /\ told' = told \cap {p \in Pilots : db[p] # None}
  /\ UNCHANGED <<db, opened, tab, stored, creator>>

-----------------------------------------------------------------------------
Init ==
  /\ db = [p \in Pilots |-> None]
  /\ mem = Empty(db)
  /\ up = [s \in Sockets |-> <<>>] /\ down = [s \in Sockets |-> <<>>]
  /\ opened = 0 /\ open = {} /\ closing = {} /\ cut = {}
  /\ tab = [t \in Tabs |-> NoSession]
  /\ stored = [t \in Tabs |-> None]
  /\ earned = [p \in Pilots |-> 0]
  /\ creator = [p \in Pilots |-> None]
  /\ told = {}

Tab(t) ==
  \/ Start(t) \/ Reconnect(t) \/ Quit(t)
  \/ ReceiveJoined(t) \/ ReceiveExpired(t) \/ ReceiveError(t) \/ ReceiveClose(t)
  \/ NoticeCut(t)

HandleJoin(s) ==
  JoinRejected(s) \/ JoinFresh(s) \/ ResumeLive(s) \/ ResumeSaved(s) \/ ResumeRefused(s)

Next ==
  \/ \E t \in Tabs : Tab(t)
  \/ \E s \in Sockets : HandleJoin(s) \/ Leave(s) \/ CloseEvent(s) \/ Cut(s)
  \/ \E p \in Pilots : GraceEnds(p) \/ Trade(p)
  \/ Frame \/ Checkpoint \/ Crash

Spec == Init /\ [][Next]_vars

\* The frame timer runs, time passes, and messages are delivered and handled.
Fairness ==
  /\ \A t \in Tabs : WF_vars(ReceiveJoined(t) \/ ReceiveExpired(t) \/ ReceiveError(t)
                               \/ ReceiveClose(t) \/ NoticeCut(t))
  /\ \A s \in Sockets : WF_vars(HandleJoin(s) \/ Leave(s) \/ CloseEvent(s))
  /\ \A p \in Pilots : WF_vars(GraceEnds(p))
  /\ WF_vars(Frame)

FairSpec == Spec /\ Fairness

-----------------------------------------------------------------------------
(* Properties                                                              *)

Memory == [pilots: [Pilots -> SavedRow \cup {None}], dirty: SUBSET Pilots,
           actor: [Pilots -> Actor \cup {None}], session: [Pilots -> Session \cup {None}],
           sockets: [Sockets -> Pilots \cup {None}]]

TabState == [socket: Sockets \cup {None}, id: Pilots \cup {None}, token: Tokens \cup {None},
             acked: BOOLEAN, halted: BOOLEAN, me: Pilots \cup {None}]

JoinMessage == [type: {"join"}, id: Pilots \cup {None}, token: Tokens \cup {None}, from: Tabs]
UpMessage   == {m \in JoinMessage : m.token = None => m.id # None} \cup [type: {"leave", "close"}]
DownMessage == [type: {"joined"}, id: Pilots, token: Tokens]
                 \cup [type: {"sessionExpired", "error", "close"}]

\* Every part of the state has its shape.
TypeOK ==
  /\ mem \in Memory
  /\ db \in [Pilots -> SavedRow \cup {None}]
  /\ up \in [Sockets -> Seq(UpMessage)] /\ down \in [Sockets -> Seq(DownMessage)]
  /\ opened \in {0} \cup Sockets
  /\ open \subseteq Sockets /\ closing \subseteq open /\ cut \subseteq open
  /\ tab \in [Tabs -> TabState]
  /\ \A t \in Tabs : tab[t].acked => tab[t].socket # None /\ tab[t].me # None
  /\ stored \in [Tabs -> Tokens \cup {None}]
  /\ earned \in [Pilots -> Cargo]
  /\ told \subseteq Pilots

\* The three records the server keeps of who flies what agree: a ship exists
\* exactly while its session does, the two name the same socket, the socket
\* map names the same pilot back, and only an open socket flies anything.
\* (EntityManager.entities, PlayerMotionService.sessions and sockets, changed by
\* join, takeover, close, leave, expiry and restore in whatever order.)
RecordsAgree ==
  /\ \A p \in Pilots :
       /\ (mem.actor[p] # None) = (mem.session[p] # None)
       /\ mem.session[p] # None =>
            LET s == mem.session[p].socket IN
            /\ mem.actor[p].ws = s
            /\ (s = None) = (mem.session[p].grace # "none")
            /\ s # None => s \in open /\ mem.sockets[s] = p
  /\ \A s \in Sockets : mem.sockets[s] # None =>
       mem.session[mem.sockets[s]] # None /\ mem.session[mem.sockets[s]].socket = s

\* A tab that was told it flies a pilot does fly it, unless its socket has
\* been closed or cut or word of that is on the way: a takeover by another
\* socket, the late close of an old one, or the expiry of an earlier grace
\* never takes the ship from under it.
TabFliesItsShip ==
  \A t \in Tabs :
    LET s == tab[t].socket IN
    s # None /\ tab[t].acked /\ s \in open \ (closing \cup cut)
      => mem.session[tab[t].me] # None /\ mem.session[tab[t].me].socket = s

\* A pilot's progress is neither lost nor stale: while it flies, its ship
\* carries it, and when it is gone its saved row does, through leave, expiry,
\* takeover and restore; and a saved row the engine believes durable, because it
\* has not marked it dirty, is what the database holds.
ProgressIsKept ==
  \A p \in Pilots :
    /\ mem.actor[p] # None => mem.actor[p].cargo = earned[p]
    /\ mem.actor[p] = None /\ mem.pilots[p] # None => mem.pilots[p].cargo = earned[p]
    /\ p \notin mem.dirty => mem.pilots[p] = db[p]

\* A token opens a pilot: its session is live, or the saved row has its digest.
Opens(token, p) == p \in LiveBy(mem, token) \cup SavedBy(mem, token)

\* "Private resume tokens recover a browser's bank, cargo and purchase receipts
\* across disconnects and server restarts" (docs/asteroid-interactions.md:43):
\* a pilot whose token has once reached a tab can still be opened by a token
\* that a tab of its browser holds, has stored, or is about to receive.
PilotStaysReachable ==
  \A p \in told :
    \E t \in Tabs :
      /\ SameBrowser(t, creator[p])
      /\ \/ \E token \in {tab[t].token, stored[t]} \ {None} : Opens(token, p)
         \/ /\ tab[t].socket # None
            /\ \E i \in DOMAIN down[tab[t].socket] :
                 LET m == down[tab[t].socket][i] IN m.type = "joined" /\ Opens(m.token, p)

\* "The server explicitly rejected this credential; discard it so the next menu join
\* creates a fresh pilot instead of retrying forever" (ConnectionManager.ts:1013): what a
\* browser forgets is a credential that opens nothing any more, whichever of its tabs
\* is answered and whatever another tab has stored meanwhile.
OnlyRejectedIsForgotten ==
  [][\A t \in Tabs : stored[t] # None /\ stored'[t] = None =>
       \A p \in Pilots : ~Opens(stored[t], p)]_vars

\* The saved row of a pilot with a session opens with the session's token.
TokensAgree ==
  \A p \in Pilots : mem.session[p] # None =>
    mem.pilots[p] # None /\ mem.pilots[p].tokenHash = Digest(mem.session[p].token)

\* A socket is one tab's, which only asks to join on it: a tab that says more has let
\* go of it. Nothing is on a socket that was never opened.
SocketsAreOwned ==
  /\ \A t, u \in Tabs : tab[t].socket # None /\ tab[t].socket = tab[u].socket => t = u
  /\ \A t \in Tabs : tab[t].socket # None =>
       /\ tab[t].socket <= opened
       /\ \A i \in DOMAIN up[tab[t].socket] : up[tab[t].socket][i].type = "join"
  /\ \A s \in Sockets : s > opened => s \notin open /\ up[s] = <<>> /\ down[s] = <<>>

\* A joined acknowledgment on its way to a tab is still true when it arrives.
AnswersAreTrue ==
  \A t \in Tabs :
    LET s == tab[t].socket IN
    s # None /\ s \in open \ (closing \cup cut) =>
      \A i \in DOMAIN down[s] : down[s][i].type = "joined" =>
        mem.session[down[s][i].id] # None /\ mem.session[down[s][i].id].socket = s

\* The inductive invariant. A tab that is quiet for thirty seconds is not told that its
\* ship has gone.
HoldersInv ==
  /\ TypeOK /\ RecordsAgree /\ ProgressIsKept /\ TokensAgree /\ SocketsAreOwned
  /\ ~Sleeps => AnswersAreTrue /\ TabFliesItsShip

\* A join is on its way up, or has been refused, or its pilot is on the way down.
Asked(t) ==
  LET s == tab[t].socket IN
  up[s] = <<Join(tab[t].id, tab[t].token, t)>> /\ down[s] = <<>>

Refused(t) ==
  LET s == tab[t].socket IN
  /\ up[s] = <<>>
  /\ \/ down[s] = <<Signal("error")>>
     \/ down[s] = <<Signal("sessionExpired")>> /\ SavedBy(mem, tab[t].token) = {}

Welcomed(t) ==
  LET s == tab[t].socket IN
  /\ up[s] = <<>>
  /\ down[s] # <<>> /\ Head(down[s]).type = "joined"
  /\ \A i \in DOMAIN down[s] : i > 1 => down[s][i].type = "close"

\* A browser and its server take turns: there is one join or one answer on the socket of a
\* tab that waits for it, which flies nothing until then, and neither on any other.
JoinsTakeTurns ==
  /\ \A t \in Tabs : AwaitsReply(t) =>
       LET s == tab[t].socket IN
       /\ s \in open \ cut
       /\ Welcomed(t) \/ ((Asked(t) \/ Refused(t)) /\ mem.sockets[s] = None /\ s \notin closing)
  /\ \A s \in Sockets : (\A t \in Tabs : AwaitsReply(t) => tab[t].socket # s) =>
       /\ \A i \in DOMAIN up[s] : up[s][i].type # "join"
       /\ \A i \in DOMAIN down[s] : down[s][i].type = "close"

\* A saved row opens with one token, held by the tab that created its pilot or on its way
\* there.
TokensReachTheirTab ==
  /\ creator \in [Pilots -> Tabs \cup {None}]
  /\ stored = [t \in Tabs |-> tab[t].token]
  /\ \A p, q \in Pilots :
       mem.pilots[p] # None /\ mem.pilots[q] # None
         /\ mem.pilots[p].tokenHash = mem.pilots[q].tokenHash => p = q
  /\ \A t \in Tabs : \A p \in SavedBy(mem, tab[t].token) : creator[p] = t
  /\ \A t \in Tabs : AwaitsReply(t) /\ Welcomed(t) =>
       LET m == Head(down[tab[t].socket]) IN
       m.id \in SavedBy(mem, m.token) /\ creator[m.id] = t
  /\ \A p \in told : creator[p] \in Tabs
  /\ \A t \in Tabs : \A p \in told : creator[p] = t =>
       IF AwaitsReply(t) /\ Welcomed(t) THEN Head(down[tab[t].socket]).id = p
       ELSE p \in SavedBy(mem, tab[t].token)

\* Inductive while every tab is a browser of its own and waits for its answers, and the
\* process stays up.
ReachableInv == HoldersInv /\ JoinsTakeTurns /\ TokensReachTheirTab

\* A ship whose socket is gone does not stay: it is resumed or removed.
ShipsDoNotLinger ==
  \A p \in Pilots :
    (mem.actor[p] # None /\ mem.actor[p].ws = None) ~> (mem.actor[p] = None \/ mem.actor[p].ws # None)

\* A join is answered, or its socket is closed: no tab waits for ever.
JoinsAreAnswered ==
  \A t \in Tabs : AwaitsReply(t) ~> ~AwaitsReply(t)
=============================================================================
