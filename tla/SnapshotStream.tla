---------------------------- MODULE SnapshotStream ----------------------------
(***************************************************************************)
(* The stream of world snapshots to one pilot: the server's record of the  *)
(* recipient (server/services/GameStateBroadcaster.ts), the ordered        *)
(* WebSocket in both directions, the client's decoder                      *)
(* (shared/snapshotProtocol.ts SnapshotDecoder) and its acknowledgments    *)
(* and recovery requests (src/network/services/ConnectionManager.ts),      *)
(* over one connection after another.                                      *)
(*                                                                         *)
(* Worlds are numbered; a frame is the number of the world it captured.    *)
(* An offer the server skips (buffered bytes, a frame too big for the      *)
(* window, debt older than 750 ms) changes nothing in the code either.     *)
(* Time is abstracted: the applied-acknowledgment timeout may strike       *)
(* whenever a frame is outstanding.                                        *)
(***************************************************************************)
EXTENDS Sequences, Amounts

CONSTANTS
    WindowFrames,   \* SNAPSHOT_APPLIED_WINDOW_FRAMES
    WindowBytes,    \* SNAPSHOT_APPLIED_WINDOW_BYTES
    Sizes,          \* sizes a frame may have
    MaxWorlds,      \* bound on the worlds published
    MaxEvents,      \* bound on faults, rejoins and spontaneous resyncs together
    Faults,         \* frames a client may fail on: "delta", "keyframe", "apply"
    Timeouts        \* whether the applied-acknowledgment timeouts exist

ASSUME StreamAssumption ==
    /\ WindowFrames \in Nat \ {0}
    /\ WindowBytes \in Nat \ {0}
    /\ Sizes \subseteq Nat \ {0}
    /\ MaxWorlds \in Nat \ {0}
    /\ MaxEvents \in Nat
    /\ Faults \subseteq {"delta", "keyframe", "apply"}
    /\ Timeouts \in BOOLEAN

VARIABLES
    world,      \* the newest world
    offered,    \* the world of the last frame submitted on this connection
    recipient,  \* SnapshotRecipient of the server's socket
    owner,      \* the server's socket is bound to the pilot
    socket,     \* the server's socket: "open" or "closing"
    toClient,   \* frames and "joined" messages on their way
    toServer,   \* "join", "resync" and ack messages on their way
    up,         \* the client still has its socket
    client,     \* the client's side of the session
    view,       \* the last world the client applied whole, 0 before the first
    events      \* faults, rejoins and spontaneous resyncs so far

serverVars == <<recipient, owner, socket, offered>>
clientVars == <<up, client, view, events>>
vars == <<world, offered, recipient, owner, socket, toClient, toServer, up, client, view, events>>

NoBaseline == [sequence |-> 0, world |-> 0]
NoFlight == [sequence |-> 0, bytes |-> 0]

\* The generation of the first join is 1 here and 0 in the code.
NewRecipient ==
    [baseline |-> NoBaseline, sequence |-> 0, pending |-> NoFlight, needsKeyframe |-> TRUE,
     generation |-> 0, applied |-> 0, flights |-> {}, outstanding |-> 0,
     resync |-> FALSE, recovery |-> 0]

NewClient ==
    [ready |-> FALSE, decoder |-> NoBaseline, resync |-> FALSE, accepted |-> 0,
     joins |-> 0]

\* A keyframe has no base; a delta only decodes to its world over the same base.
Snapshot(n, base, w) ==
    [type |-> "snapshot", sequence |-> n, base |-> base.sequence, from |-> base.world, world |-> w]
Joined == [type |-> "joined"]
Join == [type |-> "join"]
Resync == [type |-> "resync"]
Ack(n) == [type |-> "ack", sequence |-> n]

\* What the window keeps of a frame.  The list of flights is a set here: their numbers,
\* which never repeat, are its order.
Flight(p) == [sequence |-> p.sequence, bytes |-> p.bytes, recovery |-> p.recovery]

Bytes(frames) == Total([f \in frames |-> f.bytes])

Init ==
    /\ world = 1
    /\ offered = 0
    /\ recipient = NewRecipient
    /\ owner = FALSE
    /\ socket = "open"
    /\ toClient = <<>>
    /\ toServer = <<>>
    /\ up = TRUE
    /\ client = NewClient
    /\ view = 0
    /\ events = 0

-----------------------------------------------------------------------------
(* The server.                                                             *)

Step ==
    /\ world < MaxWorlds
    /\ world' = world + 1
    /\ UNCHANGED <<toClient, toServer>> /\ UNCHANGED serverVars /\ UNCHANGED clientVars

\* canOfferSnapshot: a recovery frame has a reserve beside the window.
CanOffer(r) ==
    /\ r.pending = NoFlight
    /\ r.recovery = 0
    /\ r.outstanding <= WindowBytes
    /\ r.resync \/ (Cardinality(r.flights) < WindowFrames /\ r.outstanding < WindowBytes)

\* canAdmitSnapshot, once the frame's size is known.
CanAdmit(r, bytes) ==
    \/ r.resync
    \/ bytes > WindowBytes /\ r.flights = {}
    \/ Cardinality(r.flights) < WindowFrames /\ r.outstanding + bytes <= WindowBytes

\* broadcastGameState to recipient r, with line already on its way.  The bound: a
\* world is offered once, unless a keyframe is due or the client waits for a frame.
Submit(r, line) ==
    /\ CanOffer(r)
    /\ r.needsKeyframe \/ world # offered \/ client.resync
    /\ \E bytes \in Sizes, base \in {NoBaseline} \cup (IF r.needsKeyframe THEN {} ELSE {r.baseline}) :
        /\ CanAdmit(r, bytes)
        /\ recipient' = [r EXCEPT
              !.pending = [sequence |-> r.sequence + 1, bytes |-> bytes, recovery |-> r.resync,
                           generation |-> r.generation, world |-> world, applied |-> FALSE],
              !.outstanding = @ + bytes,
              !.recovery = IF r.resync THEN r.sequence + 1 ELSE @,
              !.needsKeyframe = FALSE]
        /\ toClient' = Append(line, Snapshot(r.sequence + 1, base, world))
    /\ offered' = world

Offer ==
    /\ owner /\ socket = "open"
    /\ Submit(recipient, toClient)
    /\ UNCHANGED <<world, owner, socket, toServer>> /\ UNCHANGED clientVars

\* closeSocketForRecovery: the pilot is unbound, then the socket closes.
CloseSocket ==
    /\ owner' = FALSE
    /\ socket' = "closing"

\* Mutant: the timeout is not looked at while a recovery frame is outstanding.
ExpireUnlessRecovering ==
    /\ Timeouts
    /\ owner /\ socket = "open"
    /\ recipient.recovery = 0
    /\ recipient.flights # {} \/ recipient.pending # NoFlight
    /\ CloseSocket
    /\ UNCHANGED <<world, recipient, offered, toClient, toServer>> /\ UNCHANGED clientVars

\* SNAPSHOT_APPLIED_TIMEOUT_MS, found by the next broadcast.
Expire ==
    /\ Timeouts
    /\ owner /\ socket = "open"
    /\ recipient.flights # {} \/ recipient.pending # NoFlight
    /\ CloseSocket
    /\ UNCHANGED <<world, recipient, offered, toClient, toServer>> /\ UNCHANGED clientVars

\* A message that meets a full buffer closes the socket instead.
Backpressure ==
    /\ owner /\ socket = "open"
    /\ CloseSocket
    /\ UNCHANGED <<world, recipient, offered, toClient, toServer>> /\ UNCHANGED clientVars

\* applySnapshotCredit: frames up to n leave the window.
Credited(r, n) ==
    LET retired == {f \in r.flights : f.sequence <= n}
        recovered == \E f \in retired : f.recovery
    IN [r EXCEPT !.applied = n,
                 !.flights = @ \ retired,
                 !.outstanding = @ - Bytes(retired),
                 !.recovery = IF recovered THEN 0 ELSE @,
                 !.resync = @ /\ ~recovered]

\* Mutant: a frame of an old generation becomes the baseline of the new one.
AcceptedAcrossJoins(r) ==
    LET p == r.pending
        sent == [r EXCEPT
            !.pending = NoFlight,
            !.sequence = p.sequence,
            !.flights = @ \cup {Flight(p)},
            !.baseline = [sequence |-> p.sequence, world |-> p.world],
            !.needsKeyframe = FALSE]
    IN IF p.applied THEN Credited(sent, p.sequence) ELSE sent

\* Mutant: the baseline is the world at the time of the callback.
AcceptedReadLate(r) ==
    LET p == r.pending
        sent == [r EXCEPT
            !.pending = NoFlight,
            !.sequence = p.sequence,
            !.flights = @ \cup {Flight(p)},
            !.baseline = IF p.generation = r.generation
                         THEN [sequence |-> p.sequence, world |-> world] ELSE @,
            !.needsKeyframe = @ \/ p.generation # r.generation]
    IN IF p.applied THEN Credited(sent, p.sequence) ELSE sent

\* The send callback: the pending frame was accepted by the transport.
Accepted(r) ==
    LET p == r.pending
        sent == [r EXCEPT
            !.pending = NoFlight,
            !.sequence = p.sequence,
            !.flights = @ \cup {Flight(p)},
            !.baseline = IF p.generation = r.generation
                         THEN [sequence |-> p.sequence, world |-> p.world] ELSE @,
            !.needsKeyframe = @ \/ p.generation # r.generation]
    IN IF p.applied THEN Credited(sent, p.sequence) ELSE sent

TransportAccepts ==
    /\ recipient.pending # NoFlight
    /\ recipient' = Accepted(recipient)
    /\ UNCHANGED <<world, owner, socket, offered, toClient, toServer>> /\ UNCHANGED clientVars

\* The send callback reports an error.
TransportFails ==
    /\ recipient.pending # NoFlight
    /\ recipient' = [recipient EXCEPT
          !.pending = NoFlight,
          !.outstanding = @ - recipient.pending.bytes,
          !.recovery = IF @ = recipient.pending.sequence THEN 0 ELSE @,
          !.needsKeyframe = TRUE]
    /\ CloseSocket
    /\ UNCHANGED <<world, offered, toClient, toServer>> /\ UNCHANGED clientVars

\* negotiateSnapshot, for the first join of a socket and for a rejoin.
Negotiated(r) ==
    [r EXCEPT !.generation = @ + 1, !.baseline = NoBaseline, !.needsKeyframe = TRUE]

\* handleJoin: negotiate, acknowledge, broadcast.
HandleJoin(message) ==
    /\ message.type = "join"
    /\ owner' = TRUE
    /\ \/ /\ socket = "open"
          /\ \/ recipient' = Negotiated(recipient) /\ toClient' = Append(toClient, Joined)
                /\ UNCHANGED offered
             \/ Submit(Negotiated(recipient), Append(toClient, Joined))
       \/ /\ socket = "closing"
          /\ recipient' = Negotiated(recipient)
          /\ UNCHANGED <<offered, toClient>>
    /\ UNCHANGED socket

\* acknowledgeSnapshot: a receipt may race the send callback of its frame.
Acknowledged(r, n) ==
    IF n <= r.applied THEN r
    ELSE IF n <= r.sequence THEN Credited(r, n)
    ELSE IF n = r.pending.sequence THEN [r EXCEPT !.pending.applied = TRUE]
    ELSE r

HandleAck(message) ==
    /\ message.type = "ack"
    /\ recipient' = IF owner THEN Acknowledged(recipient, message.sequence) ELSE recipient
    /\ UNCHANGED <<owner, socket, offered, toClient>>

\* requestSnapshotKeyframe for a client that rejected a frame.
HandleResync(message) ==
    /\ message.type = "resync"
    /\ \/ /\ ~owner \/ recipient.resync
          /\ UNCHANGED <<recipient, owner, socket>>
       \/ /\ owner /\ ~recipient.resync /\ recipient.outstanding > WindowBytes
          /\ CloseSocket
          /\ UNCHANGED recipient
       \/ /\ owner /\ ~recipient.resync /\ recipient.outstanding <= WindowBytes
          /\ recipient' = [recipient EXCEPT !.needsKeyframe = TRUE, !.resync = TRUE]
          /\ UNCHANGED <<owner, socket>>
    /\ UNCHANGED <<offered, toClient>>

ServerReads ==
    /\ toServer # <<>>
    /\ toServer' = Tail(toServer)
    /\ \/ HandleJoin(Head(toServer))
       \/ HandleAck(Head(toServer))
       \/ HandleResync(Head(toServer))
    /\ UNCHANGED world /\ UNCHANGED clientVars

-----------------------------------------------------------------------------
(* The client.                                                             *)

\* initializeAsteroidSync: the join of a new socket, and the odd rejoin.
SendJoin ==
    /\ up
    /\ \/ client.joins = 0 /\ UNCHANGED events
       \/ client.joins > 0 /\ events < MaxEvents /\ events' = events + 1
    /\ client' = [client EXCEPT !.joins = @ + 1]
    /\ toServer' = Append(toServer, Join)
    /\ UNCHANGED <<world, toClient, up, view>> /\ UNCHANGED serverVars

\* sendSnapshotResync of a page that becomes visible again.
SendResync ==
    /\ up /\ client.ready /\ ~client.resync
    /\ events < MaxEvents
    /\ events' = events + 1
    /\ client' = [client EXCEPT !.resync = TRUE]
    /\ toServer' = Append(toServer, Resync)
    /\ UNCHANGED <<world, toClient, up, view>> /\ UNCHANGED serverVars

ReadJoined(message) ==
    /\ message.type = "joined"
    /\ client' = [client EXCEPT !.ready = TRUE, !.decoder = NoBaseline, !.resync = FALSE]
    /\ UNCHANGED <<toServer, view, events>>

\* SnapshotDecoder.#decodeOwned: whether a frame follows the decoder's baseline.
Fits(f) ==
    /\ f.sequence > client.decoder.sequence
    /\ \/ f.base = 0
       \/ client.decoder # NoBaseline /\ f.base = client.decoder.sequence
          /\ f.sequence = client.decoder.sequence + 1

Garbled == MaxWorlds + 1

\* The world a frame decodes to.
Decoded(f) == IF f.base = 0 \/ f.from = client.decoder.world THEN f.world ELSE Garbled

Kind(f) == IF f.base = 0 THEN "keyframe" ELSE "delta"

\* A fault of the client strikes a frame: kind is what it fails on.
Fault(kind) ==
    /\ kind \in Faults
    /\ events < MaxEvents
    /\ events' = events + 1

\* requestSnapshotResync: one request until a frame is applied.
AskAgain(c) ==
    /\ client' = [c EXCEPT !.resync = TRUE]
    /\ toServer' = IF c.resync THEN toServer ELSE Append(toServer, Resync)

\* A frame is rejected: the decoder keeps its baseline.
RejectFrame(f) ==
    /\ f.type = "snapshot" /\ client.ready
    /\ \/ ~Fits(f) /\ AskAgain(client) /\ UNCHANGED events
       \/ Fits(f) /\ Fault(Kind(f)) /\ AskAgain(client)
    /\ UNCHANGED view

\* handleSnapshot: the frame is applied whole and acknowledged.
ApplyFrame(f) ==
    /\ f.type = "snapshot" /\ client.ready /\ Fits(f)
    /\ client' = [client EXCEPT !.decoder = [sequence |-> f.sequence, world |-> Decoded(f)],
                                !.resync = FALSE,
                                !.accepted = f.sequence]
    /\ view' = Decoded(f)
    /\ toServer' = Append(toServer, Ack(f.sequence))
    /\ UNCHANGED events

\* handleSnapshot: the decoder has moved on, but applying the world failed.
FailToApply(f) ==
    /\ f.type = "snapshot" /\ client.ready /\ Fits(f)
    /\ Fault("apply")
    /\ AskAgain([client EXCEPT !.decoder = [sequence |-> f.sequence, world |-> Decoded(f)],
                               !.resync = FALSE])
    /\ UNCHANGED view

\* A snapshot ahead of its "joined" would end the game: see SnapshotsFollowJoined.
ClientReads ==
    /\ up
    /\ toClient # <<>>
    /\ toClient' = Tail(toClient)
    /\ LET message == Head(toClient)
       IN \/ ReadJoined(message)
          \/ RejectFrame(message) \/ ApplyFrame(message) \/ FailToApply(message)
    /\ UNCHANGED <<world, up>> /\ UNCHANGED serverVars

\* The socket ends for the client: closed by the server, lost or silent.
LoseSocket ==
    /\ up
    /\ up' = FALSE
    /\ UNCHANGED <<world, toClient, toServer, client, view, events>> /\ UNCHANGED serverVars

\* A new socket: nothing of the old one's session is kept on either side.
Reconnect ==
    /\ ~up
    /\ up' = TRUE
    /\ recipient' = NewRecipient
    /\ owner' = FALSE
    /\ socket' = "open"
    /\ offered' = 0
    /\ toClient' = <<>>
    /\ toServer' = <<>>
    /\ client' = NewClient
    /\ UNCHANGED <<world, view, events>>

-----------------------------------------------------------------------------
Next ==
    \/ Step \/ Offer \/ Expire \/ Backpressure \/ TransportAccepts \/ TransportFails \/ ServerReads
    \/ SendJoin \/ SendResync \/ ClientReads \/ LoseSocket \/ Reconnect

\* An offer that nothing in the code holds back for its age: no older frame is
\* outstanding, or it is the reserved recovery frame.
OfferDue == (recipient.flights = {} \/ recipient.resync) /\ Offer
FirstJoin == client.joins = 0 /\ SendJoin
SeeClose == socket = "closing" /\ LoseSocket

\* The broadcast timer, both event loops, the transport and the reconnect timer
\* run.  Nobody has to play, rejoin, or lose a socket the server did not close.
Fairness ==
    /\ WF_vars(OfferDue) /\ WF_vars(Expire) /\ WF_vars(TransportAccepts) /\ WF_vars(ServerReads)
    /\ WF_vars(FirstJoin) /\ WF_vars(ClientReads) /\ WF_vars(SeeClose) /\ WF_vars(Reconnect)

Spec == Init /\ [][Next]_vars /\ Fairness

-----------------------------------------------------------------------------
(* Properties.                                                             *)

Baselines == [sequence : Nat, world : 0 .. MaxWorlds + 1]

\* Type invariant of both ends and the socket between them.
TypeOK ==
    /\ world \in 1 .. MaxWorlds
    /\ offered \in 0 .. world
    /\ owner \in BOOLEAN /\ up \in BOOLEAN
    /\ socket \in {"open", "closing"}
    /\ \A i \in DOMAIN toClient : toClient[i].type \in {"snapshot", "joined"}
    /\ \A i \in DOMAIN toServer : toServer[i].type \in {"join", "resync", "ack"}
    /\ DOMAIN recipient = DOMAIN NewRecipient
    /\ recipient.baseline \in Baselines
    /\ recipient.pending # NoFlight => recipient.pending.sequence = recipient.sequence + 1
    /\ recipient.outstanding \in Nat
    /\ recipient.applied \in 0 .. recipient.sequence
    /\ DOMAIN client = DOMAIN NewClient
    /\ client.decoder \in Baselines
    /\ view \in 0 .. MaxWorlds + 1
    /\ events \in 0 .. MaxEvents

\* The frames a recipient is charged for.
Outstanding(r) == r.flights \cup (IF r.pending = NoFlight THEN {} ELSE {Flight(r.pending)})

Ordinary(frames) == {f \in frames : ~f.recovery}

\* "One indivisible large frame may travel alone, never as a growing queue": the window
\* holds its frames and the one reserved recovery frame, at most one of all these is
\* larger than the window, and the rest fit it.
FitTheWindow(frames) ==
    /\ \A f, g \in frames : f.bytes > WindowBytes /\ g.bytes > WindowBytes => f = g
    /\ Cardinality(Ordinary(frames)) <= WindowFrames
    /\ Bytes(Ordinary(frames)) <= WindowBytes \/ Cardinality(Ordinary(frames)) = 1

\* The window is kept. The bytes charged to the pilot are those of the frames in
\* flight, whichever callback, receipt, rejoin or failure came first: credit neither
\* leaks, which would close the window for good, nor is given twice.
WindowIsKept ==
    /\ recipient.outstanding = Bytes(Outstanding(recipient))
    /\ FitTheWindow(Outstanding(recipient))

\* The recovery frame a pilot waits for is one still in flight, and it is the
\* only one: while none is, nothing holds the next offer back.
RecoveryIsInFlight ==
    /\ recipient.recovery # 0 =>
          /\ recipient.resync
          /\ \E f \in Outstanding(recipient) : f.sequence = recipient.recovery /\ f.recovery
    /\ \A f \in Outstanding(recipient) : f.recovery => f.sequence = recipient.recovery

\* Credit is only given for frames the client applied, and one receipt answers
\* for all before it only up to a frame it applied.
CreditWasApplied ==
    /\ recipient.applied <= client.accepted
    /\ recipient.pending # NoFlight /\ recipient.pending.applied =>
          recipient.pending.sequence <= client.accepted

\* "Snapshots already in flight do not trigger a false protocol error": the first
\* frame follows the joined acknowledgment, on every socket.
SnapshotsFollowJoined == ~client.ready /\ toClient # <<>> => Head(toClient) = Joined

\* A client that waits for no recovery can decode the next frame: a rejoin, a
\* refused offer or a racing callback never strands it on a missing baseline.
NextFrameFits ==
    client.ready /\ ~client.resync /\ toClient # <<>> /\ Head(toClient).type = "snapshot" =>
        Fits(Head(toClient))

\* The books of a connection are exact, whichever callback, receipt, rejoin or failure
\* came first: the window and its recovery frame are the frames in flight, credit is for
\* frames that were applied, and the client can decode what comes next.
BooksAreExact ==
    WindowIsKept /\ RecoveryIsInFlight /\ CreditWasApplied /\ SnapshotsFollowJoined /\ NextFrameFits

-----------------------------------------------------------------------------
(* The inductive invariant.                                                *)

Worlds == [sequence : Nat, world : Nat]
Snapshots == [type : {"snapshot"}, sequence : Nat \ {0}, base : Nat, from : Nat, world : Nat]
Acks == [type : {"ack"}, sequence : Nat]
FrameFields == {"sequence", "bytes", "recovery", "generation", "world", "applied"}

\* Messages and records are of their kinds.
Kinds ==
    /\ world \in Nat /\ view \in Nat /\ owner \in BOOLEAN /\ socket \in {"open", "closing"}
    /\ toClient \in Seq(Snapshots \cup {Joined})
    /\ toServer \in Seq(Acks \cup {Join, Resync})
    /\ client \in [ready : BOOLEAN, decoder : Worlds, resync : BOOLEAN, accepted : Nat, joins : Nat]
    /\ DOMAIN recipient = DOMAIN NewRecipient
    /\ recipient.baseline \in Worlds /\ recipient.sequence \in Nat
    /\ recipient.needsKeyframe \in BOOLEAN /\ recipient.generation \in Nat
    /\ recipient.applied \in Nat
    /\ recipient.pending # NoFlight =>
          /\ DOMAIN recipient.pending = FrameFields
          /\ recipient.pending.sequence = recipient.sequence + 1
          /\ recipient.pending.world \in Nat /\ recipient.pending.generation \in Nat
          /\ recipient.pending.applied \in BOOLEAN

Frames == {i \in DOMAIN toClient : toClient[i].type = "snapshot"}

\* Which number has which world, wherever one of the two ends or a frame says so.
Told ==
    {NoBaseline, client.decoder, recipient.baseline}
      \cup {[sequence |-> toClient[i].sequence, world |-> toClient[i].world] : i \in Frames}
      \cup {[sequence |-> toClient[i].base, world |-> toClient[i].from] : i \in Frames}
      \cup IF recipient.pending = NoFlight THEN {}
           ELSE {[sequence |-> recipient.pending.sequence, world |-> recipient.pending.world]}

\* The last number a frame on this socket may have.
LastSent ==
    IF recipient.pending = NoFlight /\ socket = "open" THEN recipient.sequence
    ELSE recipient.sequence + 1

\* A later number is a later world, the frames on their way are in order, and later than
\* what the client has seen.
WorldsInOrder ==
    /\ \A a, b \in Told : a.sequence <= b.sequence => a.world <= b.world
    /\ \A a \in Told : a.sequence <= LastSent /\ a.world <= world
    /\ \A i, j \in Frames : i < j => toClient[i].sequence < toClient[j].sequence
    /\ \A i \in Frames : /\ view <= toClient[i].world
                         /\ client.decoder.sequence < toClient[i].sequence
                         /\ client.accepted < toClient[i].sequence
    /\ view <= world
    /\ client.accepted <= LastSent

\* A client that has not joined has been sent nothing but the answer to its join.
JoinComesFirst ==
    ~client.ready => \/ toClient = <<>> /\ (~owner \/ socket = "closing")
                     \/ toClient # <<>> /\ toClient[1] = Joined

\* A delta follows the frame it is based on, which is on its way before it or has reached
\* the client, unless the client has asked for a keyframe.
DeltasFollow ==
    \A i \in Frames :
        toClient[i].base # 0 =>
           /\ toClient[i].sequence = toClient[i].base + 1
           /\ \/ i > 1 /\ i - 1 \in Frames /\ toClient[i].base = toClient[i - 1].sequence
              \/ i = 1 /\ (client.resync \/ toClient[i].base = client.decoder.sequence)

LastOffered ==
    IF recipient.pending = NoFlight THEN recipient.sequence ELSE recipient.pending.sequence

\* And so will the next delta, if one may be sent: the last frame offered is the last on
\* its way, or it has reached the client, and it becomes the baseline.
NextFollows ==
    socket = "open" /\ ~recipient.needsKeyframe =>
        /\ LastOffered # 0
        /\ recipient.pending = NoFlight => recipient.baseline.sequence = LastOffered
        /\ recipient.pending # NoFlight => recipient.pending.generation = recipient.generation
        /\ \/ toClient = <<>> /\ (client.resync \/ client.decoder.sequence = LastOffered)
           \/ /\ toClient # <<>> /\ Len(toClient) \in Frames
              /\ toClient[Len(toClient)].sequence = LastOffered

\* A receipt is for a frame that was applied.
ReceiptsAreTrue ==
    /\ \A i \in DOMAIN toServer :
          toServer[i].type = "ack" => toServer[i].sequence <= client.accepted
    /\ CreditWasApplied

Flights == [sequence : Nat \ {0}, bytes : Nat \ {0}, recovery : BOOLEAN]

\* The frames a recipient is charged for have numbers of their own, up to the last one.
FramesAreCounted ==
    /\ IsFiniteSet(recipient.flights) /\ recipient.flights \subseteq Flights
    /\ \A f, g \in recipient.flights : f.sequence = g.sequence => f = g
    /\ \A f \in recipient.flights : f.sequence <= recipient.sequence
    /\ recipient.pending # NoFlight => Flight(recipient.pending) \in Flights
    /\ recipient.resync \in BOOLEAN

WindowInv == FramesAreCounted /\ WindowIsKept /\ RecoveryIsInFlight

StreamInv ==
    Kinds /\ WorldsInOrder /\ JoinComesFirst /\ DeltasFollow /\ NextFollows /\ ReceiptsAreTrue

\* What the pilot sees is always a published world, whole, and never an older one.
Promise == INSTANCE WorldView
ShowsPublishedWorlds == Promise!Spec

\* Every published world, or a newer one, reaches the pilot, or its socket ends: the
\* window never stays shut. And "One reserved keyframe breaks the
\* no-ACK/rejected-delta deadlock": a client that asked for recovery gets a frame it
\* can apply, or a new socket.
ViewCatchesUp ==
    /\ \A n \in 1 .. MaxWorlds : (owner /\ world = n) ~> (view >= n \/ ~owner \/ ~up)
    /\ client.resync ~> (~client.resync \/ socket = "closing" \/ ~up)
=============================================================================
