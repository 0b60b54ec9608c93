----------------------------- MODULE PilotMotion -----------------------------
(***************************************************************************)
(* Who owns the movement of one pilot's ship. The browser flies the ship   *)
(* and reports poses (PlayerMotionReconciliation); the server accepts them *)
(* (PlayerMotionService), and takes the ship over to kill it, respawn it,  *)
(* carry it through a furnace or over a contour bridge, push it off a rock *)
(* or correct it. Each takeover begins an epoch, and a pose of an older    *)
(* epoch is refused. Poses and snapshots are in flight while it happens;   *)
(* the link may break, and the session may end and be restored.            *)
(*                                                                         *)
(* Positions are abstracted to the last placement by the server they       *)
(* derive from: flying leaves `place' alone, a placement counts it up. A   *)
(* move in the middle of a glide over a bridge is no placement, its end    *)
(* is. Whether a pose fits its envelope or its rail is a free choice.      *)
(***************************************************************************)
EXTENDS Integers, Sequences

CONSTANTS
    Rails,          \* the contour rails a ship may lock on
    NoRail,         \* no lock
    MaxEpoch,       \* bound: no takeover is begun from this epoch on
    MaxPlace,       \* bound: nor from this placement on
    MaxSequence,    \* bound: the poses of one epoch
    MaxIntent,      \* bound: changes of the pilot's lock
    MaxQueue        \* bound: messages in flight, each way

ASSUME MotionAssumption ==
    /\ NoRail \notin Rails
    /\ MaxEpoch \in Nat /\ MaxPlace \in Nat /\ MaxSequence \in Nat
    /\ MaxIntent \in Nat /\ MaxQueue \in Nat

VARIABLES
    server,     \* the session and what it shares with the actor
    client,     \* the reconciliation and what it shares with the ship
    up,         \* updates on their way to the server
    down        \* the join's answer and snapshots on their way to the browser

motionVars == <<server, client, up, down>>

Locks == Rails \cup {NoRail}
Modes == {"free", "handoff"}
Transits == {"none", "furnace", "bridge"}

Updates == [epoch : Nat, sequence : Nat, place : Nat, lock : Locks, hold : BOOLEAN]
Snapshots == [epoch : Nat, mode : Modes, ack : Nat, place : Nat, lock : Locks,
              alive : BOOLEAN, transit : Transits]
Joined == [joined |-> TRUE]

\* `live': the session and its actor exist; `owned': it has a socket.
Sessions == [live : BOOLEAN, owned : BOOLEAN, epoch : Nat, mode : Modes, ack : Nat,
             sequence : Int, place : Nat, lock : Locks, transit : Transits,
             alive : BOOLEAN, wasAlive : BOOLEAN, hold : BOOLEAN]
\* `known': there is a motion state; `waiting': waitingForResume; `intent' and
\* `acked': the lock's input version and the acknowledged one; `pending': whether
\* a pose with version `carried' and number `carrier' is out.
Reconciliations ==
    [link : {"up", "joining", "down"}, known : BOOLEAN, waiting : BOOLEAN, epoch : Nat,
     mode : Modes, ack : Nat, next : Nat, alive : BOOLEAN, transit : BOOLEAN, place : Nat,
     lock : Locks, hold : BOOLEAN, intent : Nat, acked : Nat, pending : BOOLEAN,
     carried : Nat, carrier : Nat]

\* The actor, the reconciliation and the messages in flight are of their kinds.
MotionTypeOK ==
    /\ server \in Sessions
    /\ client \in Reconciliations
    /\ up \in Seq(Updates)
    /\ down \in Seq(Snapshots \cup {Joined})

-----------------------------------------------------------------------------
(* The session.                                                            *)

\* An epoch starts with no pose accepted.
NewEpoch(s, mode) ==
    [s EXCEPT !.epoch = @ + 1, !.mode = mode, !.ack = 0, !.sequence = -1]

\* handoff(): a correction. It ends a glide over a bridge and drops the lock.
Handoff(s) ==
    [NewEpoch(s, "handoff") EXCEPT !.lock = NoRail,
                                   !.transit = IF @ = "bridge" THEN "none" ELSE @]

\* invalidateLife(): a death or a return to life, seen before the next frame.
InvalidateLife(s) == Handoff([s EXCEPT !.wasAlive = s.alive])

\* Mutant: a contact drops the lock within the epoch of the poses in flight.
ReleasedQuietly(s) == [s EXCEPT !.lock = NoRail, !.transit = IF @ = "bridge" THEN "none" ELSE @]

\* releaseContourLock(): a contact ends the ride on a rail.
ReleaseContourLock(s) == IF s.lock # NoRail \/ s.transit = "bridge" THEN Handoff(s) ELSE s

\* setOverlayHold(): a hull held under an open map; a furnace holds it by itself.
OverlayHold(s, held) ==
    IF s.transit = "furnace" THEN s
    ELSE [s EXCEPT !.hold = held, !.lock = IF held THEN NoRail ELSE @]

\* finishFurnaceTravel() places the hull at the destination and begins an epoch.
FinishFurnaceTravel(s) ==
    IF s.transit # "furnace" THEN s
    ELSE Handoff([s EXCEPT !.transit = "none", !.hold = FALSE, !.place = @ + 1])

\* A step of the server that needs no message. The environment stops starting
\* things at the bounds; what has been started is always brought to its end.
MayStart == server.live /\ server.epoch < MaxEpoch /\ server.place < MaxPlace
ServerStep(s) == server' = s /\ UNCHANGED <<client, up, down>>

\* A lethal hit, or a rescue window: downShip and applyShipDeath.
Die ==
    /\ MayStart /\ server.alive /\ server.transit # "furnace" /\ ~server.hold
    /\ ServerStep(InvalidateLife([ReleaseContourLock(server) EXCEPT !.alive = FALSE]))

\* A crew member revives the hull where it lies.
Revive ==
    /\ MayStart /\ ~server.alive /\ ~server.wasAlive
    /\ ServerStep(InvalidateLife([server EXCEPT !.alive = TRUE]))

\* updateRespawns places the ship in town; step() of the same frame finds it
\* alive and begins an epoch.
Respawn ==
    /\ MayStart /\ ~server.alive /\ ~server.wasAlive
    /\ ServerStep(Handoff([server EXCEPT !.alive = TRUE, !.wasAlive = TRUE, !.place = @ + 1,
                                         !.lock = NoRail, !.hold = FALSE]))

\* step(): a pilot restored dead is noticed at the next frame.
NoticeDeath ==
    /\ server.live /\ ~server.alive /\ server.wasAlive
    /\ ServerStep(Handoff([server EXCEPT !.wasAlive = FALSE]))

\* step(): a handoff nobody has answered in time begins again.
HandoffTimesOut ==
    /\ MayStart /\ server.mode = "handoff" /\ server.transit = "none"
    /\ ServerStep(Handoff(server))

\* A rescue starts: the rescuer is stopped, and its poses in flight are void.
RescueStops ==
    /\ MayStart /\ server.alive /\ server.owned /\ ~server.hold
    /\ server.transit # "furnace"
    /\ ServerStep(InvalidateLife([server EXCEPT !.lock = NoRail]))

\* travelFurnace().
StartFurnaceTravel ==
    /\ MayStart /\ server.alive /\ server.transit # "furnace"
    /\ ServerStep(Handoff([server EXCEPT !.transit = "furnace", !.hold = TRUE,
                                         !.lock = NoRail, !.place = @ + 1]))

\* advanceFurnaceTravel() reaches the end.
EndFurnaceTravel ==
    /\ server.live /\ server.transit = "furnace"
    /\ ServerStep(FinishFurnaceTravel(server))

\* advanceContourBridges(): a ship on the rail of a charged bridge is caught.
CatchBridge ==
    /\ MayStart /\ server.alive /\ ~server.hold /\ server.transit = "none"
    /\ server.lock # NoRail
    /\ ServerStep([Handoff(server) EXCEPT !.transit = "bridge"])

\* The glide arrives: finishContourBridge() frees the ship on the far rail.
FinishContourBridge ==
    /\ server.live /\ server.transit = "bridge" /\ server.alive /\ ~server.hold
    /\ \E rail \in Rails :
         ServerStep(NewEpoch([server EXCEPT !.transit = "none", !.place = @ + 1,
                                            !.lock = rail], "free"))

\* A held ship falls off its bridge, in the epoch of the catch.
DropBridge ==
    /\ server.live /\ server.transit = "bridge" /\ server.hold
    /\ ServerStep([server EXCEPT !.transit = "none"])

\* resolveAuthoritativeCombat(): a ram that is survived lets the rail go, pushes
\* the hull off the rock and publishes the impulse.
Ram ==
    /\ MayStart /\ server.alive /\ server.transit # "furnace" /\ ~server.hold
    /\ LET s == [ReleaseContourLock(server) EXCEPT !.place = @ + 1]
       IN  ServerStep(NewEpoch([s EXCEPT !.lock = NoRail], "free"))

\* A contact without damage.
Contact ==
    /\ MayStart /\ (server.lock # NoRail \/ server.transit = "bridge")
    /\ ServerStep(ReleaseContourLock(server))

-----------------------------------------------------------------------------
(* The link.                                                               *)

\* What closing a socket or taking a ship over leaves of rails and bridges.
Unhitched(s) ==
    [(IF s.transit = "bridge" THEN Handoff(s) ELSE s) EXCEPT !.lock = NoRail]

\* transportClosed(): the engine ends a journey, the session waits in its grace.
SocketCloses ==
    /\ server.owned
    /\ server' = [Unhitched(FinishFurnaceTravel(server)) EXCEPT !.owned = FALSE]
    /\ up' = <<>>
    /\ UNCHANGED <<client, down>>

\* step(): the grace is over; the session and its actor go.
GraceEnds ==
    /\ server.live /\ ~server.owned
    /\ ServerStep([server EXCEPT !.live = FALSE, !.lock = NoRail])

\* handleSocketClosed(): the browser finds its socket closed.
LoseLink ==
    /\ client.link # "down"
    /\ client' = [client EXCEPT !.link = "down", !.waiting = @ \/ client.known,
                                !.lock = NoRail,
                                !.intent = IF client.lock # NoRail THEN @ + 1 ELSE @]
    /\ down' = <<>>
    /\ UNCHANGED <<server, up>>

\* A new socket opens, and the join is on its way.
Reconnect ==
    /\ client.link = "down"
    /\ client' = [client EXCEPT !.link = "joining", !.waiting = TRUE]
    /\ UNCHANGED <<server, up, down>>

\* resume(): the socket takes the session over, at the number acknowledged last.
ResumeSession ==
    /\ client.link = "joining" /\ down = <<>>
    /\ server.live
    /\ LET s == Unhitched(server)
       IN  server' = [s EXCEPT !.owned = TRUE, !.sequence = s.ack]
    /\ up' = <<>>
    /\ down' = <<Joined>>
    /\ UNCHANGED client

\* register(): a new pilot, or a saved one, which may have been saved without life;
\* one saved in a rescue window is invalidated at once.
Register ==
    /\ client.link = "joining" /\ down = <<>>
    /\ ~server.live /\ server.place < MaxPlace
    /\ \E alive, downed \in BOOLEAN :
         LET s == [live |-> TRUE, owned |-> TRUE, epoch |-> 1, mode |-> "free", ack |-> 0,
                   sequence |-> -1, place |-> server.place + 1, lock |-> NoRail,
                   transit |-> "none", alive |-> alive, wasAlive |-> TRUE, hold |-> FALSE]
         IN  /\ downed => ~alive
             /\ server' = IF downed THEN InvalidateLife(s) ELSE s
    /\ up' = <<>>
    /\ down' = <<Joined>>
    /\ UNCHANGED client

\* What a snapshot says of the pilot's own ship.
View ==
    [epoch |-> server.epoch, mode |-> server.mode, ack |-> server.ack,
     place |-> server.place, lock |-> server.lock, alive |-> server.alive,
     transit |-> server.transit]

\* The broadcaster sends the current state to the owner's socket.
Broadcast ==
    /\ server.owned /\ client.link # "down"
    /\ down # <<>> \/ client.link = "up"
    /\ Len(down) < MaxQueue
    /\ down # <<>> => down[Len(down)] # View
    /\ down' = Append(down, View)
    /\ UNCHANGED <<server, client, up>>

-----------------------------------------------------------------------------
(* The browser.                                                            *)

\* The join is answered: old counters expire, and the first snapshot is awaited.
ReadJoined ==
    /\ client.link = "joining" /\ down # <<>> /\ Head(down) = Joined
    /\ client' = [client EXCEPT !.link = "up", !.known = FALSE, !.waiting = TRUE,
                                !.next = 0, !.alive = FALSE, !.acked = 0,
                                !.pending = FALSE]
    /\ down' = Tail(down)
    /\ UNCHANGED <<server, up>>

\* rebase(): the ship's pose is the browser's own, unless the server owned it, or
\* an epoch began, or the link was replaced.
Corrects(c, m) ==
    \/ ~c.known \/ m.epoch # c.epoch
    \/ c.waiting
    \/ c.mode # "free"

\* The lock follows the server at a correction, and otherwise only once the server
\* has acknowledged the pilot's last change of it.
Acknowledged(c, m) == c.pending /\ m.ack >= c.carrier

\* reconcileContourLock().
ReconcileContourLock(c, m) ==
    IF Corrects(c, m)
    THEN [c EXCEPT !.lock = IF c.hold \/ ~m.alive THEN NoRail ELSE m.lock,
                   !.acked = c.intent, !.pending = FALSE,
                   !.intent = IF m.lock # NoRail /\ (c.hold \/ ~m.alive)
                              THEN @ + 1 ELSE @]
    ELSE LET acked == IF Acknowledged(c, m) THEN c.carried ELSE c.acked
         IN  [c EXCEPT !.acked = acked,
                       !.pending = @ /\ ~Acknowledged(c, m),
                       !.lock = IF c.intent = acked THEN m.lock ELSE @]

\* rebase() and what updateFromServer() adopts before it.
Rebase(c, m) ==
    LET r == ReconcileContourLock(c, m)
        adopts == Corrects(c, m) \/ m.mode # "free" \/ ~m.alive \/ m.transit = "furnace"
        fresh == ~c.known \/ m.epoch # c.epoch \/ c.waiting
    IN  [r EXCEPT !.known = TRUE, !.waiting = FALSE, !.epoch = m.epoch, !.mode = m.mode,
                  !.ack = m.ack, !.alive = m.alive, !.transit = (m.transit = "furnace"),
                  !.next = IF fresh \/ c.next < m.ack + 1 THEN m.ack + 1 ELSE @,
                  !.place = IF adopts THEN m.place ELSE @]

\* A snapshot is applied, an overtaken one is not.
ReadSnapshot ==
    /\ client.link = "up" /\ down # <<>> /\ Head(down) # Joined
    /\ LET m == Head(down)
           older == /\ client.known
                    /\ \/ m.epoch < client.epoch
                       \/ m.epoch = client.epoch /\ m.ack < client.ack
       IN  client' = IF older THEN client ELSE Rebase(client, m)
    /\ down' = Tail(down)
    /\ UNCHANGED <<server, up>>

\* Mutant: no pose is sent while the server owns the ship.
MayPoseFree ==
    /\ client.link = "up" /\ client.known /\ ~client.waiting /\ client.alive
    /\ client.mode = "free"

\* shouldSuppressPose() and buildHandoffPose(): whether an update may be sent.
MayPose ==
    /\ client.link = "up" /\ client.known /\ ~client.waiting /\ client.alive
    /\ ~client.transit

\* sendPlayerState(): the next update, with the pose and the lock of the moment.
SendPose ==
    /\ MayPose
    /\ client.next <= MaxSequence /\ Len(up) < MaxQueue
    /\ up' = Append(up, [epoch |-> client.epoch, sequence |-> client.next,
                         place |-> client.place, lock |-> client.lock,
                         hold |-> client.hold])
    /\ LET carries == client.intent # client.acked
                      /\ ~(client.pending /\ client.carried = client.intent)
       IN  client' = [client EXCEPT !.next = @ + 1,
                                    !.pending = @ \/ carries,
                                    !.carried = IF carries THEN client.intent ELSE @,
                                    !.carrier = IF carries THEN client.next ELSE @]
    /\ UNCHANGED <<server, down>>

\* toggleContourLock(): on a rail, when the ship is the pilot's; off it at any time.
ToggleLock ==
    /\ client.intent < MaxIntent
    /\ \/ /\ client.lock # NoRail
          /\ client' = [client EXCEPT !.lock = NoRail, !.intent = @ + 1]
       \/ /\ client.lock = NoRail /\ MayPose /\ client.mode = "free" /\ ~client.hold
          /\ \E rail \in Rails :
               client' = [client EXCEPT !.lock = rail, !.intent = @ + 1]
    /\ UNCHANGED <<server, up, down>>

\* The map opens or closes: applyLocalOverlayHold().
ToggleHold ==
    /\ client.intent < MaxIntent
    /\ client' = [client EXCEPT !.hold = ~client.hold, !.lock = NoRail,
                                !.intent = IF client.lock # NoRail THEN @ + 1 ELSE @]
    /\ UNCHANGED <<server, up, down>>

-----------------------------------------------------------------------------
(* An update arrives: handlePlayerUpdate() and acceptFreePose().           *)

\* Mutant: a pose of an earlier epoch is accepted as well.
StalePoseOrder(s, m) == s.transit # "none" \/ m.sequence <= s.sequence

\* The server owns the ship, or the pose is of another epoch or an earlier one.
StalePose(s, m) ==
    \/ s.transit # "none"
    \/ m.epoch # s.epoch
    \/ m.sequence <= s.sequence

\* A held hull stays where the server has it.
Accept(s, m) ==
    [s EXCEPT !.mode = "free", !.ack = m.sequence, !.sequence = m.sequence,
              !.place = IF s.hold THEN @ ELSE m.place,
              !.lock = IF s.hold THEN NoRail ELSE m.lock]

\* The update is read. Without life only its hold counts; a pose that fails its
\* envelope or its rail starts an epoch instead of moving the ship.
ReadUpdate ==
    /\ server.owned /\ up # <<>>
    /\ LET m == Head(up)
           s == OverlayHold(server, m.hold)
       IN  \/ /\ ~s.alive \/ StalePose(s, m)
              /\ server' = s
           \/ /\ s.alive /\ ~StalePose(s, m)
              /\ server' = Accept(s, m)
           \/ /\ s.alive /\ ~StalePose(s, m)
              /\ MayStart
              /\ server' = Handoff(s)
    /\ up' = Tail(up)
    /\ UNCHANGED <<client, down>>

-----------------------------------------------------------------------------
MotionInit ==
    /\ server = [live |-> FALSE, owned |-> FALSE, epoch |-> 1, mode |-> "free", ack |-> 0,
                 sequence |-> -1, place |-> 0, lock |-> NoRail, transit |-> "none",
                 alive |-> FALSE, wasAlive |-> FALSE, hold |-> FALSE]
    /\ client = [link |-> "down", known |-> FALSE, waiting |-> FALSE, epoch |-> 0,
                 mode |-> "free", ack |-> 0, next |-> 0, alive |-> FALSE,
                 transit |-> FALSE, place |-> 0, lock |-> NoRail, hold |-> FALSE,
                 intent |-> 0, acked |-> 0, pending |-> FALSE, carried |-> 0,
                 carrier |-> 0]
    /\ up = <<>>
    /\ down = <<>>

MotionNext ==
    \/ Die \/ Revive \/ Respawn \/ NoticeDeath \/ HandoffTimesOut \/ RescueStops
    \/ StartFurnaceTravel \/ EndFurnaceTravel
    \/ CatchBridge \/ FinishContourBridge \/ DropBridge \/ Ram \/ Contact
    \/ SocketCloses \/ GraceEnds \/ LoseLink \/ Reconnect \/ ResumeSession \/ Register
    \/ Broadcast \/ ReadJoined \/ ReadSnapshot
    \/ SendPose \/ ToggleLock \/ ToggleHold \/ ReadUpdate

MotionSpec == MotionInit /\ [][MotionNext]_motionVars

\* The sockets deliver, the broadcaster and the browser's loop run, journeys end.
MotionFairness ==
    /\ WF_motionVars(Broadcast) /\ WF_motionVars(ReadJoined) /\ WF_motionVars(ReadSnapshot)
    /\ WF_motionVars(SendPose) /\ WF_motionVars(ReadUpdate)
    /\ WF_motionVars(EndFurnaceTravel) /\ WF_motionVars(FinishContourBridge)
    /\ WF_motionVars(DropBridge)

MotionFairSpec == MotionSpec /\ MotionFairness

-----------------------------------------------------------------------------
(* Properties.                                                             *)

\* A ship the server has placed is not taken back by a pose that was reported
\* before its pilot knew: not after a respawn, a journey, a bridge or a ram, and
\* not by a socket or a session that is gone (acceptFreePose, beginFreeEpoch).
PlacementsAreKept == [][server'.place >= server.place]_motionVars

\* The browser has seen the server's state, and the server its last pose.
InStep ==
    /\ server.owned /\ MayPose
    /\ client.epoch = server.epoch /\ client.mode = "free" /\ server.mode = "free"
    /\ client.ack = server.ack /\ client.next = server.ack + 1 /\ server.ack > 0
    /\ ~client.hold /\ ~server.hold
    /\ down = <<>>

\* Once a pose sent after the pilot's last change has been acknowledged, both
\* sides agree where the ship is and on which rail (rebase, reconcileContourLock).
AcknowledgedMeansAgreed ==
    InStep /\ client.acked = client.intent
        => client.place = server.place /\ client.lock = server.lock

\* A takeover ends: the pilot flies again, unless it dies, or its link or session
\* goes. (The last disjunct is the bound on the poses of an epoch.)
ControlReturns ==
    server.owned /\ server.mode = "handoff"
        ~> \/ server.mode = "free" \/ ~server.alive \/ ~server.owned
           \/ client.link # "up" \/ client.next > MaxSequence

-----------------------------------------------------------------------------
(* Why they hold: the inductive invariant.                                 *)

\* The browser has a state of its ship to fly from.
HasShip == client.link = "up" /\ client.known

\* What is known of a place: of an older epoch, it is no later than the server's; of
\* the server's own epoch, it is the server's.
Fits(epoch, place) ==
    /\ epoch <= server.epoch /\ place <= server.place
    /\ epoch = server.epoch => place = server.place

PlacesFit ==
    /\ \A i \in 1..Len(up) : Fits(up[i].epoch, up[i].place)
    /\ \A i \in 1..Len(down) : down[i] # Joined => Fits(down[i].epoch, down[i].place)
    /\ HasShip => Fits(client.epoch, client.place)

\* The join's answer is the first message of a link, and voids what was in flight.
JoinComesFirst ==
    /\ client.link = "down" => down = <<>>
    /\ client.link = "joining" /\ down # <<>> => up = <<>>
    /\ client.link = "up" /\ ~client.known => up = <<>>
    /\ HasShip => ~client.waiting
    /\ \A i \in 1..Len(down) : down[i] = Joined <=> client.link = "joining" /\ i = 1

\* Updates are on their way in the order of their epochs and numbers, the browser's
\* next comes after them, and once the server has accepted one in its epoch, all that
\* are left are later ones of that epoch.
UpdatesInOrder ==
    /\ \A i, j \in 1..Len(up) : i < j =>
         \/ up[i].epoch < up[j].epoch
         \/ up[i].epoch = up[j].epoch /\ up[i].sequence < up[j].sequence
    /\ HasShip => \A i \in 1..Len(up) :
         \/ up[i].epoch < client.epoch
         \/ up[i].epoch = client.epoch /\ up[i].sequence < client.next
    /\ server.ack > 0 =>
         /\ server.alive /\ server.transit = "none" /\ server.sequence = server.ack
         /\ \A i \in 1..Len(up) : up[i].epoch = server.epoch /\ up[i].sequence > server.ack
         /\ HasShip => client.epoch = server.epoch /\ client.next > server.ack

\* What the browser has read, or will read, of the server's epoch is no news of poses
\* the server has not accepted; and if it is as late as the server's state, it tells
\* the lock that the server has.
SnapshotsAreTrue ==
    /\ \A i \in 1..Len(down) : down[i] # Joined =>
         /\ down[i].epoch = server.epoch =>
              /\ down[i].ack <= server.ack
              /\ server.owned /\ server.ack > 0 /\ down[i].ack = server.ack
                   => down[i].lock = server.lock
         /\ ~HasShip /\ server.ack > 0
              => down[i].epoch = server.epoch /\ down[i].ack = server.ack
    /\ client.acked <= client.intent /\ client.carried <= client.intent
    /\ HasShip /\ client.epoch = server.epoch =>
         /\ client.ack <= server.ack
         /\ /\ server.owned /\ server.ack > 0 /\ client.ack = server.ack
            /\ client.acked = client.intent
           => client.lock = server.lock

MotionInv == MotionTypeOK /\ PlacesFit /\ JoinComesFirst /\ UpdatesInOrder /\ SnapshotsAreTrue
=============================================================================
