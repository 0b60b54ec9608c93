------------------------------ MODULE PilotLife ------------------------------
(***************************************************************************)
(* The lives of pilots on the server (GameEngine, EntityManager): a hull   *)
(* that is shot down lies in a rescue window; a crew member next to it may *)
(* revive it in time, its pilot may give up, or the window runs out and    *)
(* the hull explodes and respawns. The window is kept in three places, the *)
(* actor, the cooperative campaign and the database, and its pilot may     *)
(* leave, lose the link, come back or be restored by another process       *)
(* meanwhile. Furnace journeys and held hulls are the other states in      *)
(* which the server owns a ship.                                           *)
(*                                                                         *)
(* Server time and frames pass apart: `Elapse' lets a tick of time pass,   *)
(* `Frame' is one frame of the engine, and no tick passes without one.     *)
(* Deadlines are kept as the ticks that remain. Geometry is left out: who  *)
(* is hit, and whether a rescuer stays close and still, are free choices.  *)
(***************************************************************************)
EXTENDS Integers, FiniteSets

CONSTANTS
    Pilots,
    Travellers,     \* those who use furnaces and the map; the others bound the model
    NoOne,          \* no rescue target
    DownedTicks,    \* COOPERATIVE.downedMs, and the age of a stale pilot
    ReviveTicks,    \* COOPERATIVE.reviveMs
    GraceTicks,     \* PLAYER_MOTION.reconnectGraceMs
    DyingFrames,    \* SHIP.EXPLODE_DURATION_FRAMES and RESPAWN_DELAY_FRAMES
    TravelFrames,   \* a furnace journey
    MaxStored       \* bound: pilots a written database of the model holds

ASSUME LifeAssumption ==
    /\ NoOne \notin Pilots /\ Travellers \subseteq Pilots
    /\ DownedTicks \in Nat \ {0} /\ ReviveTicks \in Nat \ {0} /\ GraceTicks \in Nat
    /\ DyingFrames \in Nat /\ TravelFrames \in Nat \ {0} /\ MaxStored \in Nat
    \* 18 frames in the code, and a window of thirty seconds
    /\ DyingFrames > 1 /\ DyingFrames <= DownedTicks

VARIABLES
    ship,       \* the actor of each pilot, if it is in the world
    coop,       \* its record of kind `downed' in the campaign
    unsaved,    \* which of these records were set or removed since the last flush
    saved,      \* the pilots the server remembers, and whether their hull lives
    journeys,   \* furnaceTravelFrames: who is in a furnace
    db,         \* the committed pilots and records
    ticked      \* a tick of time has passed since the last frame

vars == <<ship, coop, unsaved, saved, journeys, db, ticked>>

Never == -1     \* a timer that is not set

\* `hp': health > 0; `blink': spawnProtectionTimer is running; `age': since lastUpdate.
Actors ==
    [here : BOOLEAN, owned : BOOLEAN, grace : 0..GraceTicks, hp : BOOLEAN,
     downed : Never..DownedTicks, exploding : 0..DyingFrames,
     respawn : Never..DyingFrames, blink : BOOLEAN, hold : BOOLEAN,
     transit : 0..TravelFrames, target : Pilots \cup {NoOne}, left : 0..ReviveTicks,
     age : 0..(DownedTicks + 1)]

\* Actors, records, rows and clocks are of their kinds.
TypeOK ==
    /\ ship \in [Pilots -> Actors]
    /\ coop \in [Pilots -> Never..DownedTicks]
    /\ unsaved \subseteq Pilots
    /\ saved \in [Pilots -> {"unknown", "alive", "dead"}]
    /\ journeys \subseteq Pilots
    /\ db \in [pilots : [Pilots -> {"unknown", "alive", "dead"}],
               coop : [Pilots -> Never..DownedTicks]]
    /\ ticked \in BOOLEAN

\* The hull of addPlayer(): alive, and blinking.
Fresh ==
    [here |-> TRUE, owned |-> TRUE, grace |-> 0, hp |-> TRUE, downed |-> Never,
     exploding |-> 0, respawn |-> Never, blink |-> TRUE, hold |-> FALSE, transit |-> 0,
     target |-> NoOne, left |-> 0, age |-> 0]

Gone == [Fresh EXCEPT !.here = FALSE, !.owned = FALSE, !.blink = FALSE]

\* alive() of the motion service.
Flying(s) == s.hp /\ s.exploding = 0 /\ s.respawn = Never

Health(s) == IF s.hp THEN "alive" ELSE "dead"

Known(pilots) == {p \in Pilots : pilots[p] # "unknown"}

\* capturePilot() of the given pilots, of what they are after the step.
Capture(who) ==
    saved' = [p \in Pilots |-> IF p \in who /\ saved[p] # "unknown" /\ ship'[p].here
                               THEN Health(ship'[p]) ELSE saved[p]]

-----------------------------------------------------------------------------
(* A life.                                                                 *)

\* cancelRescue().
Idle(s) == [s EXCEPT !.target = NoOne, !.left = 0]

\* downShip(): the hull lies where it was hit.
Downed(s) == [Idle(s) EXCEPT !.hp = FALSE, !.downed = DownedTicks, !.age = 0]

\* Mutant: a hull that explodes after its window counts as silent since it was hit.
FinishedUnnoticed(s) ==
    [s EXCEPT !.downed = Never, !.exploding = DyingFrames,
              !.respawn = IF @ = Never THEN DyingFrames ELSE @]

\* finishDowned(), with applyShipDeath() and scheduleShipRespawn().
Finished(s) ==
    [s EXCEPT !.downed = Never, !.age = 0, !.exploding = DyingFrames,
              !.respawn = IF @ = Never THEN DyingFrames ELSE @]

\* finishFurnaceTravel(): the hull arrives and blinks.
Arrived(s) ==
    IF s.transit = 0 THEN s
    ELSE [s EXCEPT !.transit = 0, !.hold = FALSE, !.blink = TRUE, !.age = 0]

\* CooperativeCampaign.removeDowned() and set(), and the records not yet written.
WithoutWindow(who) == [p \in Pilots |-> IF p \in who THEN Never ELSE coop[p]]

\* handleShipDamage() on a hull that can be hit: the rescue it was giving ends, and
\* without health it goes down.
Hit(p, lethal) ==
    LET s == ship[p]
    IN  /\ s.here /\ Flying(s) /\ s.transit = 0 /\ ~s.blink /\ ~s.hold
        /\ ship' = [ship EXCEPT ![p] = IF lethal THEN Downed(@)
                                       ELSE [Idle(@) EXCEPT !.age = 0]]
        /\ coop' = IF lethal THEN [coop EXCEPT ![p] = DownedTicks] ELSE coop
        /\ unsaved' = IF lethal THEN unsaved \cup {p} ELSE unsaved
        /\ UNCHANGED <<journeys, db, ticked>>
        /\ Capture({p})

\* crewAction() of kind rescue.
StartRescue(p, t) ==
    /\ ship[p].here /\ ship[p].owned /\ ship[p].transit = 0
    /\ ship[t].here /\ ship[t].owned /\ ship[t].downed > 0
    /\ p # t /\ ship[p].hp /\ ship[p].exploding = 0 /\ ~ship[p].hold
    /\ ship[p].downed = Never
    /\ ship[p].target # t
    /\ ship' = [ship EXCEPT ![p].target = t, ![p].left = ReviveTicks]
    /\ UNCHANGED <<coop, unsaved, saved, journeys, db, ticked>>

\* crewAction() of kind release, or a movement of the rescuer that is its own.
EndRescue(p) ==
    /\ ship[p].here /\ ship[p].target # NoOne
    /\ ship' = [ship EXCEPT ![p] = Idle(@)]
    /\ UNCHANGED <<coop, unsaved, saved, journeys, db, ticked>>

\* crewAction() of kind give-up.
GiveUp(p) ==
    /\ ship[p].here /\ ship[p].owned /\ ship[p].transit = 0 /\ ship[p].downed # Never
    /\ ship' = [ship EXCEPT ![p] = Finished(@)]
    /\ coop' = WithoutWindow({p})
    /\ unsaved' = unsaved \cup {p}
    /\ UNCHANGED <<journeys, db, ticked>>
    /\ Capture({p})

\* An accepted pose, or a chosen tool: the pilot is active.
Act(p) ==
    /\ ship[p].here /\ ship[p].owned /\ Flying(ship[p]) /\ ship[p].age > 0
    /\ ship' = [ship EXCEPT ![p].age = 0]
    /\ UNCHANGED <<coop, unsaved, saved, journeys, db, ticked>>

\* setOverlayHold(): an open map freezes the hull; once it closes, the hull blinks.
SetOverlayHold(p, held) ==
    LET s == ship[p]
    IN  /\ s.here /\ s.owned /\ s.transit = 0 /\ s.hold # held
        /\ ship' = [ship EXCEPT ![p] = IF held THEN [Idle(s) EXCEPT !.hold = TRUE]
                                       ELSE [s EXCEPT !.hold = FALSE,
                                                      !.blink = @ \/ Flying(s)]]
        /\ UNCHANGED <<coop, unsaved, saved, journeys, db, ticked>>

\* travelFurnace(). A rescue that is being given is left to the next frame.
Travel(p) ==
    /\ ship[p].here /\ ship[p].owned /\ Flying(ship[p]) /\ ship[p].transit = 0
    /\ ship' = [ship EXCEPT ![p].transit = TravelFrames, ![p].hold = TRUE]
    /\ journeys' = journeys \cup {p}
    /\ UNCHANGED <<coop, unsaved, saved, db, ticked>>

-----------------------------------------------------------------------------
(* Coming and going.                                                       *)

\* removePlayer(): a journey ends, the pilot is captured, its actor goes. The rescues
\* that others give it are left to the next frame.
Leave(p) ==
    /\ ship[p].here /\ ship[p].owned
    /\ ship' = [ship EXCEPT ![p] = Gone]
    /\ journeys' = journeys \ {p}
    /\ saved' = [saved EXCEPT ![p] = Health(ship[p])]
    /\ UNCHANGED <<coop, unsaved, db, ticked>>

\* transportClosed(): the ship's journey and the rescues it gives or gets end, and it
\* waits for its pilot.
TransportClosed(p) ==
    /\ ship[p].here /\ ship[p].owned
    /\ ship' = [q \in Pilots |->
                  IF q = p
                  THEN [Arrived(Idle(ship[p])) EXCEPT !.owned = FALSE, !.grace = GraceTicks]
                  ELSE IF ship[q].target = p THEN Idle(ship[q]) ELSE ship[q]]
    /\ journeys' = journeys \ {p}
    /\ UNCHANGED <<coop, unsaved, saved, db, ticked>>

\* A pilot the server does not know joins.
Join(p) ==
    /\ ~ship[p].here /\ saved[p] = "unknown"
    /\ Known(db.pilots) = {} \/ Cardinality(Known(saved)) < MaxStored
    /\ ship' = [ship EXCEPT ![p] = Fresh]
    /\ saved' = [saved EXCEPT ![p] = "alive"]
    /\ UNCHANGED <<coop, unsaved, journeys, db, ticked>>

\* resumePilot() of a live session, by a new socket: a window that is over ends, and a
\* hull that is not down may be fitted anew.
Resume(p, refit) ==
    /\ ship[p].here /\ (ship[p].owned \/ ship[p].grace > 0)
    /\ LET s == [ship[p] EXCEPT !.owned = TRUE, !.grace = 0, !.age = 0]
           due == s.downed = 0
           r == IF due THEN Finished(s) ELSE s
       IN  /\ refit => r.downed = Never
           /\ ship' = [ship EXCEPT ![p] = [r EXCEPT !.hp = @ \/ refit]]
           /\ coop' = IF due THEN WithoutWindow({p}) ELSE coop
           /\ unsaved' = IF due THEN unsaved \cup {p} ELSE unsaved
           /\ saved' = IF due /\ saved[p] # "unknown" THEN [saved EXCEPT ![p] = "dead"]
                       ELSE saved
    /\ UNCHANGED <<journeys, db, ticked>>

\* The grace that step() finds over.
Expired(s) == s.here /\ ~s.owned /\ s.grace = 0

\* What resumePilot() makes of a saved pilot: down as long as its window lasts, dying
\* once it is over, dying if it was saved without health, or as it was.
Restored(p, health, blink) ==
    IF coop[p] = 0 THEN Finished([Fresh EXCEPT !.hp = FALSE, !.blink = FALSE])
    ELSE IF coop[p] > 0 THEN [Fresh EXCEPT !.hp = FALSE, !.downed = coop[p], !.blink = FALSE]
    ELSE IF health = "dead"
         THEN [Fresh EXCEPT !.hp = FALSE, !.respawn = DyingFrames, !.blink = blink]
    ELSE [Fresh EXCEPT !.blink = blink]

\* resumePilot() of a saved pilot; one whose grace is over, and whom no frame has met
\* since, is removed first. `blink' is lost if its last flight is taken up.
Restore(p, blink) ==
    /\ ~ship[p].here \/ Expired(ship[p])
    /\ saved[p] # "unknown"
    /\ LET health == IF ship[p].here THEN Health(ship[p]) ELSE saved[p]
       IN  ship' = [ship EXCEPT ![p] = Restored(p, health, blink)]
    /\ coop' = IF coop[p] = 0 THEN WithoutWindow({p}) ELSE coop
    /\ unsaved' = IF coop[p] = 0 THEN unsaved \cup {p} ELSE unsaved
    /\ UNCHANGED <<journeys, db, ticked>>
    /\ Capture({p})

-----------------------------------------------------------------------------
(* A frame: advanceOneFrameInternal().                                     *)

\* advanceRescues(), first loop: windows that are over end before any rescue does.
Over == {p \in Pilots : ship[p].here /\ ship[p].downed = 0}
AfterWindows == [p \in Pilots |-> IF p \in Over THEN Finished(ship[p]) ELSE ship[p]]

\* Mutant: a rescue goes on although its giver has entered a furnace.
ContinuesInTransit(r, t, still) ==
    r.owned /\ r.hp /\ r.exploding = 0 /\ t.here /\ t.owned /\ t.downed # Never /\ still

\* advanceRescues(), second loop: whether a rescue goes on; `still': the rescuer has
\* stayed close and does not move.
Continues(r, t, still) ==
    /\ r.owned /\ r.hp /\ r.exploding = 0 /\ ~r.hold /\ r.transit = 0
    /\ t.here /\ t.owned /\ t.downed # Never
    /\ still

\* Who is revived; those who drift off are `moved'.
Completes(at, moved) ==
    {t \in Pilots : \E p \in Pilots \ moved :
        at[p].here /\ at[p].target = t /\ at[p].left = 0 /\ Continues(at[p], at[t], TRUE)}

\* Mutant: the campaign is not told of a rescue.
ClosedByDeath(revived) == Over

\* The windows that the frame closes in the campaign.
Closed(revived) == Over \cup revived

\* A rescue that is over, broken off or complete is forgotten; one who is revived
\* blinks.
AfterRescues(at, moved) ==
    LET revived == Completes(at, moved)
        rests(p) == \/ at[p].left = 0
                    \/ ~Continues(at[p], at[at[p].target], p \notin moved)
        rescuer(p) == IF at[p].target # NoOne /\ rests(p) THEN Idle(at[p]) ELSE at[p]
    IN  [p \in Pilots |->
           IF p \in revived
           THEN [rescuer(p) EXCEPT !.downed = Never, !.hp = TRUE, !.blink = TRUE, !.age = 0]
           ELSE rescuer(p)]

\* getStalePlayerIds().
Stale(at) == {p \in Pilots : at[p].here /\ at[p].age > DownedTicks}

\* updateExplosions() and updateRespawns().
Aged(s) ==
    LET ends == s.exploding = 1
        timer == IF s.respawn = Never /\ ends THEN DyingFrames ELSE s.respawn
    IN  IF timer \in {0, 1}
        THEN [s EXCEPT !.exploding = 0, !.respawn = Never, !.hp = TRUE, !.hold = FALSE,
                       !.blink = TRUE]
        ELSE [s EXCEPT !.exploding = IF @ > 0 THEN @ - 1 ELSE 0,
                       !.respawn = IF timer > 0 THEN timer - 1 ELSE timer]

\* Mutant: a ship that has counted its journey down never arrives.
TravelledOnly(s, p) ==
    IF p \in journeys /\ s.transit > 1 THEN [s EXCEPT !.transit = @ - 1] ELSE s

\* advanceFurnaceTravel().
Travelled(s, p) ==
    IF p \notin journeys \/ s.transit = 0 THEN s
    ELSE IF s.transit = 1 THEN Arrived(s)
    ELSE [s EXCEPT !.transit = @ - 1, !.age = 0]

\* One frame. `moved': rescuers that moved; `faded': hulls that stop
\* blinking in it.
Frame(moved, faded) ==
    \E windows \in {AfterWindows} : \E rescued \in {AfterRescues(windows, moved)} :
        LET revived == Completes(windows, moved)
            stale == Stale(rescued)
            aged(p) == IF rescued[p].here THEN Aged(rescued[p]) ELSE rescued[p]
            removed == stale \cup {p \in Pilots : Expired(aged(p))}
        IN  /\ ship' = [p \in Pilots |->
                  IF p \in removed THEN Gone
                  ELSE Travelled([aged(p) EXCEPT !.blink = @ /\ p \notin faded], p)]
            /\ coop' = WithoutWindow(Closed(revived))
            /\ unsaved' = unsaved \cup Closed(revived)
            /\ saved' = [p \in Pilots |->
                  IF saved[p] = "unknown" THEN saved[p]
                  ELSE IF p \in removed \ stale THEN Health(aged(p))
                  ELSE IF p \in stale \cup Over \cup revived THEN Health(rescued[p])
                  ELSE saved[p]]
            /\ ticked' = FALSE
            /\ UNCHANGED db
            /\ journeys' = {p \in journeys : ship'[p].transit > 0}

\* A tick of server time.
Elapse ==
    /\ ~ticked /\ ticked' = TRUE
    /\ ship' = [p \in Pilots |->
         [ship[p] EXCEPT !.downed = IF @ > 0 THEN @ - 1 ELSE @,
                         !.left = IF @ > 0 THEN @ - 1 ELSE @,
                         !.grace = IF @ > 0 THEN @ - 1 ELSE @,
                         !.age = IF ship[p].here /\ @ <= DownedTicks THEN @ + 1 ELSE @]]
    /\ coop' = [p \in Pilots |-> IF coop[p] > 0 THEN coop[p] - 1 ELSE coop[p]]
    /\ db' = [db EXCEPT !.coop =
                [p \in Pilots |-> IF db.coop[p] > 0 THEN db.coop[p] - 1 ELSE db.coop[p]]]
    /\ UNCHANGED <<unsaved, saved, journeys>>

-----------------------------------------------------------------------------
(* The database.                                                           *)

\* checkpointWorld(), committed: every pilot here is captured, and the records that
\* were set or removed are written (CooperativeCampaign.checkpoint and saved).
Flush ==
    /\ Cardinality(Known(saved)) <= MaxStored
    /\ LET rows == [p \in Pilots |-> IF ship[p].here THEN Health(ship[p]) ELSE saved[p]]
       IN  /\ db' = [pilots |-> rows,
                     coop |-> [p \in Pilots |-> IF p \in unsaved THEN coop[p] ELSE db.coop[p]]]
           /\ saved' = rows
           /\ unsaved' = {}
           /\ UNCHANGED <<ship, coop, journeys, ticked>>

\* The process dies, and another loads the database.
Crash ==
    /\ ship' = [p \in Pilots |-> Gone]
    /\ coop' = db.coop
    /\ saved' = db.pilots
    /\ unsaved' = {}
    /\ journeys' = {}
    /\ ticked' = FALSE
    /\ UNCHANGED db

-----------------------------------------------------------------------------
Init ==
    /\ ship = [p \in Pilots |-> Gone]
    /\ coop = [p \in Pilots |-> Never]
    /\ unsaved = {}
    /\ saved = [p \in Pilots |-> "unknown"]
    /\ journeys = {}
    /\ db = [pilots |-> saved, coop |-> coop]
    /\ ticked = FALSE

AnyFrame ==
    \E moved \in SUBSET {p \in Pilots : ship[p].target # NoOne},
       faded \in SUBSET {p \in Pilots : ship[p].blink} : Frame(moved, faded)

Next ==
    \/ \E p \in Pilots :
        \/ \E lethal \in BOOLEAN : Hit(p, lethal)
        \/ \E t \in Pilots : StartRescue(p, t)
        \/ EndRescue(p)
        \/ GiveUp(p)
        \/ Act(p)
        \/ p \in Travellers /\ \E held \in BOOLEAN : SetOverlayHold(p, held)
        \/ p \in Travellers /\ Travel(p)
        \/ Leave(p)
        \/ TransportClosed(p)
        \/ Join(p)
        \/ \E refit \in BOOLEAN : Resume(p, refit)
        \/ \E blink \in BOOLEAN : Restore(p, blink)
    \/ AnyFrame
    \/ Elapse
    \/ Flush
    \/ Crash

Spec == Init /\ [][Next]_vars

\* The game loop runs and time passes.
FairSpec == Spec /\ WF_vars(AnyFrame) /\ WF_vars(Elapse)

-----------------------------------------------------------------------------
(* Properties.                                                             *)

\* The places a life is recorded in agree: a hull lies in a window exactly when the
\* campaign has that window, with the same deadline; a pilot away with a window was
\* saved dead; the flags of a hull exclude one another; journeys are those of ships in
\* furnaces; and the database lacks only the records not yet written.
LifeRecordsAgree ==
    /\ \A p \in Pilots :
        /\ ship[p].here => coop[p] = ship[p].downed
        /\ ~ship[p].here /\ coop[p] # Never => saved[p] = "dead"
        /\ ship[p].downed # Never => /\ ~ship[p].hp /\ ship[p].exploding = 0
                                     /\ ship[p].respawn = Never /\ ship[p].transit = 0
                                     /\ ship[p].target = NoOne
        /\ p \notin unsaved => coop[p] = db.coop[p]
    /\ journeys = {p \in Pilots : ship[p].transit > 0}

\* A window ends with the hull's death, or by a crew member who has stayed with it to
\* the end, alive, connected and outside the furnaces and its map: never by leaving, by
\* another socket, by being restored, or after the deadline (advanceRescues,
\* resumePilot). A crash takes back what was not committed.
WindowsEndByRescueOrDeath ==
    [][\A p \in Pilots :
         coop[p] # Never /\ coop'[p] = Never
           => \/ ship'[p].respawn # Never
              \/ ~ship'[p].here /\ saved'[p] = "dead"
              \/ coop[p] > 0 /\ \E q \in Pilots : /\ ship[q].target = p /\ ship[q].left = 0
                                                  /\ ship[q].hp /\ ship[q].owned
                                                  /\ ship[q].transit = 0 /\ ~ship[q].hold
              \/ Crash]_vars

\* Nobody who waits for a rescue or a respawn, connected, is evicted as silent:
\* clients in that state send no poses, and the window is as long as the age at which
\* a pilot is stale (getStalePlayerIds, finishDowned).
WaitingPilotsStay ==
    [][\A p \in Pilots :
         ship[p].here /\ ship[p].owned /\ ~Flying(ship[p]) /\ ~ship'[p].here
           => Leave(p) \/ Crash]_vars

\* Who is here has been saved, who is not has no hull, only a connected pilot travels,
\* and the window of a saved pilot is that of one saved dead.
SavedAreKnown ==
    \A p \in Pilots :
        /\ ship[p].here => saved[p] # "unknown"
        /\ ~ship[p].here => ship[p] = Gone
        /\ ~ship[p].owned => ship[p].transit = 0
        /\ db.coop[p] # Never => db.pilots[p] = "dead"

\* How long a hull waits: without health it is in a window or dying; a window that is
\* over ends with the next frame; and neither lasts as long as a pilot may be silent,
\* `ticks' being those since the last frame.
WaitsInTime(s, ticks) ==
    /\ ~s.hp => s.downed # Never \/ s.respawn # Never
    /\ s.downed = 0 => ticks = 1
    /\ s.downed # Never => s.age + s.downed <= DownedTicks
    /\ s.exploding > 0 => s.respawn # Never
    /\ s.respawn # Never => s.respawn > 0 /\ s.age + s.respawn <= DyingFrames + ticks

\* The inductive invariant.
LifeInv ==
    /\ TypeOK
    /\ LifeRecordsAgree
    /\ SavedAreKnown
    /\ \A p \in Pilots : WaitsInTime(ship[p], IF ticked THEN 1 ELSE 0)

\* A pilot that stays, or is back within its grace, flies again: no life and no journey
\* ends in a state without a way out, whatever the pilot, its crew and its link do
\* meanwhile (updateRespawns, advanceRescues, advanceFurnaceTravel).
PilotsFlyAgain ==
    \A p \in Pilots :
        ship[p].here /\ (~Flying(ship[p]) \/ ship[p].transit > 0)
          ~> \/ ~ship[p].here \/ Expired(ship[p])
             \/ Flying(ship[p]) /\ ship[p].transit = 0
=============================================================================
