----------------------------- MODULE PilotsProofs -----------------------------
(***************************************************************************)
(* Proofs about PilotLife and PilotMotion, for any number of pilots and    *)
(* every length of windows, rails and queues. Lives: what the server       *)
(* records of a hull in its places agrees, a rescue window ends by death   *)
(* or by a crew member who stayed with it, and nobody who waits is removed *)
(* as silent. Movement: no pose undoes a placement by the server, and      *)
(* browser and server agree on the rail once they say so.                  *)
(***************************************************************************)
EXTENDS PilotLife, PilotMotion, TLAPS

-----------------------------------------------------------------------------
(* LIVES. What a hull of LifeInv is, on its own.                           *)

\* A hull as LifeInv knows it, when that many ticks have passed since the last frame.
Fit(s, ticks) ==
    /\ s \in Actors
    /\ s.downed # Never => /\ ~s.hp /\ s.exploding = 0 /\ s.respawn = Never /\ s.transit = 0
                           /\ s.target = NoOne
    /\ ~s.owned => s.transit = 0
    /\ s.owned => s.here
    /\ WaitsInTime(s, ticks)

Ticks == IF ticked THEN 1 ELSE 0

-----------------------------------------------------------------------------
(* One hull.                                                               *)

LEMMA LifeNumbers ==
  /\ DownedTicks \in Nat \ {0} /\ ReviveTicks \in Nat \ {0} /\ GraceTicks \in Nat
  /\ DyingFrames \in Nat /\ DyingFrames > 1 /\ DyingFrames <= DownedTicks
  /\ TravelFrames \in Nat \ {0} /\ NoOne \notin Pilots /\ Never = -1
BY LifeAssumption DEF Never

\* What the fields of a hull may be.
LEMMA Fields ==
  ASSUME NEW s \in Actors
  PROVE  /\ s.here \in BOOLEAN /\ s.owned \in BOOLEAN /\ s.hp \in BOOLEAN
         /\ s.blink \in BOOLEAN /\ s.hold \in BOOLEAN
         /\ s.grace \in 0 .. GraceTicks /\ s.exploding \in 0 .. DyingFrames
         /\ s.downed \in Never .. DownedTicks /\ s.respawn \in Never .. DyingFrames
         /\ s.transit \in 0 .. TravelFrames /\ s.left \in 0 .. ReviveTicks
         /\ s.target \in Pilots \cup {NoOne} /\ s.age \in 0 .. (DownedTicks + 1)
BY DEF Actors

LEMMA Ranges ==
  /\ 0 \in 0 .. GraceTicks /\ 0 \in 0 .. DyingFrames /\ DyingFrames \in 0 .. DyingFrames
  /\ Never \in Never .. DownedTicks /\ DownedTicks \in Never .. DownedTicks
  /\ Never \in Never .. DyingFrames /\ DyingFrames \in Never .. DyingFrames
  /\ 0 \in 0 .. TravelFrames /\ TravelFrames \in 0 .. TravelFrames
  /\ 0 \in 0 .. ReviveTicks /\ ReviveTicks \in 0 .. ReviveTicks
  /\ 0 \in 0 .. (DownedTicks + 1) /\ GraceTicks \in 0 .. GraceTicks
  /\ NoOne \in Pilots \cup {NoOne} /\ TRUE \in BOOLEAN /\ FALSE \in BOOLEAN
BY LifeNumbers

\* A new hull, and none.
LEMMA FreshFit ==
  /\ \A k \in {0, 1} : Fit(Fresh, k) /\ Fit(Gone, k)
  /\ Fresh.here /\ Fresh.owned /\ Fresh.hp /\ Fresh.downed = Never /\ Fresh.transit = 0
  /\ ~Gone.here /\ ~Gone.owned /\ Gone.downed = Never /\ Gone.transit = 0
<1>1. Fresh \in Actors /\ Gone \in Actors
  BY Ranges DEF Fresh, Gone, Actors
<1> QED BY <1>1, LifeNumbers DEF Fresh, Gone, Fit, WaitsInTime

\* A rescue that is given up.
LEMMA IdleFit ==
  ASSUME NEW k \in {0, 1}, NEW s, Fit(s, k)
  PROVE  /\ Fit(Idle(s), k) /\ Idle(s).here = s.here /\ Idle(s).downed = s.downed
         /\ Idle(s).transit = s.transit /\ Idle(s).hp = s.hp /\ Idle(s).owned = s.owned
         /\ Idle(s).exploding = s.exploding /\ Idle(s).respawn = s.respawn
         /\ Idle(s).age = s.age /\ Idle(s).target = NoOne /\ Idle(s).grace = s.grace
<1>1. Idle(s) \in Actors
  BY Ranges DEF Idle, Actors, Fit
<1> QED BY <1>1 DEF Idle, Fit, WaitsInTime, Actors

\* A hull that can be hit goes down.
LEMMA DownedFit ==
  ASSUME NEW k \in {0, 1}, NEW s, Fit(s, k), Flying(s), s.transit = 0
  PROVE  /\ Fit(Downed(s), k) /\ Downed(s).here = s.here /\ Downed(s).downed = DownedTicks
         /\ Downed(s).transit = 0 /\ ~Downed(s).hp
<1>1. Downed(s) \in Actors
  BY Ranges DEF Downed, Idle, Actors, Fit
<1> QED BY <1>1, LifeNumbers DEF Downed, Idle, Fit, WaitsInTime, Actors, Flying

\* A hull whose window is over dies.
LEMMA FinishedFit ==
  ASSUME NEW k \in {0, 1}, NEW s, Fit(s, k), ~s.hp, s.respawn = Never, s.transit = 0
  PROVE  /\ Fit(Finished(s), k) /\ Finished(s).here = s.here /\ Finished(s).downed = Never
         /\ Finished(s).transit = 0 /\ ~Finished(s).hp /\ Finished(s).age = 0
         /\ Finished(s).respawn = DyingFrames /\ Finished(s).owned = s.owned
         /\ Finished(s).grace = s.grace
<1>1. Finished(s) \in Actors
  BY Ranges DEF Finished, Actors, Fit
<1> QED BY <1>1, LifeNumbers DEF Finished, Fit, WaitsInTime, Actors

\* A journey ends.
LEMMA ArrivedFit ==
  ASSUME NEW k \in {0, 1}, NEW s, Fit(s, k)
  PROVE  /\ Fit(Arrived(s), k) /\ Arrived(s).here = s.here /\ Arrived(s).downed = s.downed
         /\ Arrived(s).transit = 0 /\ Arrived(s).owned = s.owned
         /\ Arrived(s).hp = s.hp /\ Arrived(s).respawn = s.respawn
<1>1. Arrived(s) \in Actors
  BY Ranges DEF Arrived, Actors, Fit
<1>2. s.age \in Nat
  BY Fields DEF Fit
<1>3. s.respawn \in Int /\ s.downed \in Int
  BY Fields, LifeNumbers DEF Fit
<1> QED BY <1>1, <1>2, <1>3, LifeNumbers DEF Arrived, Fit, WaitsInTime, Actors

\* A frame of dying.
LEMMA AgedFit ==
  ASSUME NEW k \in {0, 1}, NEW s, Fit(s, k), s.downed # 0
  PROVE  /\ Fit(Aged(s), 0) /\ Aged(s).here = s.here /\ Aged(s).downed = s.downed
         /\ Aged(s).transit = s.transit /\ Aged(s).owned = s.owned /\ Aged(s).grace = s.grace
         /\ s.downed # Never => ~Aged(s).hp
         /\ s.respawn = DyingFrames /\ ~s.hp => ~Aged(s).hp /\ Aged(s).respawn # Never
<1>1. s \in Actors
  BY DEF Fit
<1>2. s.respawn \in Never .. DyingFrames /\ s.exploding \in 0 .. DyingFrames /\ s.age \in Nat
      /\ s.downed \in Int
  BY <1>1, Fields, LifeNumbers
<1>3. CASE s.respawn = Never
  <2>1. s.exploding = 0
    BY <1>2, <1>3 DEF Fit, WaitsInTime
  <2>2. Aged(s) = [s EXCEPT !.exploding = 0, !.respawn = Never]
    BY <1>3, <2>1, LifeNumbers DEF Aged
  <2>3. Aged(s) = s
    BY <1>1, <1>3, <2>1, <2>2 DEF Actors
  <2> QED BY <1>2, <1>3, <2>3, LifeNumbers DEF Fit, WaitsInTime
<1>4. CASE s.respawn # Never
  <2>1. s.respawn > 0 /\ s.downed = Never
    BY <1>4 DEF Fit, WaitsInTime
  <2>2. CASE s.respawn = 1
    <3>1. Aged(s) = [s EXCEPT !.exploding = 0, !.respawn = Never, !.hp = TRUE, !.hold = FALSE,
                              !.blink = TRUE]
      BY <1>4, <2>2, LifeNumbers DEF Aged
    <3>2. Aged(s) \in Actors
      BY <1>1, <3>1, Ranges DEF Actors
    <3> QED BY <1>1, <1>2, <2>1, <2>2, <3>1, <3>2, LifeNumbers DEF Fit, WaitsInTime, Actors
  <2>3. CASE s.respawn > 1
    <3> DEFINE e == IF s.exploding > 0 THEN s.exploding - 1 ELSE 0
    <3>1. Aged(s) = [s EXCEPT !.exploding = e, !.respawn = s.respawn - 1]
      <4>1. s.respawn \notin {0, 1} /\ s.respawn > 0 /\ s.respawn # Never
        BY <1>2, <1>4, <2>3, LifeNumbers
      <4>2. Aged(s) = [s EXCEPT !.exploding = IF @ > 0 THEN @ - 1 ELSE 0,
                                !.respawn = s.respawn - 1]
        BY <4>1 DEF Aged
      <4> QED BY <1>1, <4>2 DEF Actors
    <3>2. /\ e \in 0 .. DyingFrames /\ s.respawn - 1 \in 1 .. DyingFrames
          /\ s.respawn - 1 \in Never .. DyingFrames
      BY <1>2, <2>3, LifeNumbers
    <3> HIDE DEF e
    <3>3. Aged(s) \in Actors
      BY <1>1, <3>1, <3>2 DEF Actors
    <3>4. s.age + (s.respawn - 1) <= DyingFrames
      BY <1>2, <1>4, LifeNumbers DEF Fit, WaitsInTime
    <3> QED BY <1>1, <1>2, <2>1, <2>3, <3>1, <3>2, <3>3, <3>4, LifeNumbers
         DEF Fit, WaitsInTime, Actors
  <2> QED BY <1>2, <2>1, <2>2, <2>3
<1> QED BY <1>3, <1>4

\* A frame of a journey.
LEMMA TravelledFit ==
  ASSUME NEW k \in {0, 1}, NEW s, Fit(s, k), NEW p
  PROVE  /\ Fit(Travelled(s, p), k) /\ Travelled(s, p).here = s.here
         /\ Travelled(s, p).downed = s.downed /\ Travelled(s, p).hp = s.hp
         /\ Travelled(s, p).respawn = s.respawn
         /\ Travelled(s, p).transit > 0 => s.transit > 0
<1>1. s \in Actors /\ s.age \in Nat /\ s.respawn \in Int /\ s.downed \in Int
      /\ s.transit \in 0 .. TravelFrames
  BY Fields, LifeNumbers DEF Fit
<1>2. CASE p \notin journeys \/ s.transit = 0
  BY <1>1, <1>2 DEF Travelled
<1>3. CASE p \in journeys /\ s.transit = 1
  <2>1. Travelled(s, p) = Arrived(s)
    BY <1>3 DEF Travelled
  <2> QED BY <1>1, <1>3, <2>1, ArrivedFit
<1>4. CASE p \in journeys /\ s.transit > 1
  <2>1. Travelled(s, p) = [s EXCEPT !.transit = s.transit - 1, !.age = 0]
    BY <1>1, <1>4 DEF Travelled
  <2>2. Travelled(s, p) \in Actors
    <3>1. s.transit - 1 \in 0 .. TravelFrames
      BY <1>1, <1>4, LifeNumbers
    <3> QED BY <1>1, <2>1, <3>1, Ranges DEF Actors
  <2> QED BY <1>1, <1>4, <2>1, <2>2, LifeNumbers DEF Fit, WaitsInTime, Actors
<1> QED BY <1>1, <1>2, <1>3, <1>4, LifeNumbers

\* A tick.
Ticking(s) ==
    [s EXCEPT !.downed = IF @ > 0 THEN @ - 1 ELSE @,
              !.left = IF @ > 0 THEN @ - 1 ELSE @,
              !.grace = IF @ > 0 THEN @ - 1 ELSE @,
              !.age = IF s.here /\ @ <= DownedTicks THEN @ + 1 ELSE @]

LEMMA TickingFit ==
  ASSUME NEW s, Fit(s, 0)
  PROVE  /\ Fit(Ticking(s), 1) /\ Ticking(s).here = s.here /\ Ticking(s).transit = s.transit
         /\ Ticking(s).downed = IF s.downed > 0 THEN s.downed - 1 ELSE s.downed
         /\ Ticking(s).owned = s.owned
<1>1. s \in Actors
  BY DEF Fit
<1> DEFINE d == IF s.downed > 0 THEN s.downed - 1 ELSE s.downed
           l == IF s.left > 0 THEN s.left - 1 ELSE s.left
           g == IF s.grace > 0 THEN s.grace - 1 ELSE s.grace
           a == IF s.here /\ s.age <= DownedTicks THEN s.age + 1 ELSE s.age
<1>2. Ticking(s) = [s EXCEPT !.downed = d, !.left = l, !.grace = g, !.age = a]
  BY <1>1 DEF Ticking, Actors
<1>3. /\ s.age \in 0 .. (DownedTicks + 1) /\ s.respawn \in Never .. DyingFrames
      /\ s.downed \in Never .. DownedTicks /\ s.left \in 0 .. ReviveTicks
      /\ s.grace \in 0 .. GraceTicks
  BY <1>1, Fields
<1>4. /\ d \in Never .. DownedTicks /\ l \in 0 .. ReviveTicks /\ g \in 0 .. GraceTicks
      /\ a \in 0 .. (DownedTicks + 1) /\ a <= s.age + 1
      /\ d # Never <=> s.downed # Never
  BY <1>3, LifeNumbers
<1>5. s.downed # Never => s.downed > 0 /\ d = s.downed - 1 /\ a + d <= DownedTicks
  BY <1>3, <1>4, LifeNumbers DEF Fit, WaitsInTime
<1>6. s.respawn # Never => s.respawn > 0 /\ a + s.respawn <= DyingFrames + 1
  BY <1>3, <1>4, LifeNumbers DEF Fit, WaitsInTime
<1>7. Ticking(s) \in Actors
  BY <1>1, <1>2, <1>4 DEF Actors
<1>8. /\ Ticking(s).here = s.here /\ Ticking(s).transit = s.transit /\ Ticking(s).downed = d
      /\ Ticking(s).owned = s.owned /\ Ticking(s).hp = s.hp /\ Ticking(s).age = a
      /\ Ticking(s).respawn = s.respawn /\ Ticking(s).exploding = s.exploding
      /\ Ticking(s).target = s.target
  BY <1>1, <1>2 DEF Actors
<1> HIDE DEF d, a, l, g
<1>9. Fit(Ticking(s), 1)
  BY <1>4, <1>5, <1>6, <1>7, <1>8 DEF Fit, WaitsInTime
<1> QED BY <1>8, <1>9 DEF d

-----------------------------------------------------------------------------
(* All hulls.                                                              *)

Hulls == {"unknown", "alive", "dead"}

\* LifeInv of one pilot.
LifeFine(p) ==
    /\ Fit(ship[p], Ticks)
    /\ coop[p] \in Never .. DownedTicks /\ saved[p] \in Hulls
    /\ db.coop[p] \in Never .. DownedTicks /\ db.pilots[p] \in Hulls
    /\ ship[p].here => coop[p] = ship[p].downed /\ saved[p] # "unknown"
    /\ ~ship[p].here /\ coop[p] # Never => saved[p] = "dead"
    /\ p \notin unsaved => coop[p] = db.coop[p]
    /\ db.coop[p] # Never => db.pilots[p] = "dead"
    /\ ~ship[p].here => ship[p] = Gone
    /\ p \in journeys <=> ship[p].transit > 0

Shapes ==
    /\ ship = [p \in Pilots |-> ship[p]] /\ coop = [p \in Pilots |-> coop[p]]
    /\ saved = [p \in Pilots |-> saved[p]]
    /\ db = [pilots |-> db.pilots, coop |-> db.coop]
    /\ db.pilots = [p \in Pilots |-> db.pilots[p]] /\ db.coop = [p \in Pilots |-> db.coop[p]]
    /\ unsaved \subseteq Pilots /\ journeys \subseteq Pilots /\ ticked \in BOOLEAN

LEMMA PilotByPilot == LifeInv <=> Shapes /\ \A p \in Pilots : LifeFine(p)
<1>1. ASSUME LifeInv PROVE Shapes
  BY <1>1 DEF LifeInv, TypeOK, Shapes
<1>2. ASSUME LifeInv, NEW p \in Pilots PROVE LifeFine(p)
  <2>1. /\ ship[p] \in Actors /\ coop[p] \in Never .. DownedTicks /\ saved[p] \in Hulls
        /\ db.coop[p] \in Never .. DownedTicks /\ db.pilots[p] \in Hulls
    BY <1>2 DEF LifeInv, TypeOK, Hulls
  <2>2. ship[p].owned => ship[p].here
    BY <1>2, FreshFit DEF LifeInv, SavedAreKnown
  <2>3. Fit(ship[p], Ticks)
    BY <1>2, <2>1, <2>2 DEF LifeInv, LifeRecordsAgree, SavedAreKnown, Fit, Ticks
  <2> QED BY <1>2, <2>1, <2>3 DEF LifeInv, LifeRecordsAgree, SavedAreKnown, LifeFine
<1>3. ASSUME Shapes, \A p \in Pilots : LifeFine(p) PROVE LifeInv
  <2>1. \A p \in Pilots : /\ ship[p] \in Actors
                          /\ coop[p] \in Never .. DownedTicks /\ saved[p] \in Hulls
                          /\ db.coop[p] \in Never .. DownedTicks /\ db.pilots[p] \in Hulls
    BY <1>3 DEF LifeFine, Fit
  <2>2. /\ ship \in [Pilots -> Actors] /\ coop \in [Pilots -> Never .. DownedTicks]
        /\ saved \in [Pilots -> Hulls]
        /\ db.pilots \in [Pilots -> Hulls] /\ db.coop \in [Pilots -> Never .. DownedTicks]
    BY <1>3, <2>1 DEF Shapes
  <2>3. TypeOK
    BY <1>3, <2>2 DEF Shapes, TypeOK, Hulls
  <2>4. journeys = {p \in Pilots : ship[p].transit > 0}
    BY <1>3 DEF Shapes, LifeFine
  <2>5. LifeRecordsAgree
    BY <1>3, <2>4 DEF LifeFine, Fit, LifeRecordsAgree
  <2>6. SavedAreKnown
    BY <1>3 DEF LifeFine, Fit, SavedAreKnown
  <2>7. \A p \in Pilots : WaitsInTime(ship[p], IF ticked THEN 1 ELSE 0)
    BY <1>3 DEF LifeFine, Fit, Ticks
  <2> QED BY <2>3, <2>5, <2>6, <2>7 DEF LifeInv
<1> QED BY <1>1, <1>2, <1>3

LEMMA PilotByPilotAfter == LifeInv' <=> (Shapes /\ \A p \in Pilots : LifeFine(p))'
BY PilotByPilot, PTL

\* What a step does to the window and to the place of one pilot.
EndsWell(p) ==
    coop[p] # Never /\ coop'[p] = Never
      => \/ ship'[p].respawn # Never
         \/ ~ship'[p].here /\ saved'[p] = "dead"
         \/ coop[p] > 0 /\ \E q \in Pilots : /\ ship[q].target = p /\ ship[q].left = 0
                                             /\ ship[q].hp /\ ship[q].owned
                                             /\ ship[q].transit = 0 /\ ~ship[q].hold
         \/ Crash
Stays(p) ==
    ship[p].here /\ ship[p].owned /\ ~Flying(ship[p]) /\ ~ship'[p].here => Leave(p) \/ Crash

LifeStep == LifeInv' /\ \A p \in Pilots : EndsWell(p) /\ Stays(p)

\* A step of one pilot.
LEMMA OneLife ==
  ASSUME LifeInv, NEW p \in Pilots, NEW x, NEW c, NEW h,
         ship' = [ship EXCEPT ![p] = x], coop' = [coop EXCEPT ![p] = c],
         saved' = [saved EXCEPT ![p] = h], unsaved' \in {unsaved, unsaved \cup {p}},
         journeys' = IF x.transit > 0 THEN journeys \cup {p} ELSE journeys \ {p},
         db' = db, ticked' = ticked,
         Fit(x, Ticks), c \in Never .. DownedTicks, h \in Hulls,
         c # coop[p] => p \in unsaved',
         x.here => c = x.downed /\ h # "unknown",
         ~x.here /\ c # Never => h = "dead",
         coop[p] # Never /\ c = Never => x.respawn # Never,
         ~x.here => x = Gone, ship[p].here => x.here \/ Leave(p)
  PROVE  LifeStep
<1>1. Shapes /\ \A q \in Pilots : LifeFine(q)
  BY PilotByPilot
<1>2. /\ ship'[p] = x /\ coop'[p] = c /\ saved'[p] = h
      /\ \A q \in Pilots \ {p} : ship'[q] = ship[q] /\ coop'[q] = coop[q] /\ saved'[q] = saved[q]
  BY <1>1 DEF Shapes
<1>3. Shapes'
  BY <1>1 DEF Shapes
<1>4. Ticks' = Ticks
  BY DEF Ticks
<1>5. \A q \in Pilots : LifeFine(q)'
  <2> TAKE q \in Pilots
  <2>1. CASE q = p
    <3>2. p \in journeys' <=> x.transit > 0
      OBVIOUS
    <3>3. db.coop[p] \in Never .. DownedTicks /\ db.pilots[p] \in Hulls
          /\ (db.coop[p] # Never => db.pilots[p] = "dead")
          /\ (p \notin unsaved => coop[p] = db.coop[p])
      BY <1>1 DEF LifeFine
    <3>4. p \notin unsaved' => c = db.coop[p]
      BY <3>3
    <3> QED BY <1>2, <1>4, <2>1, <3>2, <3>3, <3>4 DEF LifeFine
  <2>2. CASE q # p
    <3>1. LifeFine(q) /\ ship'[q] = ship[q] /\ coop'[q] = coop[q] /\ saved'[q] = saved[q]
      BY <1>1, <1>2, <2>2
    <3>2. (q \in unsaved' <=> q \in unsaved) /\ (q \in journeys' <=> q \in journeys)
      BY <2>2
    <3> QED BY <1>4, <3>1, <3>2 DEF LifeFine
  <2> QED BY <2>1, <2>2
<1>6. LifeInv'
  BY <1>3, <1>5, PilotByPilotAfter
<1>7. \A q \in Pilots : EndsWell(q) /\ Stays(q)
  BY <1>2 DEF EndsWell, Stays
<1> QED BY <1>6, <1>7 DEF LifeStep

-----------------------------------------------------------------------------
(* The steps of one pilot.                                                 *)

\* A change of a hull that its life does not notice.
LEMMA SameLifeFit ==
  ASSUME NEW k \in {0, 1}, NEW s, Fit(s, k), NEW x \in Actors,
         x.hp = s.hp, x.downed = s.downed, x.exploding = s.exploding, x.respawn = s.respawn,
         x.age \in {0, s.age}, x.here, ~x.owned => x.transit = 0,
         x.downed # Never => x.transit = 0 /\ x.target = NoOne
  PROVE  Fit(x, k)
<1>1. s.age \in Nat /\ s.downed \in Int /\ s.respawn \in Int
  BY Fields, LifeNumbers DEF Fit
<1> QED BY <1>1, LifeNumbers DEF Fit, WaitsInTime

\* What is known of a pilot before a step, and how a field that stays is written.
LEMMA Before ==
  ASSUME LifeInv, NEW p \in Pilots
  PROVE  /\ LifeFine(p) /\ Ticks \in {0, 1}
         /\ coop = [coop EXCEPT ![p] = coop[p]] /\ saved = [saved EXCEPT ![p] = saved[p]]
         /\ unsaved \subseteq Pilots
         /\ journeys = IF ship[p].transit > 0 THEN journeys \cup {p} ELSE journeys \ {p}
<1>1. Shapes /\ LifeFine(p)
  BY PilotByPilot
<1>2. coop = [coop EXCEPT ![p] = coop[p]] /\ saved = [saved EXCEPT ![p] = saved[p]]
  BY <1>1 DEF Shapes
<1> QED BY <1>1, <1>2 DEF Shapes, LifeFine, Ticks

LEMMA HealthIsKnown ==
  ASSUME NEW s
  PROVE  /\ Health(s) \in Hulls /\ Health(s) # "unknown"
         /\ ~s.hp => Health(s) = "dead"
BY DEF Health, Hulls

\* What is captured of one pilot.
LEMMA CaptureOne ==
  ASSUME LifeInv, NEW p \in Pilots, NEW x, ship' = [ship EXCEPT ![p] = x], Capture({p})
  PROVE  saved' = [saved EXCEPT ![p] = IF saved[p] # "unknown" /\ x.here THEN Health(x)
                                       ELSE saved[p]]
<1>1. Shapes
  BY PilotByPilot
<1>2. ship'[p] = x
  BY <1>1 DEF Shapes
<1> QED BY <1>1, <1>2 DEF Shapes, Capture

LEMMA HitStep ==
  ASSUME LifeInv, NEW p \in Pilots, NEW lethal \in BOOLEAN, Hit(p, lethal)
  PROVE  LifeStep
<1> DEFINE s == ship[p]
           x == IF lethal THEN Downed(s) ELSE [Idle(s) EXCEPT !.age = 0]
           c == IF lethal THEN DownedTicks ELSE coop[p]
           h == IF saved[p] # "unknown" /\ x.here THEN Health(x) ELSE saved[p]
<1>1. LifeFine(p) /\ Ticks \in {0, 1} /\ Fit(s, Ticks)
  BY Before DEF LifeFine
<1>2. s.here /\ Flying(s) /\ s.transit = 0 /\ saved[p] # "unknown" /\ coop[p] = s.downed
  BY <1>1 DEF Hit, LifeFine
<1>3. s.downed = Never
  BY <1>1, <1>2 DEF Fit, Flying
<1>4. Fit(x, Ticks) /\ x.here /\ x.transit = 0 /\ x.downed = c
  <2>1. CASE lethal
    BY <1>1, <1>2, <2>1, DownedFit
  <2>2. CASE ~lethal
    <3>1. Fit(Idle(s), Ticks) /\ Idle(s).here /\ Idle(s).downed = Never /\ Idle(s).transit = 0
      BY <1>1, <1>2, <1>3, IdleFit
    <3>2. x \in Actors /\ x = [Idle(s) EXCEPT !.age = 0]
      BY <2>2, <3>1, Ranges DEF Fit, Actors
    <3>3. /\ x.hp = Idle(s).hp /\ x.downed = Never /\ x.here /\ x.transit = 0
          /\ x.exploding = Idle(s).exploding /\ x.respawn = Idle(s).respawn
          /\ x.age = 0
      BY <3>1, <3>2 DEF Fit, Actors
    <3>4. Fit(x, Ticks)
      BY <1>1, <3>1, <3>2, <3>3, SameLifeFit
    <3> QED BY <1>2, <1>3, <2>2, <3>3, <3>4
  <2> QED BY <2>1, <2>2
<1>5. /\ ship' = [ship EXCEPT ![p] = x] /\ db' = db /\ ticked' = ticked
      /\ coop' = [coop EXCEPT ![p] = c] /\ unsaved' \in {unsaved, unsaved \cup {p}}
      /\ c # coop[p] => p \in unsaved'
  BY Before DEF Hit
<1>6. journeys' = IF x.transit > 0 THEN journeys \cup {p} ELSE journeys \ {p}
  BY <1>2, <1>4, Before DEF Hit
<1>7. saved' = [saved EXCEPT ![p] = h]
  <2> HIDE DEF x
  <2> QED BY <1>5, CaptureOne DEF Hit
<1>8. c \in Never .. DownedTicks /\ c = x.downed
  BY <1>1, <1>4, Ranges DEF LifeFine
<1>9. h \in Hulls /\ h # "unknown"
  BY <1>2, <1>4, HealthIsKnown
<1>10. ~(coop[p] # Never)
  BY <1>2, <1>3
<1> HIDE DEF x, c, h
<1> QED BY <1>1, <1>4, <1>5, <1>6, <1>7, <1>8, <1>9, <1>10, OneLife

\* A step that changes no more than a hull, and not its life.
LEMMA QuietLife ==
  ASSUME LifeInv, NEW p \in Pilots, NEW x, ship[p].here,
         ship' = [ship EXCEPT ![p] = x],
         journeys' = IF x.transit > 0 THEN journeys \cup {p} ELSE journeys \ {p},
         UNCHANGED <<coop, unsaved, saved, db, ticked>>,
         Fit(x, Ticks), x.here, x.downed = ship[p].downed
  PROVE  LifeStep
<1>1. /\ LifeFine(p) /\ coop = [coop EXCEPT ![p] = coop[p]]
      /\ saved = [saved EXCEPT ![p] = saved[p]]
  BY Before
<1>2. /\ coop[p] \in Never .. DownedTicks /\ saved[p] \in Hulls
      /\ coop[p] = x.downed /\ saved[p] # "unknown"
  BY <1>1 DEF LifeFine
<1> QED BY <1>1, <1>2, OneLife

\* The pilot's own steps: rescue, map, tools, journeys.
LEMMA QuietSteps ==
  ASSUME LifeInv, NEW p \in Pilots,
         \/ \E t \in Pilots : StartRescue(p, t)
         \/ EndRescue(p) \/ Act(p) \/ Travel(p)
         \/ \E held \in BOOLEAN : SetOverlayHold(p, held)
  PROVE  LifeStep
<1> DEFINE s == ship[p]
<1>1. LifeFine(p) /\ Ticks \in {0, 1} /\ Fit(s, Ticks) /\ s \in Actors
      /\ journeys = (IF s.transit > 0 THEN journeys \cup {p} ELSE journeys \ {p})
      /\ ship = [ship EXCEPT ![p] = s]
  <2>1. Shapes
    BY PilotByPilot
  <2>2. ship = [ship EXCEPT ![p] = s]
    BY <2>1 DEF Shapes
  <2> QED BY <2>2, Before DEF LifeFine, Fit
<1>2. CASE \E t \in Pilots : StartRescue(p, t)
  <2>1. PICK t \in Pilots : StartRescue(p, t)
    BY <1>2
  <2> DEFINE x == [s EXCEPT !.target = t, !.left = ReviveTicks]
  <2>2. s.here /\ s.owned /\ s.transit = 0 /\ s.downed = Never
    BY <2>1 DEF StartRescue
  <2>3. x \in Actors
    BY <1>1, Ranges DEF Actors
  <2>4. /\ x.hp = s.hp /\ x.downed = s.downed /\ x.exploding = s.exploding
        /\ x.respawn = s.respawn /\ x.age = s.age /\ x.here /\ x.owned /\ x.transit = s.transit
    BY <1>1, <2>2 DEF Actors
  <2>5. Fit(x, Ticks)
    BY <1>1, <2>2, <2>3, <2>4, SameLifeFit
  <2>6. /\ ship' = [ship EXCEPT ![p] = x] /\ UNCHANGED <<coop, unsaved, saved, db, ticked>>
        /\ journeys' = journeys
    BY <2>1 DEF StartRescue
  <2> HIDE DEF x
  <2> QED BY <1>1, <2>2, <2>4, <2>5, <2>6, QuietLife
<1>3. CASE EndRescue(p)
  <2>1. s.here /\ ship' = [ship EXCEPT ![p] = Idle(s)] /\ journeys' = journeys
        /\ UNCHANGED <<coop, unsaved, saved, db, ticked>>
    BY <1>3 DEF EndRescue
  <2>2. Fit(Idle(s), Ticks) /\ Idle(s).here /\ Idle(s).downed = s.downed
        /\ Idle(s).transit = s.transit
    BY <1>1, <2>1, IdleFit
  <2> QED BY <1>1, <2>1, <2>2, QuietLife
<1>4. CASE Act(p)
  <2> DEFINE x == [s EXCEPT !.age = 0]
  <2>1. s.here /\ s.owned /\ Flying(s) /\ ship' = [ship EXCEPT ![p] = x] /\ journeys' = journeys
        /\ UNCHANGED <<coop, unsaved, saved, db, ticked>>
    BY <1>4 DEF Act
  <2>2. x \in Actors
    BY <1>1, Ranges DEF Actors
  <2>3. /\ x.hp = s.hp /\ x.downed = s.downed /\ x.exploding = s.exploding
        /\ x.respawn = s.respawn /\ x.age = 0 /\ x.here /\ x.owned /\ x.transit = s.transit
        /\ s.downed = Never
    BY <1>1, <2>1 DEF Actors, Flying, Fit
  <2>4. Fit(x, Ticks)
    BY <1>1, <2>2, <2>3, SameLifeFit
  <2> HIDE DEF x
  <2> QED BY <1>1, <2>1, <2>3, <2>4, QuietLife
<1>5. CASE Travel(p)
  <2> DEFINE x == [s EXCEPT !.transit = TravelFrames, !.hold = TRUE]
  <2>1. s.here /\ s.owned /\ Flying(s) /\ ship' = [ship EXCEPT ![p] = x]
        /\ journeys' = journeys \cup {p} /\ UNCHANGED <<coop, unsaved, saved, db, ticked>>
    BY <1>5 DEF Travel
  <2>2. x \in Actors
    BY <1>1, Ranges DEF Actors
  <2>3. /\ x.hp = s.hp /\ x.downed = s.downed /\ x.exploding = s.exploding
        /\ x.respawn = s.respawn /\ x.age = s.age /\ x.here /\ x.owned
        /\ x.transit = TravelFrames /\ s.downed = Never
    BY <1>1, <2>1 DEF Actors, Flying, Fit
  <2>4. Fit(x, Ticks)
    BY <1>1, <2>2, <2>3, SameLifeFit
  <2> HIDE DEF x
  <2>5. x.transit > 0
    BY <2>3, LifeNumbers
  <2> QED BY <1>1, <2>1, <2>3, <2>4, <2>5, QuietLife
<1>6. CASE \E held \in BOOLEAN : SetOverlayHold(p, held)
  <2>1. PICK held \in BOOLEAN : SetOverlayHold(p, held)
    BY <1>6
  <2> DEFINE x == IF held THEN [Idle(s) EXCEPT !.hold = TRUE]
                  ELSE [s EXCEPT !.hold = FALSE, !.blink = @ \/ Flying(s)]
  <2>2. s.here /\ s.owned /\ s.transit = 0 /\ ship' = [ship EXCEPT ![p] = x]
        /\ journeys' = journeys /\ UNCHANGED <<coop, unsaved, saved, db, ticked>>
    BY <2>1 DEF SetOverlayHold
  <2>3. Idle(s) \in Actors /\ Fit(Idle(s), Ticks)
    BY <1>1, IdleFit DEF Fit
  <2>4. x \in Actors
    <3>1. s.blink \/ Flying(s) \in BOOLEAN
      BY <1>1 DEF Flying, Actors
    <3> QED BY <1>1, <2>3, <3>1, Ranges DEF Actors
  <2>5. /\ x.hp = s.hp /\ x.downed = s.downed /\ x.exploding = s.exploding
        /\ x.respawn = s.respawn /\ x.age = s.age /\ x.here /\ x.owned /\ x.transit = 0
        /\ x.target \in {NoOne, s.target}
    BY <1>1, <2>2, <2>3, IdleFit DEF Actors, Idle
  <2> HIDE DEF x
  <2>6. Fit(x, Ticks)
    <3>1. s.downed # Never => s.target = NoOne
      BY <1>1 DEF Fit
    <3>2. x.downed # Never => x.transit = 0 /\ x.target = NoOne
      BY <2>5, <3>1
    <3> HIDE DEF s
    <3> QED BY <1>1, <2>4, <2>5, <3>2, SameLifeFit
  <2> QED BY <1>1, <2>2, <2>5, <2>6, QuietLife
<1> QED BY <1>2, <1>3, <1>4, <1>5, <1>6

\* The pilot gives up: its window ends with its death.
LEMMA GiveUpStep ==
  ASSUME LifeInv, NEW p \in Pilots, GiveUp(p)
  PROVE  LifeStep
<1> DEFINE x == Finished(ship[p])
           h == IF saved[p] # "unknown" /\ x.here THEN Health(x) ELSE saved[p]
<1>1. LifeFine(p) /\ Ticks \in {0, 1} /\ Fit(ship[p], Ticks) /\ Shapes
  BY Before, PilotByPilot DEF LifeFine
<1>2. ship[p].here /\ ship[p].downed # Never
  BY DEF GiveUp
<1>3. ~ship[p].hp /\ ship[p].respawn = Never /\ ship[p].transit = 0
  BY <1>1, <1>2 DEF Fit
<1>4. /\ Fit(x, Ticks) /\ x.here /\ x.downed = Never /\ x.transit = 0
      /\ x.respawn = DyingFrames
  BY <1>1, <1>2, <1>3, FinishedFit
<1>5. coop' = [coop EXCEPT ![p] = Never]
  BY <1>1 DEF GiveUp, WithoutWindow, Shapes
<1>6. /\ ship' = [ship EXCEPT ![p] = x] /\ db' = db /\ ticked' = ticked
      /\ unsaved' = unsaved \cup {p} /\ journeys' = journeys /\ Capture({p})
  BY DEF GiveUp
<1> HIDE DEF x
<1>7. saved' = [saved EXCEPT ![p] = h]
  BY <1>6, CaptureOne
<1>8. journeys' = IF x.transit > 0 THEN journeys \cup {p} ELSE journeys \ {p}
  BY <1>3, <1>4, <1>6, Before
<1>9. saved[p] # "unknown" /\ h \in Hulls /\ h # "unknown"
  BY <1>1, <1>2, <1>4, HealthIsKnown DEF LifeFine
<1> HIDE DEF h
<1>10. Never \in Never .. DownedTicks /\ x.respawn # Never
  BY <1>4, Ranges, LifeNumbers
<1> QED BY <1>1, <1>2, <1>4, <1>5, <1>6, <1>7, <1>8, <1>9, <1>10, OneLife

\* The pilot leaves: if its hull lay in a window, it is saved dead.
LEMMA LeaveStep ==
  ASSUME LifeInv, NEW p \in Pilots, Leave(p)
  PROVE  LifeStep
<1> DEFINE h == Health(ship[p])
<1>1. LifeFine(p) /\ Ticks \in {0, 1} /\ coop = [coop EXCEPT ![p] = coop[p]]
  BY Before
<1>2. /\ ship[p].here /\ ship' = [ship EXCEPT ![p] = Gone] /\ journeys' = journeys \ {p}
      /\ saved' = [saved EXCEPT ![p] = h] /\ UNCHANGED <<coop, unsaved, db, ticked>>
  BY DEF Leave
<1>3. coop[p] \in Never .. DownedTicks /\ coop[p] = ship[p].downed
  BY <1>1, <1>2 DEF LifeFine
<1>4. coop[p] # Never => h = "dead"
  BY <1>1, <1>3, HealthIsKnown DEF LifeFine, Fit
<1>5. h \in Hulls
  BY HealthIsKnown
<1>6. Fit(Gone, Ticks) /\ ~Gone.here /\ Gone.transit = 0
  BY <1>1, FreshFit
<1> HIDE DEF h
<1>7. /\ coop' = [coop EXCEPT ![p] = coop[p]] /\ db' = db /\ ticked' = ticked
      /\ unsaved' \in {unsaved, unsaved \cup {p}}
      /\ journeys' = IF Gone.transit > 0 THEN journeys \cup {p} ELSE journeys \ {p}
  BY <1>1, <1>2, <1>6
<1> QED BY <1>2, <1>3, <1>4, <1>5, <1>6, <1>7, OneLife

\* A new pilot has no window: it is not one that was saved.
LEMMA JoinStep ==
  ASSUME LifeInv, NEW p \in Pilots, Join(p)
  PROVE  LifeStep
<1>1. LifeFine(p) /\ Ticks \in {0, 1} /\ coop = [coop EXCEPT ![p] = coop[p]]
      /\ journeys = (IF ship[p].transit > 0 THEN journeys \cup {p} ELSE journeys \ {p})
  BY Before
<1>2. /\ ~ship[p].here /\ saved[p] = "unknown" /\ ship' = [ship EXCEPT ![p] = Fresh]
      /\ saved' = [saved EXCEPT ![p] = "alive"]
      /\ UNCHANGED <<coop, unsaved, journeys, db, ticked>>
  BY DEF Join
<1>3. coop[p] = Never /\ coop[p] \in Never .. DownedTicks /\ ship[p] = Gone
  BY <1>1, <1>2 DEF LifeFine
<1>4. Fit(Fresh, Ticks) /\ Fresh.here /\ Fresh.downed = Never /\ Fresh.transit = 0
      /\ Gone.transit = 0
  BY <1>1, FreshFit
<1>5. journeys' = IF Fresh.transit > 0 THEN journeys \cup {p} ELSE journeys \ {p}
  BY <1>1, <1>2, <1>3, <1>4
<1>6. "alive" \in Hulls /\ "alive" # "unknown"
  BY DEF Hulls
<1> QED BY <1>1, <1>2, <1>3, <1>4, <1>5, <1>6, OneLife

\* A session taken up by a new socket: its window goes on, or ends with the death it
\* was due.
LEMMA ResumeStep ==
  ASSUME LifeInv, NEW p \in Pilots, NEW refit \in BOOLEAN, Resume(p, refit)
  PROVE  LifeStep
<1> DEFINE s == [ship[p] EXCEPT !.owned = TRUE, !.grace = 0, !.age = 0]
           due == s.downed = 0
           r == IF due THEN Finished(s) ELSE s
           x == [r EXCEPT !.hp = @ \/ refit]
           c == IF due THEN Never ELSE coop[p]
           h == IF due /\ saved[p] # "unknown" THEN "dead" ELSE saved[p]
<1>1. /\ LifeFine(p) /\ Ticks \in {0, 1} /\ Fit(ship[p], Ticks) /\ Shapes
      /\ ship[p] \in Actors
  BY Before, PilotByPilot DEF LifeFine, Fit
<1>2. /\ ship[p].here /\ (refit => r.downed = Never) /\ ship' = [ship EXCEPT ![p] = x]
      /\ journeys' = journeys /\ db' = db /\ ticked' = ticked
  BY DEF Resume
<1>3. /\ coop' = (IF due THEN WithoutWindow({p}) ELSE coop)
      /\ unsaved' = (IF due THEN unsaved \cup {p} ELSE unsaved)
      /\ saved' = (IF due /\ saved[p] # "unknown" THEN [saved EXCEPT ![p] = "dead"]
                   ELSE saved)
  BY DEF Resume
<1>4. coop[p] = ship[p].downed /\ saved[p] # "unknown"
  BY <1>1, <1>2 DEF LifeFine
<1>5. /\ s \in Actors /\ s.hp = ship[p].hp /\ s.downed = ship[p].downed
      /\ s.exploding = ship[p].exploding /\ s.respawn = ship[p].respawn
      /\ s.age = 0 /\ s.here /\ s.owned /\ s.transit = ship[p].transit
      /\ s.target = ship[p].target
  BY <1>1, <1>2, Ranges DEF Actors
<1> HIDE DEF s
<1>6. Fit(s, Ticks)
  BY <1>1, <1>2, <1>5, SameLifeFit DEF Fit
<1>7. /\ Fit(r, Ticks) /\ r.here /\ r.downed = c /\ r.transit = ship[p].transit
      /\ due => r.respawn # Never
  <2>1. CASE due
    <3>1. s.downed # Never
      BY <2>1, LifeNumbers
    <3>2. ~s.hp /\ s.respawn = Never /\ s.transit = 0
      BY <1>6, <3>1 DEF Fit
    <3>3. /\ Fit(Finished(s), Ticks) /\ Finished(s).here /\ Finished(s).downed = Never
          /\ Finished(s).transit = 0 /\ Finished(s).respawn = DyingFrames
      BY <1>1, <1>5, <1>6, <3>2, FinishedFit
    <3> QED BY <1>5, <2>1, <3>2, <3>3, LifeNumbers
  <2>2. CASE ~due
    BY <1>4, <1>5, <1>6, <2>2
  <2> QED BY <2>1, <2>2
<1>8. /\ c \in Never .. DownedTicks /\ h \in Hulls /\ h # "unknown"
      /\ coop' = [coop EXCEPT ![p] = c] /\ saved' = [saved EXCEPT ![p] = h]
      /\ unsaved' \in {unsaved, unsaved \cup {p}}
      /\ c # coop[p] => p \in unsaved'
  <2>1. c \in Never .. DownedTicks /\ h \in Hulls /\ h # "unknown"
    BY <1>1, <1>4, Ranges DEF LifeFine, Hulls
  <2>2. coop' = [coop EXCEPT ![p] = c] /\ saved' = [saved EXCEPT ![p] = h]
    BY <1>1, <1>3, <1>4, Before DEF Shapes, WithoutWindow
  <2> QED BY <1>3, <2>1, <2>2
<1> HIDE DEF r, c, h
<1>9. x \in Actors /\ x.hp = (r.hp \/ refit) /\ x.here /\ x.downed = c
      /\ x.transit = ship[p].transit /\ x.respawn = r.respawn /\ x.exploding = r.exploding
      /\ x.age = r.age /\ x.target = r.target /\ x.owned = r.owned
  <2>1. (r.hp \/ refit) \in BOOLEAN /\ r \in Actors
    BY <1>7 DEF Fit
  <2> QED BY <1>7, <2>1 DEF Actors
<1> HIDE DEF x, due
<1>10. Fit(x, Ticks)
  BY <1>2, <1>7, <1>9 DEF Fit, WaitsInTime
<1>11. journeys' = IF x.transit > 0 THEN journeys \cup {p} ELSE journeys \ {p}
  BY <1>2, <1>9, Before
<1>12. coop[p] # Never /\ c = Never => x.respawn # Never
  BY <1>4, <1>5, <1>7, <1>9 DEF c, due
<1>13. x.here /\ c = x.downed /\ db' = db /\ ticked' = ticked /\ h # "unknown"
  BY <1>2, <1>8, <1>9
<1> QED BY <1>2, <1>8, <1>10, <1>11, <1>12, <1>13, OneLife

\* What is made of a saved pilot.
LEMMA RestoredFit ==
  ASSUME NEW p \in Pilots, coop[p] \in Never .. DownedTicks, NEW health,
         NEW blink \in BOOLEAN, NEW k \in {0, 1}
  PROVE  /\ Fit(Restored(p, health, blink), k) /\ Restored(p, health, blink).here
         /\ Restored(p, health, blink).transit = 0
         /\ coop[p] # 0 => Restored(p, health, blink).downed = coop[p]
         /\ coop[p] = 0 => /\ Restored(p, health, blink).downed = Never
                           /\ Restored(p, health, blink).respawn = DyingFrames
<1> DEFINE x == Restored(p, health, blink)
<1>1. Fresh \in Actors /\ k >= 0
  BY FreshFit DEF Fit
<1>2. CASE coop[p] = 0
  <2> DEFINE d == [Fresh EXCEPT !.hp = FALSE, !.blink = FALSE]
  <2>1. x = Finished(d)
    BY <1>2 DEF Restored
  <2>2. d \in Actors
    BY <1>1, Ranges DEF Actors
  <2>3. /\ ~d.hp /\ d.respawn = Never /\ d.downed = Never /\ d.transit = 0 /\ d.here
        /\ d.owned /\ d.target = NoOne
    BY DEF Fresh
  <2> HIDE DEF d
  <2>4. x = [d EXCEPT !.downed = Never, !.age = 0, !.exploding = DyingFrames,
                      !.respawn = DyingFrames]
    BY <2>1, <2>2, <2>3 DEF Finished, Actors
  <2>5. x \in Actors
    BY <2>2, <2>4, Ranges DEF Actors
  <2>6. /\ ~x.hp /\ x.downed = Never /\ x.respawn = DyingFrames /\ x.age = 0
        /\ x.transit = 0 /\ x.here /\ x.owned
    BY <2>2, <2>3, <2>4 DEF Actors
  <2> HIDE DEF x
  <2>7. Fit(x, k)
    BY <1>1, <2>5, <2>6, LifeNumbers DEF Fit, WaitsInTime
  <2> QED BY <1>2, <2>6, <2>7 DEF x
<1>3. CASE coop[p] > 0
  <2>1. x = [Fresh EXCEPT !.hp = FALSE, !.downed = coop[p], !.blink = FALSE]
    BY <1>3 DEF Restored
  <2>2. x \in Actors
    BY <1>1, <2>1, Ranges DEF Actors
  <2> QED BY <1>1, <1>3, <2>1, <2>2, LifeNumbers DEF Fresh, Fit, WaitsInTime
<1>4. CASE coop[p] = Never /\ health = "dead"
  <2>1. x = [Fresh EXCEPT !.hp = FALSE, !.respawn = DyingFrames, !.blink = blink]
    BY <1>4, LifeNumbers DEF Restored
  <2>2. x \in Actors
    BY <1>1, <2>1, Ranges DEF Actors
  <2>3. /\ ~x.hp /\ x.downed = Never /\ x.respawn = DyingFrames /\ x.age = 0
        /\ x.exploding = 0 /\ x.transit = 0 /\ x.here /\ x.owned
    BY <2>1 DEF Fresh
  <2> QED BY <1>1, <1>4, <2>2, <2>3, LifeNumbers DEF Fit, WaitsInTime
<1>5. CASE coop[p] = Never /\ health # "dead"
  <2>1. x = [Fresh EXCEPT !.blink = blink]
    BY <1>5, LifeNumbers DEF Restored
  <2>2. x \in Actors
    BY <1>1, <2>1, Ranges DEF Actors
  <2> QED BY <1>1, <1>5, <2>1, <2>2, LifeNumbers DEF Fresh, Fit, WaitsInTime
<1> QED BY <1>2, <1>3, <1>4, <1>5, LifeNumbers

\* A saved pilot comes back into its window, or to the death it was due.
LEMMA RestoreStep ==
  ASSUME LifeInv, NEW p \in Pilots, NEW blink \in BOOLEAN, Restore(p, blink)
  PROVE  LifeStep
<1> DEFINE health == IF ship[p].here THEN Health(ship[p]) ELSE saved[p]
           x == Restored(p, health, blink)
           c == IF coop[p] = 0 THEN Never ELSE coop[p]
           h == IF saved[p] # "unknown" /\ x.here THEN Health(x) ELSE saved[p]
<1>1. LifeFine(p) /\ Ticks \in {0, 1} /\ Fit(ship[p], Ticks) /\ Shapes
  BY Before, PilotByPilot DEF LifeFine
<1>2. /\ ~ship[p].here \/ Expired(ship[p])
      /\ saved[p] # "unknown" /\ ship' = [ship EXCEPT ![p] = x]
      /\ coop' = (IF coop[p] = 0 THEN WithoutWindow({p}) ELSE coop)
      /\ unsaved' = (IF coop[p] = 0 THEN unsaved \cup {p} ELSE unsaved)
      /\ journeys' = journeys /\ db' = db /\ ticked' = ticked /\ Capture({p})
  BY DEF Restore
<1>3. coop[p] \in Never .. DownedTicks /\ ship[p].transit = 0
  BY <1>1, <1>2, FreshFit DEF LifeFine, Fit, Expired
<1>4. /\ Fit(x, Ticks) /\ x.here /\ x.transit = 0 /\ x.downed = c
      /\ coop[p] = 0 => x.respawn = DyingFrames
  BY <1>1, <1>3, RestoredFit
<1> HIDE DEF x
<1>5. saved' = [saved EXCEPT ![p] = h]
  BY <1>2, CaptureOne
<1>6. coop' = [coop EXCEPT ![p] = c] /\ c \in Never .. DownedTicks
  BY <1>1, <1>2, <1>3, Before, Ranges DEF Shapes, WithoutWindow
<1>7. h \in Hulls /\ h # "unknown"
  BY <1>2, <1>4, HealthIsKnown
<1>8. journeys' = IF x.transit > 0 THEN journeys \cup {p} ELSE journeys \ {p}
  BY <1>2, <1>3, <1>4, Before
<1>9. /\ unsaved' \in {unsaved, unsaved \cup {p}}
      /\ c # coop[p] => p \in unsaved'
      /\ coop[p] # Never /\ c = Never => x.respawn # Never
  BY <1>2, <1>4, LifeNumbers
<1> HIDE DEF h, c
<1> QED BY <1>2, <1>4, <1>5, <1>6, <1>7, <1>8, <1>9, OneLife

-----------------------------------------------------------------------------
(* The steps of all pilots.                                                *)

\* The link breaks: journeys and rescues end, no life does.
LEMMA TransportClosedStep ==
  ASSUME LifeInv, NEW p \in Pilots, TransportClosed(p)
  PROVE  LifeStep
<1> DEFINE a == Arrived(Idle(ship[p]))
           x == [a EXCEPT !.owned = FALSE, !.grace = GraceTicks]
<1>1. Shapes /\ \A q \in Pilots : LifeFine(q)
  BY PilotByPilot
<1>2. Ticks \in {0, 1} /\ Ticks' = Ticks
  BY <1>1 DEF Shapes, Ticks, TransportClosed
<1>3. /\ ship[p].here /\ journeys' = journeys \ {p}
      /\ UNCHANGED <<coop, unsaved, saved, db, ticked>>
      /\ ship' = [q \in Pilots |->
                    IF q = p THEN x
                    ELSE IF ship[q].target = p THEN Idle(ship[q]) ELSE ship[q]]
  BY DEF TransportClosed
<1>4. Shapes'
  BY <1>1, <1>3 DEF Shapes
<1>5. /\ Fit(x, Ticks) /\ x.here /\ x.downed = ship[p].downed /\ x.transit = 0
  <2>1. Fit(ship[p], Ticks)
    BY <1>1 DEF LifeFine
  <2>2. /\ Fit(Idle(ship[p]), Ticks) /\ Idle(ship[p]).here
        /\ Idle(ship[p]).downed = ship[p].downed
    BY <1>2, <1>3, <2>1, IdleFit
  <2>3. Fit(a, Ticks) /\ a.here /\ a.downed = ship[p].downed /\ a.transit = 0
    BY <1>2, <2>2, ArrivedFit
  <2> HIDE DEF a
  <2>4. x \in Actors
    BY <2>3, Ranges DEF Fit, Actors
  <2>5. /\ x.hp = a.hp /\ x.downed = a.downed /\ x.exploding = a.exploding
        /\ x.respawn = a.respawn /\ x.age = a.age /\ x.here /\ x.transit = 0
        /\ x.target = a.target
    BY <2>3 DEF Fit, Actors
  <2> HIDE DEF x
  <2>6. x.downed # Never => x.target = NoOne
    BY <2>3, <2>5 DEF Fit
  <2>7. Fit(x, Ticks)
    BY <1>2, <2>3, <2>4, <2>5, <2>6, SameLifeFit
  <2> QED BY <2>3, <2>5, <2>7
<1> HIDE DEF x
<1>6. \A q \in Pilots : /\ LifeFine(q)'
                        /\ coop'[q] = coop[q] /\ (ship[q].here => ship'[q].here)
  <2> TAKE q \in Pilots
  <2>1. CASE q = p
    <3>1. ship'[p] = x
      BY <1>3
    <3>2. (p \in journeys)' <=> x.transit > 0
      BY <1>3, <1>5
    <3>3. LifeFine(p)
      BY <1>1
    <3> QED BY <1>2, <1>3, <1>5, <2>1, <3>1, <3>2, <3>3 DEF LifeFine
  <2>2. CASE q # p
    <3>1. LifeFine(q)
      BY <1>1
    <3>2. /\ Fit(ship'[q], Ticks) /\ ship'[q].here = ship[q].here
          /\ ship'[q].downed = ship[q].downed /\ ship'[q].transit = ship[q].transit
      BY <1>2, <1>3, <2>2, <3>1, IdleFit DEF LifeFine
    <3>3. (q \in journeys)' <=> q \in journeys
      BY <1>3, <2>2
    <3>4. ~ship[q].here => ship'[q] = Gone
      <4>1. SUFFICES ASSUME ~ship[q].here PROVE ship'[q] = Gone
        OBVIOUS
      <4>2. ship[q] = Gone
        BY <3>1, <4>1 DEF LifeFine
      <4>3. ship[q].target # p
        BY <4>2, LifeNumbers DEF Gone, Fresh
      <4> QED BY <1>3, <2>2, <4>2, <4>3
    <3> QED BY <1>2, <1>3, <3>1, <3>2, <3>3, <3>4 DEF LifeFine
  <2> QED BY <2>1, <2>2
<1>7. LifeInv'
  BY <1>4, <1>6, PilotByPilotAfter
<1> QED BY <1>6, <1>7 DEF LifeStep, EndsWell, Stays

\* A tick: every deadline is as much nearer in all places.
LEMMA ElapseStep ==
  ASSUME LifeInv, Elapse
  PROVE  LifeStep
<1>1. Shapes /\ \A q \in Pilots : LifeFine(q)
  BY PilotByPilot
<1>2. Ticks = 0 /\ Ticks' = 1
  BY DEF Ticks, Elapse
<1>3. ship' = [q \in Pilots |-> Ticking(ship[q])]
  <2>1. \A q \in Pilots :
          Ticking(ship[q]) =
            [ship[q] EXCEPT !.downed = IF @ > 0 THEN @ - 1 ELSE @,
                            !.left = IF @ > 0 THEN @ - 1 ELSE @,
                            !.grace = IF @ > 0 THEN @ - 1 ELSE @,
                            !.age = IF ship[q].here /\ @ <= DownedTicks THEN @ + 1 ELSE @]
    BY DEF Ticking
  <2> QED BY <2>1 DEF Elapse
<1>4. /\ coop' = [q \in Pilots |-> IF coop[q] > 0 THEN coop[q] - 1 ELSE coop[q]]
      /\ db' = [db EXCEPT !.coop =
                  [q \in Pilots |-> IF db.coop[q] > 0 THEN db.coop[q] - 1 ELSE db.coop[q]]]
      /\ UNCHANGED <<unsaved, saved, journeys>> /\ ticked' = TRUE
  BY DEF Elapse
<1>5. /\ db'.pilots = db.pilots
      /\ db'.coop =
           [q \in Pilots |-> IF db.coop[q] > 0 THEN db.coop[q] - 1 ELSE db.coop[q]]
      /\ db' = [pilots |-> db'.pilots, coop |-> db'.coop]
  BY <1>1, <1>4 DEF Shapes
<1>6. Shapes'
  BY <1>1, <1>3, <1>4, <1>5 DEF Shapes
<1>7. \A q \in Pilots : /\ LifeFine(q)' /\ (coop'[q] = Never => coop[q] = Never)
                        /\ ship'[q].here = ship[q].here
  <2> TAKE q \in Pilots
  <2>1. LifeFine(q) /\ Fit(ship[q], 0)
    BY <1>1, <1>2 DEF LifeFine
  <2> DEFINE s == ship[q]
  <2>2. /\ ship'[q] = Ticking(s) /\ Fit(Ticking(s), 1) /\ Ticking(s).here = s.here
        /\ Ticking(s).transit = s.transit
        /\ Ticking(s).downed = IF s.downed > 0 THEN s.downed - 1 ELSE s.downed
    BY <1>3, <2>1, TickingFit
  <2>3. /\ coop'[q] = IF coop[q] > 0 THEN coop[q] - 1 ELSE coop[q]
        /\ db'.coop[q] = IF db.coop[q] > 0 THEN db.coop[q] - 1 ELSE db.coop[q]
        /\ db'.pilots[q] = db.pilots[q]
    BY <1>4, <1>5
  <2>4. coop[q] \in Never .. DownedTicks /\ db.coop[q] \in Never .. DownedTicks
    BY <2>1 DEF LifeFine
  <2>5. /\ coop'[q] \in Never .. DownedTicks /\ db'.coop[q] \in Never .. DownedTicks
        /\ coop'[q] # Never <=> coop[q] # Never
        /\ db'.coop[q] # Never <=> db.coop[q] # Never
    BY <2>3, <2>4, LifeNumbers
  <2>6. ~s.here => Ticking(s) = Gone
    <3>1. SUFFICES ASSUME ~s.here PROVE Ticking(s) = Gone
      OBVIOUS
    <3>2. s = Gone
      BY <2>1, <3>1 DEF LifeFine
    <3>3. Gone \in Actors /\ ~Gone.here /\ ~(Gone.downed > 0) /\ ~(Gone.left > 0)
          /\ ~(Gone.grace > 0)
      BY FreshFit, LifeNumbers DEF Fit, Gone, Fresh
    <3>4. Ticking(Gone) = [Gone EXCEPT !.downed = Gone.downed, !.left = Gone.left,
                                       !.grace = Gone.grace, !.age = Gone.age]
      BY <3>3 DEF Ticking, Actors
    <3>5. Ticking(Gone) = Gone
      BY <3>3, <3>4 DEF Actors
    <3> QED BY <3>2, <3>5
  <2>7. s.here => coop'[q] = Ticking(s).downed
    BY <2>1, <2>2, <2>3 DEF LifeFine
  <2>8. q \notin unsaved => coop'[q] = db'.coop[q]
    BY <2>1, <2>3 DEF LifeFine
  <2> QED BY <1>2, <1>4, <2>1, <2>2, <2>3, <2>5, <2>6, <2>7, <2>8 DEF LifeFine
<1>8. LifeInv'
  BY <1>6, <1>7, PilotByPilotAfter
<1> QED BY <1>7, <1>8 DEF LifeStep, EndsWell, Stays

\* A write: the rows of those who are here are those of their hulls.
LEMMA FlushStep ==
  ASSUME LifeInv, Flush
  PROVE  LifeStep
<1> DEFINE rows == [q \in Pilots |-> IF ship[q].here THEN Health(ship[q]) ELSE saved[q]]
           windows == [q \in Pilots |-> IF q \in unsaved THEN coop[q] ELSE db.coop[q]]
<1>1. Shapes /\ \A q \in Pilots : LifeFine(q)
  BY PilotByPilot
<1>2. /\ db' = [pilots |-> rows, coop |-> windows] /\ saved' = rows /\ unsaved' = {}
      /\ UNCHANGED <<ship, coop, journeys, ticked>>
  BY DEF Flush
<1>3. Ticks' = Ticks
  BY <1>2 DEF Ticks
<1>4. Shapes'
  BY <1>1, <1>2 DEF Shapes
<1>5. \A q \in Pilots : LifeFine(q)' /\ coop'[q] = coop[q] /\ ship'[q] = ship[q]
  <2> TAKE q \in Pilots
  <2>1. LifeFine(q)
    BY <1>1
  <2>2. db'.pilots[q] = rows[q] /\ saved'[q] = rows[q] /\ db'.coop[q] = windows[q]
    BY <1>2
  <2>3. windows[q] = coop[q]
    BY <2>1 DEF LifeFine
  <2>4. rows[q] \in Hulls
    BY <2>1, HealthIsKnown DEF LifeFine
  <2>5. ship[q].here => rows[q] # "unknown"
    BY HealthIsKnown
  <2>6. coop[q] # Never => rows[q] = "dead"
    BY <2>1, HealthIsKnown DEF LifeFine, Fit
  <2> HIDE DEF rows, windows
  <2> QED BY <1>2, <1>3, <2>1, <2>2, <2>3, <2>4, <2>5, <2>6 DEF LifeFine
<1>6. LifeInv'
  BY <1>4, <1>5, PilotByPilotAfter
<1> QED BY <1>5, <1>6 DEF LifeStep, EndsWell, Stays

\* What a process loads agrees with itself.
LEMMA CrashStep ==
  ASSUME LifeInv, Crash
  PROVE  LifeStep
<1>1. Shapes /\ \A q \in Pilots : LifeFine(q)
  BY PilotByPilot
<1>2. /\ ship' = [q \in Pilots |-> Gone] /\ coop' = db.coop /\ saved' = db.pilots
      /\ unsaved' = {} /\ journeys' = {} /\ ticked' = FALSE /\ db' = db
  BY DEF Crash
<1>3. Shapes'
  BY <1>1, <1>2 DEF Shapes
<1>4. \A q \in Pilots : LifeFine(q)'
  <2> TAKE q \in Pilots
  <2>1. LifeFine(q)
    BY <1>1
  <2>2. ship'[q] = Gone /\ coop'[q] = db.coop[q] /\ saved'[q] = db.pilots[q] /\ Ticks' = 0
    BY <1>2 DEF Ticks
  <2>3. Fit(Gone, 0) /\ ~Gone.here /\ Gone.transit = 0
    BY FreshFit
  <2> QED BY <1>2, <2>1, <2>2, <2>3 DEF LifeFine
<1>5. LifeInv'
  BY <1>3, <1>4, PilotByPilotAfter
<1> QED BY <1>5 DEF LifeStep, EndsWell, Stays

-----------------------------------------------------------------------------
(* A frame.                                                                *)

\* A hull before, and after its window was looked at: one that is over is dying.
LEMMA WindowEnds ==
  ASSUME LifeInv, NEW p \in Pilots, NEW w, w = AfterWindows[p]
  PROVE  /\ Fit(w, Ticks) /\ w.here = ship[p].here /\ w.owned = ship[p].owned
         /\ w.transit = ship[p].transit
         /\ p \in Over => /\ w.downed = Never /\ ~w.hp /\ w.respawn = DyingFrames
                          /\ w.age = 0
         /\ p \notin Over => w = ship[p]
         /\ w.here => w.downed # 0
         /\ ~w.here => w = Gone
<1>1. LifeFine(p) /\ Ticks \in {0, 1} /\ Fit(ship[p], Ticks)
  BY Before DEF LifeFine
<1>2. CASE p \in Over
  <2>1. ship[p].here /\ ship[p].downed = 0 /\ w = Finished(ship[p])
    BY <1>2 DEF Over, AfterWindows
  <2>2. ~ship[p].hp /\ ship[p].respawn = Never /\ ship[p].transit = 0
    BY <1>1, <2>1, LifeNumbers DEF Fit
  <2>3. /\ Fit(w, Ticks) /\ w.here /\ w.downed = Never /\ w.transit = 0 /\ ~w.hp
        /\ w.age = 0 /\ w.respawn = DyingFrames /\ w.owned = ship[p].owned
    BY <1>1, <2>1, <2>2, FinishedFit
  <2> QED BY <1>2, <2>1, <2>2, <2>3, LifeNumbers
<1>3. CASE p \notin Over
  BY <1>1, <1>3 DEF Over, AfterWindows, LifeFine
<1> QED BY <1>2, <1>3

\* A hull after the rescues: revived, freed of a rescue it gave, or as it was.
LEMMA RescueEnds ==
  ASSUME LifeInv, NEW p \in Pilots, NEW moved, NEW r, r = AfterRescues(AfterWindows, moved)[p]
  PROVE  /\ Fit(r, Ticks) /\ r.here = ship[p].here /\ r.owned = ship[p].owned
         /\ r.transit = ship[p].transit
         /\ p \in Over \cup Completes(AfterWindows, moved)
              => r.here /\ r.downed = Never /\ r.age = 0
         /\ p \in Over => ~r.hp /\ r.respawn = DyingFrames
         /\ p \notin Over \cup Completes(AfterWindows, moved)
              => /\ r.downed = ship[p].downed /\ r.age = ship[p].age /\ r.hp = ship[p].hp
                 /\ r.respawn = ship[p].respawn /\ r.exploding = ship[p].exploding
         /\ r.here => r.downed # 0
         /\ ~r.here => r = Gone
<1> DEFINE at == AfterWindows
           w == at[p]
           revived == Completes(at, moved)
           o == IF w.target # NoOne /\ (w.left = 0 \/ ~Continues(w, at[w.target], p \notin moved))
                THEN Idle(w) ELSE w
<1>1. Ticks \in {0, 1}
  BY Before
<1>2. /\ Fit(w, Ticks) /\ w.here = ship[p].here /\ w.owned = ship[p].owned
      /\ w.transit = ship[p].transit
      /\ p \in Over => w.downed = Never /\ ~w.hp /\ w.respawn = DyingFrames /\ w.age = 0
      /\ p \notin Over => w = ship[p]
      /\ w.here => w.downed # 0
      /\ ~w.here => w = Gone
  BY WindowEnds
<1>3. r = IF p \in revived
          THEN [o EXCEPT !.downed = Never, !.hp = TRUE, !.blink = TRUE, !.age = 0]
          ELSE o
  BY DEF AfterRescues
<1>4. p \in revived => w.here /\ w.owned /\ w.downed # Never
  BY DEF Completes, Continues
<1>5. p \in Over => p \notin revived
  BY <1>2, <1>4
<1>6. p \in Over => w.here
  BY <1>2 DEF Over
<1> HIDE DEF w, revived, at
<1>7. /\ Fit(o, Ticks) /\ o.here = w.here /\ o.owned = w.owned /\ o.transit = w.transit
      /\ o.downed = w.downed /\ o.age = w.age /\ o.hp = w.hp /\ o.respawn = w.respawn
      /\ o.exploding = w.exploding
  BY <1>1, <1>2, IdleFit
<1>8. ~w.here => o = Gone
  <2>1. Gone.target = NoOne
    BY DEF Gone, Fresh
  <2> QED BY <1>2, <2>1
<1> HIDE DEF o
<1>9. CASE p \notin revived
  <2>1. r = o
    BY <1>3, <1>9
  <2> QED BY <1>2, <1>6, <1>7, <1>8, <1>9, <2>1 DEF revived, at
<1>10. CASE p \in revived
  <2>1. o.respawn = Never /\ o.exploding = 0 /\ o.transit = 0 /\ o.target = NoOne
    BY <1>4, <1>7, <1>10 DEF Fit
  <2>2. o \in Actors /\ r = [o EXCEPT !.downed = Never, !.hp = TRUE, !.blink = TRUE, !.age = 0]
    BY <1>3, <1>7, <1>10 DEF Fit
  <2>3. r \in Actors
    BY <2>2, Ranges DEF Actors
  <2>4. /\ r.here = o.here /\ r.owned = o.owned /\ r.transit = o.transit
        /\ r.downed = Never /\ r.hp /\ r.age = 0 /\ r.respawn = Never /\ r.exploding = 0
    BY <2>1, <2>2 DEF Actors
  <2>5. Fit(r, Ticks)
    BY <1>2, <1>4, <1>7, <1>10, <2>3, <2>4, LifeNumbers DEF Fit, WaitsInTime
  <2>6. /\ r.here /\ r.owned = ship[p].owned /\ r.transit = ship[p].transit
        /\ r.here = ship[p].here /\ r.downed # 0
    BY <1>2, <1>4, <1>7, <1>10, <2>4, LifeNumbers
  <2>7. p \in Completes(AfterWindows, moved) /\ p \notin Over
    BY <1>5, <1>10 DEF revived, at
  <2> QED BY <2>4, <2>5, <2>6, <2>7
<1> QED BY <1>9, <1>10

\* Who is revived had a window, and one who has stayed with it to its end.
LEMMA RevivedByCrew ==
  ASSUME LifeInv, NEW t \in Pilots, NEW moved, t \in Completes(AfterWindows, moved)
  PROVE  /\ ship[t].here /\ ship[t].downed > 0
         /\ \E q \in Pilots : /\ ship[q].target = t /\ ship[q].left = 0
                              /\ ship[q].hp /\ ship[q].owned
                              /\ ship[q].transit = 0 /\ ~ship[q].hold
<1> DEFINE at == AfterWindows
<1>1. PICK q \in Pilots : at[q].here /\ at[q].target = t /\ at[q].left = 0
                          /\ Continues(at[q], at[t], TRUE)
  BY DEF Completes
<1>2. at[q] = ship[q]
  BY <1>1, WindowEnds DEF Continues
<1>3. at[t] = ship[t] /\ at[t].here /\ at[t].downed # Never /\ at[t].downed # 0
  BY <1>1, WindowEnds DEF Continues
<1>4. ship[t].downed \in Never .. DownedTicks
  <2>1. ship[t] \in Actors
    BY Before DEF LifeFine, Fit
  <2> QED BY <2>1, Fields
<1> HIDE DEF at
<1>5. ship[t].downed > 0
  BY <1>3, <1>4, LifeNumbers
<1> QED BY <1>1, <1>2, <1>3, <1>5 DEF Continues

\* How long a connected pilot that waits has been silent.
LEMMA WaitingIsHeard ==
  ASSUME LifeInv, NEW p \in Pilots, ship[p].here, ~Flying(ship[p]), ship[p].downed # 0
  PROVE  ship[p].age <= DownedTicks
<1>1. Fit(ship[p], Ticks) /\ Ticks \in {0, 1}
  BY Before DEF LifeFine
<1>2. /\ ship[p].age \in Nat /\ ship[p].downed \in Never .. DownedTicks
      /\ ship[p].respawn \in Never .. DyingFrames /\ ship[p].exploding \in 0 .. DyingFrames
  BY <1>1, Fields DEF Fit
<1>3. ship[p].downed # Never \/ ship[p].respawn # Never
  BY <1>1, <1>2 DEF Fit, WaitsInTime, Flying
<1> QED BY <1>1, <1>2, <1>3, LifeNumbers DEF Fit, WaitsInTime

\* A frame: windows that are over end in death, rescues that are complete end theirs,
\* and of those who wait only the disconnected go.
LEMMA FrameStep ==
  ASSUME LifeInv, NEW moved, NEW faded, Frame(moved, faded)
  PROVE  LifeStep
<1> DEFINE at == AfterWindows
           rescued == AfterRescues(at, moved)
           revived == Completes(at, moved)
           stale == Stale(rescued)
           aged(p) == IF rescued[p].here THEN Aged(rescued[p]) ELSE rescued[p]
           removed == stale \cup {p \in Pilots : Expired(aged(p))}
           flown(p) == [aged(p) EXCEPT !.blink = @ /\ p \notin faded]
<1>1. Shapes /\ \A q \in Pilots : LifeFine(q)
  BY PilotByPilot
<1>2. Ticks \in {0, 1}
  BY DEF Ticks
<1>3. /\ ship' = [p \in Pilots |-> IF p \in removed THEN Gone ELSE Travelled(flown(p), p)]
      /\ coop' = WithoutWindow(Over \cup revived)
      /\ unsaved' = unsaved \cup Over \cup revived
      /\ saved' = [p \in Pilots |->
            IF saved[p] = "unknown" THEN saved[p]
            ELSE IF p \in removed \ stale THEN Health(aged(p))
            ELSE IF p \in stale \cup Over \cup revived THEN Health(rescued[p])
            ELSE saved[p]]
      /\ ticked' = FALSE /\ db' = db
      /\ journeys' = {p \in journeys : ship'[p].transit > 0}
  BY DEF Frame, Closed
<1>4. Shapes' /\ Ticks' = 0
  <2>1. Over \subseteq Pilots /\ revived \subseteq Pilots
    BY DEF Over, Completes
  <2> QED BY <1>1, <1>3, <2>1 DEF Shapes, Ticks, WithoutWindow
<1>5. \A p \in Pilots : LifeFine(p)' /\ EndsWell(p) /\ Stays(p)
  <2> TAKE p \in Pilots
  <2> DEFINE s == ship[p]
             r == rescued[p]
             a == aged(p)
  <2>1. LifeFine(p)
    BY <1>1
  <2>2. /\ Fit(r, Ticks) /\ r.here = s.here /\ r.owned = s.owned /\ r.transit = s.transit
        /\ p \in Over \cup revived => r.here /\ r.downed = Never /\ r.age = 0
        /\ p \in Over => ~r.hp /\ r.respawn = DyingFrames
        /\ p \notin Over \cup revived => r.downed = s.downed /\ r.age = s.age
        /\ r.here => r.downed # 0
        /\ ~r.here => r = Gone
    BY RescueEnds
  <2>3. /\ Fit(a, 0) /\ a.here = s.here /\ a.downed = r.downed /\ a.transit = s.transit
        /\ a.owned = s.owned
        /\ a.downed # Never => ~a.hp
        /\ p \in Over => ~a.hp /\ a.respawn # Never
        /\ ~a.here => a = Gone
    <3>1. CASE r.here
      <4>1. a = Aged(r)
        BY <3>1
      <4> HIDE DEF a, r
      <4> QED BY <1>2, <2>2, <3>1, <4>1, AgedFit
    <3>2. CASE ~r.here
      <4>1. a = Gone
        BY <2>2, <3>2
      <4>2. p \notin Over
        BY <2>2, <3>2
      <4> HIDE DEF a, r
      <4> QED BY <2>2, <3>2, <4>1, <4>2, FreshFit
    <3> QED BY <3>1, <3>2
  <2>4. /\ p \in stale <=> r.here /\ r.age > DownedTicks
        /\ p \in removed <=> p \in stale \/ Expired(a)
    BY DEF Stale
  <2> DEFINE f == flown(p)
             t == Travelled(f, p)
  <2>5. /\ ship'[p] = IF p \in removed THEN Gone ELSE t
        /\ coop'[p] = IF p \in Over \cup revived THEN Never ELSE coop[p]
        /\ saved'[p] = IF saved[p] = "unknown" THEN saved[p]
                       ELSE IF p \in removed \ stale THEN Health(a)
                       ELSE IF p \in stale \cup Over \cup revived THEN Health(r)
                       ELSE saved[p]
        /\ p \in journeys' <=> p \in journeys /\ ship'[p].transit > 0
        /\ p \in unsaved' <=> p \in unsaved \cup Over \cup revived
    BY <1>3 DEF WithoutWindow
  <2>6. p \in revived => /\ coop[p] > 0
                         /\ \E q \in Pilots : /\ ship[q].target = p /\ ship[q].left = 0
                                              /\ ship[q].hp /\ ship[q].owned
                                              /\ ship[q].transit = 0 /\ ~ship[q].hold
    BY <2>1, RevivedByCrew DEF LifeFine
  <2>7. p \in removed => a.here
    BY <2>2, <2>3, <2>4 DEF Expired
  <2>8. a.transit = s.transit /\ a.downed = r.downed
    BY <2>3
  <2>9. s.downed = 0 /\ s.here => p \in Over
    BY DEF Over
  <2>10. p \in Over => s.here /\ s.downed = 0
    BY DEF Over
  <2> HIDE DEF at, rescued, revived, stale, removed, aged
  <2>11. /\ Fit(t, 0) /\ t.here = a.here /\ t.downed = a.downed /\ t.respawn = a.respawn
         /\ t.transit > 0 => a.transit > 0
         /\ ~t.here => t = Gone
    <3>1. CASE a.here
      <4>1. a \in Actors /\ f = [a EXCEPT !.blink = a.blink /\ p \notin faded]
        BY <2>3 DEF Fit
      <4>2. (a.blink /\ p \notin faded) \in BOOLEAN
        BY <4>1, Fields
      <4>3. f \in Actors
        BY <4>1, <4>2 DEF Actors
      <4>4. /\ f.hp = a.hp /\ f.downed = a.downed /\ f.exploding = a.exploding
            /\ f.respawn = a.respawn /\ f.age = a.age /\ f.here /\ f.owned = a.owned
            /\ f.transit = a.transit /\ f.target = a.target
        BY <3>1, <4>1 DEF Actors
      <4> HIDE DEF a, f
      <4>5. Fit(f, 0)
        BY <2>3, <4>3, <4>4, SameLifeFit DEF Fit
      <4> QED BY <3>1, <4>4, <4>5, TravelledFit
    <3>2. CASE ~a.here
      <4>1. a = Gone
        BY <2>3, <3>2
      <4>2. f = Gone
        BY <4>1 DEF Gone, Fresh
      <4> HIDE DEF f, a
      <4>3. t = Gone
        BY <4>2, FreshFit DEF Travelled
      <4> QED BY <3>2, <4>1, <4>3, FreshFit
    <3> QED BY <3>1, <3>2
  <2> HIDE DEF f, t, a, r
  <2>12. Stays(p)
    <3>1. SUFFICES ASSUME s.here, s.owned, ~Flying(s) PROVE ship'[p].here
      BY DEF Stays
    <3>2. ~Expired(a)
      BY <2>3, <3>1 DEF Expired
    <3>3. r.age <= DownedTicks
      BY <2>2, <2>9, <3>1, WaitingIsHeard, LifeNumbers
    <3>4. r.age \in Nat
      BY <2>2, Fields DEF Fit
    <3>5. ~(r.age > DownedTicks)
      BY <3>3, <3>4, LifeNumbers
    <3>6. p \notin removed
      BY <2>4, <3>2, <3>5
    <3> QED BY <2>3, <2>5, <2>11, <3>1, <3>6
  <2>13. EndsWell(p)
    <3>1. SUFFICES ASSUME coop[p] # Never, coop'[p] = Never, p \notin revived
                   PROVE  \/ ship'[p].respawn # Never
                          \/ ~ship'[p].here /\ saved'[p] = "dead"
      BY <2>6 DEF EndsWell
    <3>2. p \in Over
      BY <2>5, <3>1
    <3>3. saved[p] # "unknown"
      BY <2>1, <2>10, <3>2 DEF LifeFine
    <3>4. CASE p \in removed
      <4>1. saved'[p] = "dead"
        BY <2>2, <2>3, <2>5, <3>2, <3>3, <3>4, HealthIsKnown
      <4> QED BY <2>5, <3>4, <4>1, FreshFit
    <3>5. CASE p \notin removed
      <4>1. ship'[p] = t
        BY <2>5, <3>5
      <4>2. a.respawn # Never /\ t.respawn = a.respawn
        BY <2>3, <2>11, <3>2
      <4> QED BY <4>1, <4>2
    <3> QED BY <3>4, <3>5
  <2>14. LifeFine(p)'
    <3>1. Fit(ship'[p], 0) /\ (ship'[p].transit > 0 => s.transit > 0)
          /\ (~ship'[p].here => ship'[p] = Gone)
      BY <2>3, <2>5, <2>11, FreshFit, LifeNumbers
    <3>2. saved'[p] \in Hulls /\ coop'[p] \in Never .. DownedTicks
      BY <2>1, <2>5, HealthIsKnown, Ranges DEF LifeFine
    <3>3. s.here => saved'[p] # "unknown" /\ (coop'[p] = r.downed)
      BY <2>1, <2>2, <2>5, HealthIsKnown DEF LifeFine
    <3>4. ship'[p].here => s.here /\ ship'[p].downed = r.downed
      BY <2>3, <2>5, <2>11, FreshFit
    <3>5. ~ship'[p].here /\ coop'[p] # Never => saved'[p] = "dead"
      <4>1. SUFFICES ASSUME ~ship'[p].here, coop'[p] # Never PROVE saved'[p] = "dead"
        OBVIOUS
      <4>2. p \notin Over \cup revived /\ coop'[p] = coop[p]
        BY <2>5, <4>1
      <4>3. CASE p \in removed
        <5>1. s.here /\ saved[p] # "unknown" /\ r.downed # Never
          BY <2>1, <2>2, <2>3, <2>7, <3>3, <4>1, <4>3 DEF LifeFine
        <5>2. ~a.hp /\ ~r.hp
          BY <2>2, <2>3, <5>1 DEF Fit
        <5> QED BY <2>5, <4>3, <5>1, <5>2, HealthIsKnown
      <4>4. CASE p \notin removed
        <5>1. ~s.here /\ p \notin stale
          BY <2>2, <2>3, <2>4, <2>5, <2>11, <4>1, <4>4
        <5> QED BY <2>1, <2>5, <4>1, <4>2, <4>4, <5>1 DEF LifeFine
      <4> QED BY <4>3, <4>4
    <3>6. p \notin unsaved' => coop'[p] = db'.coop[p]
      BY <1>3, <2>1, <2>5 DEF LifeFine
    <3>7. p \in journeys' <=> ship'[p].transit > 0
      BY <2>1, <2>5, <3>1 DEF LifeFine
    <3> QED BY <1>3, <1>4, <2>1, <3>1, <3>2, <3>3, <3>4, <3>5, <3>6, <3>7 DEF LifeFine
  <2> QED BY <2>12, <2>13, <2>14
<1>6. LifeInv'
  BY <1>4, <1>5, PilotByPilotAfter
<1> QED BY <1>5, <1>6 DEF LifeStep

-----------------------------------------------------------------------------
(* The theorems.                                                           *)

\* The process starts on an empty database, with nobody in the world.
LEMMA InitLife == Init => LifeInv
<1> SUFFICES ASSUME Init PROVE LifeInv
  OBVIOUS
<1>1. Shapes /\ Ticks \in {0, 1}
  BY DEF Init, Shapes, Ticks
<1>2. \A p \in Pilots : LifeFine(p)
  BY <1>1, FreshFit, Ranges DEF Init, LifeFine, Hulls
<1> QED BY <1>1, <1>2, PilotByPilot

\* A step that changes nothing.
LEMMA StillLife ==
  ASSUME LifeInv, UNCHANGED vars
  PROVE  LifeStep
<1>1. LifeInv'
  <2>1. Shapes /\ \A p \in Pilots : LifeFine(p)
    BY PilotByPilot
  <2>2. Shapes' /\ Ticks' = Ticks
    BY <2>1 DEF vars, Shapes, Ticks
  <2>3. \A p \in Pilots : LifeFine(p)'
    BY <2>1, <2>2 DEF vars, LifeFine
  <2> QED BY <2>2, <2>3, PilotByPilotAfter
<1> QED BY <1>1 DEF LifeStep, EndsWell, Stays, vars

\* Every step keeps the records of a life together.
LEMMA NextLife == LifeInv /\ [Next]_vars => LifeStep
<1> SUFFICES ASSUME LifeInv, [Next]_vars PROVE LifeStep
  OBVIOUS
<1>1. ASSUME NEW p \in Pilots, NEW lethal \in BOOLEAN, Hit(p, lethal) PROVE LifeStep
  BY <1>1, HitStep
<1>2. ASSUME NEW p \in Pilots,
             \/ \E t \in Pilots : StartRescue(p, t)
             \/ EndRescue(p) \/ Act(p) \/ Travel(p)
             \/ \E held \in BOOLEAN : SetOverlayHold(p, held)
      PROVE  LifeStep
  BY <1>2, QuietSteps
<1>3. ASSUME NEW p \in Pilots, GiveUp(p) PROVE LifeStep
  BY <1>3, GiveUpStep
<1>4. ASSUME NEW p \in Pilots, Leave(p) PROVE LifeStep
  BY <1>4, LeaveStep
<1>5. ASSUME NEW p \in Pilots, TransportClosed(p) PROVE LifeStep
  BY <1>5, TransportClosedStep
<1>6. ASSUME NEW p \in Pilots, Join(p) PROVE LifeStep
  BY <1>6, JoinStep
<1>7. ASSUME NEW p \in Pilots, NEW refit \in BOOLEAN, Resume(p, refit) PROVE LifeStep
  BY <1>7, ResumeStep
<1>8. ASSUME NEW p \in Pilots, NEW blink \in BOOLEAN, Restore(p, blink) PROVE LifeStep
  BY <1>8, RestoreStep
<1>9. CASE AnyFrame
  BY <1>9, FrameStep DEF AnyFrame
<1>10. CASE Elapse
  BY <1>10, ElapseStep
<1>11. CASE Flush
  BY <1>11, FlushStep
<1>12. CASE Crash
  BY <1>12, CrashStep
<1>13. CASE UNCHANGED vars
  BY <1>13, StillLife
<1> QED BY <1>1, <1>2, <1>3, <1>4, <1>5, <1>6, <1>7, <1>8, <1>9, <1>10, <1>11, <1>12, <1>13
     DEF Next

\* In every reachable state each hull is sound and what is recorded of it agrees, for
\* every number of pilots and every length of the windows (GameEngine, EntityManager).
THEOREM LivesAreSound == Spec => []LifeInv
<1>1. LifeInv /\ [Next]_vars => LifeInv'
  BY NextLife DEF LifeStep
<1> QED BY <1>1, InitLife, PTL DEF Spec

\* A hull lies in a window exactly when the campaign has that window, with the same
\* deadline, and the database lacks only records not yet written.
THEOREM LivesAgree == Spec => []LifeRecordsAgree
<1>1. LifeInv => LifeRecordsAgree
  BY DEF LifeInv
<1> QED BY <1>1, LivesAreSound, PTL

\* A window ends by death, or by a crew member who stayed to its end.
THEOREM WindowsEndWell == Spec => WindowsEndByRescueOrDeath
<1>1. LifeInv /\ [Next]_vars => [\A p \in Pilots : EndsWell(p)]_vars
  BY NextLife DEF LifeStep
<1>2. [\A p \in Pilots : EndsWell(p)]_vars
        => [\A p \in Pilots :
              coop[p] # Never /\ coop'[p] = Never
                => \/ ship'[p].respawn # Never
                   \/ ~ship'[p].here /\ saved'[p] = "dead"
                   \/ coop[p] > 0 /\ \E q \in Pilots : /\ ship[q].target = p /\ ship[q].left = 0
                                                       /\ ship[q].hp /\ ship[q].owned
                                                       /\ ship[q].transit = 0 /\ ~ship[q].hold
                   \/ Crash]_vars
  BY DEF EndsWell
<1> QED BY <1>1, <1>2, LivesAreSound, PTL DEF Spec, WindowsEndByRescueOrDeath

\* Nobody who waits, connected, for a rescue or a respawn is removed as silent.
THEOREM TheWaitingStay == Spec => WaitingPilotsStay
<1>1. LifeInv /\ [Next]_vars => [\A p \in Pilots : Stays(p)]_vars
  BY NextLife DEF LifeStep
<1>2. [\A p \in Pilots : Stays(p)]_vars
        => [\A p \in Pilots :
              ship[p].here /\ ship[p].owned /\ ~Flying(ship[p]) /\ ~ship'[p].here
                => Leave(p) \/ Crash]_vars
  BY DEF Stays
<1> QED BY <1>1, <1>2, LivesAreSound, PTL DEF Spec, WaitingPilotsStay


-----------------------------------------------------------------------------
(* MOVEMENT. Sessions and messages.                                                  *)

LEMMA Kinds ==
  /\ Joined \notin Snapshots
  /\ \A s \in Sessions : /\ s.epoch \in Nat /\ s.place \in Nat /\ s.ack \in Nat
                         /\ s.sequence \in Int /\ s.lock \in Locks
  /\ \A c \in Reconciliations : /\ c.epoch \in Nat /\ c.place \in Nat /\ c.ack \in Nat
                                /\ c.next \in Nat /\ c.intent \in Nat /\ c.acked \in Nat
                                /\ c.carried \in Nat /\ c.lock \in Locks
  /\ \A m \in Updates : m.epoch \in Nat /\ m.place \in Nat /\ m.sequence \in Nat
  /\ \A m \in Snapshots : m.epoch \in Nat /\ m.place \in Nat /\ m.ack \in Nat /\ m.lock \in Locks
BY DEF Joined, Snapshots, Sessions, Reconciliations, Updates

\* A takeover of the ship.
LEMMA Takeovers ==
  ASSUME NEW s \in Sessions
  PROVE  /\ \A mode \in Modes :
              /\ NewEpoch(s, mode) \in Sessions /\ NewEpoch(s, mode).epoch = s.epoch + 1
              /\ NewEpoch(s, mode).place = s.place /\ NewEpoch(s, mode).ack = 0
         /\ Handoff(s) \in Sessions /\ Handoff(s).epoch = s.epoch + 1
         /\ Handoff(s).place = s.place /\ Handoff(s).ack = 0 /\ Handoff(s).owned = s.owned
<1>1. \A mode \in Modes : /\ NewEpoch(s, mode) \in Sessions
                          /\ NewEpoch(s, mode).epoch = s.epoch + 1
                          /\ NewEpoch(s, mode).place = s.place /\ NewEpoch(s, mode).ack = 0
                          /\ NewEpoch(s, mode).owned = s.owned
  <2> TAKE mode \in Modes
  <2>1. s.epoch + 1 \in Nat /\ 0 \in Nat /\ -1 \in Int
    BY Kinds
  <2> QED BY <2>1 DEF NewEpoch, Sessions
<1>2. "handoff" \in Modes /\ NoRail \in Locks /\ "none" \in Transits
  BY DEF Modes, Locks, Transits
<1> QED BY <1>1, <1>2 DEF Handoff, Sessions

\* A contact begins an epoch or changes nothing.
LEMMA Releases ==
  ASSUME NEW s \in Sessions
  PROVE  /\ ReleaseContourLock(s) \in Sessions /\ ReleaseContourLock(s).place = s.place
         /\ \/ ReleaseContourLock(s) = s
            \/ ReleaseContourLock(s).epoch = s.epoch + 1
BY Takeovers DEF ReleaseContourLock

\* So does what a socket that closes leaves behind, except that the lock goes.
LEMMA Unhitches ==
  ASSUME NEW s \in Sessions
  PROVE  /\ Unhitched(s) \in Sessions /\ Unhitched(s).place = s.place
         /\ \/ Unhitched(s) = [s EXCEPT !.lock = NoRail] /\ s.transit # "bridge"
            \/ Unhitched(s).epoch = s.epoch + 1 /\ Unhitched(s).ack = 0
<1>1. NoRail \in Locks
  BY DEF Locks
<1>2. \A t \in Sessions : [t EXCEPT !.lock = NoRail] \in Sessions
                          /\ [t EXCEPT !.lock = NoRail].place = t.place
                          /\ [t EXCEPT !.lock = NoRail].epoch = t.epoch
                          /\ [t EXCEPT !.lock = NoRail].ack = t.ack
  BY <1>1 DEF Sessions
<1> QED BY <1>2, Takeovers DEF Unhitched

LEMMA JourneysEnd ==
  ASSUME NEW s \in Sessions
  PROVE  /\ FinishFurnaceTravel(s) \in Sessions /\ FinishFurnaceTravel(s).place >= s.place
         /\ s.transit # "furnace" => FinishFurnaceTravel(s) = s
         /\ s.transit = "furnace" => /\ FinishFurnaceTravel(s).epoch = s.epoch + 1
                                     /\ FinishFurnaceTravel(s).ack = 0
<1>1. s.place \in Nat /\ "none" \in Transits
  BY Kinds DEF Transits
<1>2. CASE s.transit = "furnace"
  <2> DEFINE t == [s EXCEPT !.transit = "none", !.hold = FALSE, !.place = @ + 1]
  <2>1. t \in Sessions /\ t.place = s.place + 1 /\ t.epoch = s.epoch
    <3>1. s.place + 1 \in Nat /\ FALSE \in BOOLEAN
      BY <1>1
    <3> QED BY <1>1, <3>1 DEF Sessions
  <2>2. FinishFurnaceTravel(s) = Handoff(t)
    BY <1>2 DEF FinishFurnaceTravel
  <2> HIDE DEF t
  <2> QED BY <1>1, <1>2, <2>1, <2>2, Takeovers
<1>3. CASE s.transit # "furnace"
  BY <1>1, <1>3 DEF FinishFurnaceTravel
<1> QED BY <1>2, <1>3

\* What a message in flight is.
LEMMA Messages ==
  ASSUME MotionTypeOK
  PROVE  /\ server \in Sessions /\ client \in Reconciliations
         /\ Len(up) \in Nat /\ Len(down) \in Nat
         /\ \A i \in 1 .. Len(up) : up[i] \in Updates
         /\ \A i \in 1 .. Len(down) : down[i] # Joined => down[i] \in Snapshots
BY DEF MotionTypeOK

LEMMA InitInv == MotionInit => MotionInv
<1> SUFFICES ASSUME MotionInit PROVE MotionInv
  OBVIOUS
<1>1. MotionTypeOK
  BY DEF MotionInit, MotionTypeOK, Sessions, Reconciliations, Modes, Transits, Locks
<1>2. /\ Len(up) = 0 /\ Len(down) = 0 /\ down = <<>> /\ up = <<>> /\ ~HasShip
      /\ server.ack = 0 /\ client.acked = 0 /\ client.intent = 0 /\ client.carried = 0 /\ client.link = "down"
  BY DEF MotionInit, HasShip
<1> QED BY <1>1, <1>2 DEF MotionInv, PlacesFit, JoinComesFirst, UpdatesInOrder, SnapshotsAreTrue

-----------------------------------------------------------------------------
(* Steps of the server.                                                    *)

\* A takeover: nothing in flight is of the new epoch.
LEMMA TakeoverInv ==
  ASSUME MotionInv, server' \in Sessions, server'.epoch > server.epoch,
         server'.place >= server.place, server'.ack = 0,
         UNCHANGED <<client, down>>, up' \in Seq(Updates), up = <<>> => up' = <<>>,
         NEW k \in Nat, \A i \in 1 .. Len(up') : i + k \in 1 .. Len(up) /\ up'[i] = up[i + k]
  PROVE  MotionInv'
<1>1. /\ MotionTypeOK /\ server \in Sessions /\ client \in Reconciliations
      /\ Len(up) \in Nat /\ Len(down) \in Nat
      /\ \A i \in 1 .. Len(up) : up[i] \in Updates
      /\ \A i \in 1 .. Len(down) : down[i] # Joined => down[i] \in Snapshots
  BY Messages DEF MotionInv
<1>2. /\ MotionTypeOK' /\ Len(up') \in Nat /\ \A i \in 1 .. Len(up') : up'[i] \in Updates
  BY <1>1 DEF MotionTypeOK
<1>3. server'.epoch \in Nat /\ server'.place \in Nat /\ server.epoch \in Nat /\ server.place \in Nat
  BY <1>1, Kinds
<1> DEFINE FitsThen(e, q) == /\ e <= server'.epoch /\ q <= server'.place
                             /\ e = server'.epoch => q = server'.place
<1>4. \A e, q \in Nat : Fits(e, q) => FitsThen(e, q) /\ e # server'.epoch
  BY <1>3 DEF Fits
<1>5. PlacesFit'
  <2>1. \A i \in 1 .. Len(up') : FitsThen(up'[i].epoch, up'[i].place)
    BY <1>1, <1>4, Kinds DEF MotionInv, PlacesFit
  <2>2. \A i \in 1 .. Len(down) : down[i] # Joined => FitsThen(down[i].epoch, down[i].place)
    BY <1>1, <1>4, Kinds DEF MotionInv, PlacesFit
  <2>3. HasShip => FitsThen(client.epoch, client.place)
    BY <1>1, <1>4, Kinds DEF MotionInv, PlacesFit
  <2>4. client' = client /\ down' = down
    OBVIOUS
  <2> QED BY <2>1, <2>2, <2>3, <2>4 DEF PlacesFit, HasShip, Fits, FitsThen
<1>6. JoinComesFirst'
  BY DEF MotionInv, JoinComesFirst, HasShip
<1>7. UpdatesInOrder'
  <2>1. ASSUME NEW i \in 1 .. Len(up'), NEW j \in 1 .. Len(up'), i < j
        PROVE  \/ up'[i].epoch < up'[j].epoch
               \/ up'[i].epoch = up'[j].epoch /\ up'[i].sequence < up'[j].sequence
    <3>1. i + k \in 1 .. Len(up) /\ j + k \in 1 .. Len(up) /\ i + k < j + k
      BY <1>2, <2>1
    <3>2. up'[i] = up[i + k] /\ up'[j] = up[j + k]
      OBVIOUS
    <3> QED BY <3>1, <3>2 DEF MotionInv, UpdatesInOrder
  <2>2. HasShip => \A i \in 1 .. Len(up') :
          \/ up'[i].epoch < client.epoch
          \/ up'[i].epoch = client.epoch /\ up'[i].sequence < client.next
    BY DEF MotionInv, UpdatesInOrder
  <2> QED BY <2>1, <2>2 DEF UpdatesInOrder, HasShip
<1>8. SnapshotsAreTrue'
  <2>1. \A i \in 1 .. Len(down) : down[i] # Joined => down[i].epoch # server'.epoch
    BY <1>1, <1>4, Kinds DEF MotionInv, PlacesFit
  <2>2. HasShip => client.epoch # server'.epoch
    BY <1>1, <1>4, Kinds DEF MotionInv, PlacesFit
  <2> QED BY <2>1, <2>2 DEF MotionInv, SnapshotsAreTrue, HasShip
<1> QED BY <1>2, <1>5, <1>6, <1>7, <1>8 DEF MotionInv

\* A step within the epoch that neither accepts a pose nor, while the browser is
\* connected and heard, changes the lock.
LEMMA QuietInv ==
  ASSUME MotionInv, server' \in Sessions, server'.epoch = server.epoch,
         server'.place = server.place, server'.ack = server.ack,
         server'.owned => server.owned,
         server.ack > 0 => /\ server'.alive = server.alive /\ server'.transit = server.transit
                           /\ server'.sequence = server.sequence
                           /\ server'.owned => server'.lock = server.lock,
         UNCHANGED <<client, down>>, up' \in Seq(Updates), up = <<>> => up' = <<>>,
         NEW k \in Nat, \A i \in 1 .. Len(up') : i + k \in 1 .. Len(up) /\ up'[i] = up[i + k]
  PROVE  MotionInv'
<1>1. MotionTypeOK' /\ Len(up') \in Nat
  BY DEF MotionInv, MotionTypeOK
<1> DEFINE FitsThen(e, q) == /\ e <= server'.epoch /\ q <= server'.place
                             /\ e = server'.epoch => q = server'.place
<1>2. \A e, q : Fits(e, q) => FitsThen(e, q)
  BY DEF Fits
<1>3. PlacesFit'
  <2>1. \A i \in 1 .. Len(up') : FitsThen(up'[i].epoch, up'[i].place)
    BY <1>2 DEF MotionInv, PlacesFit
  <2>2. \A i \in 1 .. Len(down) : down[i] # Joined => FitsThen(down[i].epoch, down[i].place)
    BY <1>2 DEF MotionInv, PlacesFit
  <2>3. HasShip => FitsThen(client.epoch, client.place)
    BY <1>2 DEF MotionInv, PlacesFit
  <2>4. client' = client /\ down' = down
    OBVIOUS
  <2> QED BY <2>1, <2>2, <2>3, <2>4 DEF PlacesFit, HasShip, Fits, FitsThen
<1>4. JoinComesFirst'
  BY DEF MotionInv, JoinComesFirst, HasShip
<1>5. UpdatesInOrder'
  <2>1. ASSUME NEW i \in 1 .. Len(up'), NEW j \in 1 .. Len(up'), i < j
        PROVE  \/ up'[i].epoch < up'[j].epoch
               \/ up'[i].epoch = up'[j].epoch /\ up'[i].sequence < up'[j].sequence
    <3>1. i + k \in 1 .. Len(up) /\ j + k \in 1 .. Len(up) /\ i + k < j + k
      BY <1>1, <2>1
    <3>2. up'[i] = up[i + k] /\ up'[j] = up[j + k]
      OBVIOUS
    <3>3. \A a, b \in 1 .. Len(up) : a < b =>
            \/ up[a].epoch < up[b].epoch
            \/ up[a].epoch = up[b].epoch /\ up[a].sequence < up[b].sequence
      BY DEF MotionInv, UpdatesInOrder
    <3>4. \/ up[i + k].epoch < up[j + k].epoch
          \/ up[i + k].epoch = up[j + k].epoch /\ up[i + k].sequence < up[j + k].sequence
      <4> DEFINE a == i + k
                 b == j + k
      <4> HIDE DEF a, b
      <4>1. a \in 1 .. Len(up) /\ b \in 1 .. Len(up) /\ a < b
        BY <3>1 DEF a, b
      <4>2. up[a].epoch < up[b].epoch \/ (up[a].epoch = up[b].epoch /\ up[a].sequence < up[b].sequence)
        BY <3>3, <4>1
      <4> QED BY <4>2 DEF a, b
    <3> QED BY <3>2, <3>4
  <2>2. HasShip => \A i \in 1 .. Len(up') :
          \/ up'[i].epoch < client.epoch
          \/ up'[i].epoch = client.epoch /\ up'[i].sequence < client.next
    BY DEF MotionInv, UpdatesInOrder
  <2>3. server'.ack > 0 =>
          /\ server'.alive /\ server'.transit = "none" /\ server'.sequence = server'.ack
          /\ \A i \in 1 .. Len(up') : up'[i].epoch = server'.epoch /\ up'[i].sequence > server'.ack
          /\ HasShip => client.epoch = server'.epoch /\ client.next > server'.ack
    BY DEF MotionInv, UpdatesInOrder
  <2> QED BY <2>1, <2>2, <2>3 DEF UpdatesInOrder, HasShip
<1>6. SnapshotsAreTrue'
  BY DEF MotionInv, SnapshotsAreTrue, HasShip
<1> QED BY <1>1, <1>3, <1>4, <1>5, <1>6 DEF MotionInv

\* The updates that are left when none or one is taken, or the socket is gone.
LEMMA Remaining ==
  ASSUME MotionTypeOK
  PROVE  /\ \A i \in 1 .. Len(up) : i + 0 \in 1 .. Len(up) /\ up[i] = up[i + 0]
         /\ <<>> \in Seq(Updates) /\ Len(<<>>) = 0
         /\ up \in Seq(Updates) /\ 0 \in Nat /\ 1 \in Nat
         /\ up # <<>> => /\ Tail(up) \in Seq(Updates) /\ Head(up) = up[1] /\ Len(up) \in Nat \ {0}
                         /\ Len(Tail(up)) = Len(up) - 1
                         /\ \A i \in 1 .. Len(Tail(up)) :
                              i + 1 \in 1 .. Len(up) /\ Tail(up)[i] = up[i + 1]
BY DEF MotionTypeOK

LEMMA ServerTakeover ==
  ASSUME MotionInv, NEW s \in Sessions, s.epoch > server.epoch, s.place >= server.place,
         s.ack = 0, ServerStep(s)
  PROVE  MotionInv' /\ server'.place >= server.place
<1>1. server' = s /\ UNCHANGED <<client, down>> /\ up' = up
  BY DEF ServerStep
<1>2. /\ \A i \in 1 .. Len(up') : i + 0 \in 1 .. Len(up) /\ up'[i] = up[i + 0]
      /\ up' \in Seq(Updates) /\ 0 \in Nat
  BY <1>1, Remaining DEF MotionInv
<1> QED BY <1>1, <1>2, TakeoverInv

LEMMA ServerQuiet ==
  ASSUME MotionInv, NEW s \in Sessions, s.epoch = server.epoch, s.place = server.place,
         s.ack = server.ack, s.owned => server.owned,
         server.ack > 0 => /\ s.alive = server.alive /\ s.transit = server.transit
                           /\ s.sequence = server.sequence
                           /\ s.owned => s.lock = server.lock,
         ServerStep(s)
  PROVE  MotionInv' /\ server'.place >= server.place
<1>1. server' = s /\ UNCHANGED <<client, down>> /\ up' = up
  BY DEF ServerStep
<1>2. /\ \A i \in 1 .. Len(up') : i + 0 \in 1 .. Len(up) /\ up'[i] = up[i + 0]
      /\ up' \in Seq(Updates) /\ 0 \in Nat
  BY <1>1, Remaining DEF MotionInv
<1>3. server.place \in Nat
  BY Messages, Kinds DEF MotionInv
<1>4. /\ server' \in Sessions /\ server'.epoch = server.epoch /\ server'.place = server.place
      /\ server'.ack = server.ack /\ (server'.owned => server.owned)
      /\ UNCHANGED <<client, down>> /\ (up = <<>> => up' = <<>>)
      /\ server.ack > 0 => /\ server'.alive = server.alive
                           /\ server'.transit = server.transit
                           /\ server'.sequence = server.sequence
                           /\ server'.owned => server'.lock = server.lock
  BY <1>1
<1>5. MotionInv'
  BY <1>2, <1>4, QuietInv
<1>6. server'.place >= server.place
  BY <1>3, <1>4
<1> QED BY <1>5, <1>6

\* A death or a return to life begins an epoch.
LEMMA Lives ==
  ASSUME NEW s \in Sessions
  PROVE  /\ InvalidateLife(s) \in Sessions /\ InvalidateLife(s).epoch = s.epoch + 1
         /\ InvalidateLife(s).place = s.place /\ InvalidateLife(s).ack = 0
         /\ InvalidateLife(s).owned = s.owned
<1>1. [s EXCEPT !.wasAlive = s.alive] \in Sessions
  BY DEF Sessions
<1> QED BY <1>1, Takeovers DEF InvalidateLife, Sessions

LEMMA LivesInv ==
  ASSUME MotionInv, Die \/ Revive \/ Respawn \/ NoticeDeath
  PROVE  MotionInv' /\ server'.place >= server.place
<1>1. /\ server \in Sessions /\ server.epoch \in Nat /\ server.place \in Nat
      /\ NoRail \in Locks /\ TRUE \in BOOLEAN /\ FALSE \in BOOLEAN
  BY Messages, Kinds DEF MotionInv, Locks
<1>2. CASE Die
  <2> DEFINE r == ReleaseContourLock(server)
             s == [r EXCEPT !.alive = FALSE]
  <2>1. r \in Sessions /\ r.place = server.place /\ r.epoch >= server.epoch
    BY <1>1, Releases
  <2>2. s \in Sessions /\ s.place = r.place /\ s.epoch = r.epoch
    BY <2>1 DEF Sessions
  <2>3. ServerStep(InvalidateLife(s))
    BY <1>2 DEF Die
  <2> HIDE DEF r, s
  <2>4. r.epoch \in Nat
    BY <2>1, Kinds
  <2> QED BY <1>1, <2>1, <2>2, <2>3, <2>4, Lives, ServerTakeover
<1>3. CASE Revive
  <2> DEFINE s == [server EXCEPT !.alive = TRUE]
  <2>1. s \in Sessions /\ s.place = server.place /\ s.epoch = server.epoch
    BY <1>1 DEF Sessions
  <2>2. ServerStep(InvalidateLife(s))
    BY <1>3 DEF Revive
  <2> HIDE DEF s
  <2> QED BY <1>1, <2>1, <2>2, Lives, ServerTakeover
<1>4. CASE Respawn
  <2> DEFINE s == [server EXCEPT !.alive = TRUE, !.wasAlive = TRUE, !.place = @ + 1,
                                 !.lock = NoRail, !.hold = FALSE]
  <2>1. s \in Sessions /\ s.place = server.place + 1 /\ s.epoch = server.epoch
    <3>1. server.place + 1 \in Nat
      BY <1>1
    <3> QED BY <1>1, <3>1 DEF Sessions
  <2>2. ServerStep(Handoff(s))
    BY <1>4 DEF Respawn
  <2> HIDE DEF s
  <2> QED BY <1>1, <2>1, <2>2, Takeovers, ServerTakeover
<1>5. CASE NoticeDeath
  <2> DEFINE s == [server EXCEPT !.wasAlive = FALSE]
  <2>1. s \in Sessions /\ s.place = server.place /\ s.epoch = server.epoch
    BY <1>1 DEF Sessions
  <2>2. ServerStep(Handoff(s))
    BY <1>5 DEF NoticeDeath
  <2> HIDE DEF s
  <2> QED BY <1>1, <2>1, <2>2, Takeovers, ServerTakeover
<1> QED BY <1>2, <1>3, <1>4, <1>5

LEMMA JourneysInv ==
  ASSUME MotionInv, HandoffTimesOut \/ RescueStops \/ StartFurnaceTravel \/ EndFurnaceTravel
  PROVE  MotionInv' /\ server'.place >= server.place
<1>1. /\ server \in Sessions /\ server.epoch \in Nat /\ server.place \in Nat
      /\ NoRail \in Locks /\ TRUE \in BOOLEAN /\ FALSE \in BOOLEAN /\ "furnace" \in Transits
  BY Messages, Kinds DEF MotionInv, Locks, Transits
<1>2. CASE HandoffTimesOut
  <2>1. ServerStep(Handoff(server))
    BY <1>2 DEF HandoffTimesOut
  <2> QED BY <1>1, <2>1, Takeovers, ServerTakeover
<1>3. CASE RescueStops
  <2> DEFINE s == [server EXCEPT !.lock = NoRail]
  <2>1. s \in Sessions /\ s.place = server.place /\ s.epoch = server.epoch
    BY <1>1 DEF Sessions
  <2>2. ServerStep(InvalidateLife(s))
    BY <1>3 DEF RescueStops
  <2> HIDE DEF s
  <2> QED BY <1>1, <2>1, <2>2, Lives, ServerTakeover
<1>4. CASE StartFurnaceTravel
  <2> DEFINE s == [server EXCEPT !.transit = "furnace", !.hold = TRUE,
                                 !.lock = NoRail, !.place = @ + 1]
  <2>1. s \in Sessions /\ s.place = server.place + 1 /\ s.epoch = server.epoch
    <3>1. server.place + 1 \in Nat
      BY <1>1
    <3> QED BY <1>1, <3>1 DEF Sessions
  <2>2. ServerStep(Handoff(s))
    BY <1>4 DEF StartFurnaceTravel
  <2> HIDE DEF s
  <2> QED BY <1>1, <2>1, <2>2, Takeovers, ServerTakeover
<1>5. CASE EndFurnaceTravel
  <2>1. server.transit = "furnace" /\ ServerStep(FinishFurnaceTravel(server))
    BY <1>5 DEF EndFurnaceTravel
  <2> QED BY <1>1, <2>1, JourneysEnd, ServerTakeover
<1> QED BY <1>2, <1>3, <1>4, <1>5

LEMMA BridgesInv ==
  ASSUME MotionInv, CatchBridge \/ FinishContourBridge \/ DropBridge
  PROVE  MotionInv' /\ server'.place >= server.place
<1>1. /\ server \in Sessions /\ server.epoch \in Nat /\ server.place \in Nat
      /\ server.ack \in Nat
      /\ Rails \subseteq Locks /\ "none" \in Transits /\ "bridge" \in Transits
      /\ "free" \in Modes
  BY Messages, Kinds DEF MotionInv, Locks, Transits, Modes
<1>2. CASE CatchBridge
  <2> DEFINE h == Handoff(server)
             s == [h EXCEPT !.transit = "bridge"]
  <2>1. h \in Sessions /\ h.place = server.place /\ h.epoch = server.epoch + 1 /\ h.ack = 0
    BY <1>1, Takeovers
  <2>2. s \in Sessions /\ s.place = h.place /\ s.epoch = h.epoch /\ s.ack = h.ack
    BY <1>1, <2>1 DEF Sessions
  <2>3. ServerStep(s)
    BY <1>2 DEF CatchBridge
  <2> HIDE DEF h, s
  <2> QED BY <1>1, <2>1, <2>2, <2>3, ServerTakeover
<1>3. CASE FinishContourBridge
  <2>1. PICK rail \in Rails :
          ServerStep(NewEpoch([server EXCEPT !.transit = "none", !.place = @ + 1,
                                             !.lock = rail], "free"))
    BY <1>3 DEF FinishContourBridge
  <2> DEFINE s == [server EXCEPT !.transit = "none", !.place = @ + 1, !.lock = rail]
  <2>2. s \in Sessions /\ s.place = server.place + 1 /\ s.epoch = server.epoch
    <3>1. server.place + 1 \in Nat /\ rail \in Locks
      BY <1>1
    <3> QED BY <1>1, <3>1 DEF Sessions
  <2>3. ServerStep(NewEpoch(s, "free"))
    BY <2>1
  <2> HIDE DEF s
  <2> QED BY <1>1, <2>2, <2>3, Takeovers, ServerTakeover
<1>4. CASE DropBridge
  <2> DEFINE s == [server EXCEPT !.transit = "none"]
  <2>1. /\ s \in Sessions /\ s.place = server.place /\ s.epoch = server.epoch
        /\ s.ack = server.ack /\ s.owned = server.owned
    BY <1>1 DEF Sessions
  <2>2. ServerStep(s) /\ server.transit = "bridge"
    BY <1>4 DEF DropBridge
  <2>3. ~(server.ack > 0)
    BY <2>2 DEF MotionInv, UpdatesInOrder
  <2> HIDE DEF s
  <2> QED BY <2>1, <2>2, <2>3, ServerQuiet
<1> QED BY <1>2, <1>3, <1>4

LEMMA ContactsInv ==
  ASSUME MotionInv, Ram \/ Contact
  PROVE  MotionInv' /\ server'.place >= server.place
<1>1. /\ server \in Sessions /\ server.epoch \in Nat /\ server.place \in Nat
      /\ NoRail \in Locks /\ "free" \in Modes
  BY Messages, Kinds DEF MotionInv, Locks, Modes
<1>2. CASE Ram
  <2> DEFINE r == ReleaseContourLock(server)
             s == [[r EXCEPT !.place = @ + 1] EXCEPT !.lock = NoRail]
  <2>1. r \in Sessions /\ r.place = server.place /\ r.epoch >= server.epoch
    BY <1>1, Releases
  <2>2. s \in Sessions /\ s.place = r.place + 1 /\ s.epoch = r.epoch
    <3>1. r.place + 1 \in Nat
      BY <1>1, <2>1
    <3> HIDE DEF r
    <3> QED BY <1>1, <2>1, <3>1 DEF Sessions
  <2>3. ServerStep(NewEpoch(s, "free"))
    BY <1>2 DEF Ram
  <2> HIDE DEF r, s
  <2>4. r.epoch \in Nat
    BY <2>1, Kinds
  <2> QED BY <1>1, <2>1, <2>2, <2>3, <2>4, Takeovers, ServerTakeover
<1>3. CASE Contact
  <2>1. ServerStep(Handoff(server))
    BY <1>3 DEF Contact, ReleaseContourLock
  <2> QED BY <1>1, <2>1, Takeovers, ServerTakeover
<1> QED BY <1>2, <1>3

-----------------------------------------------------------------------------
(* The link.                                                               *)

LEMMA ClosesInv ==
  ASSUME MotionInv, SocketCloses
  PROVE  MotionInv' /\ server'.place >= server.place
<1> DEFINE f == FinishFurnaceTravel(server)
           u == Unhitched(f)
           s == [u EXCEPT !.owned = FALSE]
<1>1. /\ server \in Sessions /\ server.epoch \in Nat /\ server.place \in Nat /\ server.ack \in Nat
      /\ \A i \in 1 .. Len(<<>>) : i + 0 \in 1 .. Len(up) /\ <<>>[i] = up[i + 0]
      /\ <<>> \in Seq(Updates) /\ 0 \in Nat
  BY Messages, Kinds, Remaining DEF MotionInv
<1>2. server' = s /\ up' = <<>> /\ UNCHANGED <<client, down>> /\ server.owned
  BY DEF SocketCloses
<1>3. f \in Sessions /\ f.place >= server.place
  BY <1>1, JourneysEnd
<1>4. u \in Sessions /\ u.place = f.place
  BY <1>3, Unhitches
<1> HIDE DEF f, u
<1>5. /\ s \in Sessions /\ s.place = u.place /\ s.epoch = u.epoch /\ s.ack = u.ack
      /\ s.owned = FALSE /\ s.alive = u.alive /\ s.transit = u.transit
      /\ s.sequence = u.sequence
  BY <1>4 DEF Sessions
<1>6. f.epoch \in Nat /\ f.place \in Nat
  BY <1>3, Kinds
<1> HIDE DEF s
<1>7. CASE s.epoch > server.epoch /\ s.ack = 0
  BY <1>1, <1>2, <1>3, <1>4, <1>5, <1>6, <1>7, TakeoverInv
<1>8. CASE server.transit = "furnace"
  <2>1. f.epoch = server.epoch + 1 /\ f.ack = 0
    BY <1>1, <1>8, JourneysEnd DEF f
  <2>2. u.epoch >= f.epoch /\ u.ack = 0
    BY <1>3, <1>6, <2>1, Unhitches DEF u, Sessions
  <2>3. u.epoch \in Nat
    BY <1>4, Kinds
  <2>4. s.epoch > server.epoch /\ s.ack = 0
    BY <1>1, <1>5, <1>6, <2>1, <2>2, <2>3
  <2> QED BY <1>7, <2>4
<1>9. CASE server.transit # "furnace"
  <2>1. f = server
    BY <1>1, <1>9, JourneysEnd DEF f
  <2>2. CASE u.epoch = server.epoch + 1 /\ u.ack = 0
    BY <1>1, <1>5, <1>7, <2>2
  <2>3. CASE u = [server EXCEPT !.lock = NoRail]
    <3>1. /\ u.epoch = server.epoch /\ u.place = server.place /\ u.ack = server.ack
          /\ u.alive = server.alive /\ u.transit = server.transit
          /\ u.sequence = server.sequence
      BY <1>1, <2>3 DEF Sessions
    <3> QED BY <1>1, <1>2, <1>5, <3>1, QuietInv
  <2> QED BY <1>1, <2>1, <2>2, <2>3, Unhitches DEF u
<1> QED BY <1>8, <1>9

LEMMA GraceEndsInv ==
  ASSUME MotionInv, GraceEnds
  PROVE  MotionInv' /\ server'.place >= server.place
<1> DEFINE s == [server EXCEPT !.live = FALSE, !.lock = NoRail]
<1>1. server \in Sessions /\ NoRail \in Locks
  BY Messages DEF MotionInv, Locks
<1>2. /\ s \in Sessions /\ s.place = server.place /\ s.epoch = server.epoch
      /\ s.ack = server.ack /\ s.owned = server.owned /\ s.alive = server.alive
      /\ s.transit = server.transit /\ s.sequence = server.sequence
  BY <1>1 DEF Sessions
<1>3. ServerStep(s) /\ ~server.owned
  BY DEF GraceEnds
<1> HIDE DEF s
<1> QED BY <1>2, <1>3, ServerQuiet

\* A socket that joins leaves nothing in flight but the answer.
LEMMA JoinsInv ==
  ASSUME MotionInv, client.link = "joining", server' \in Sessions,
         server'.ack > 0 => /\ server'.alive /\ server'.transit = "none"
                            /\ server'.sequence = server'.ack,
         up' = <<>>, down' = <<Joined>>, UNCHANGED client
  PROVE  MotionInv'
<1>1. /\ Len(up') = 0 /\ up' \in Seq(Updates) /\ Len(down') = 1 /\ down'[1] = Joined
      /\ down' \in Seq(Snapshots \cup {Joined}) /\ down' # <<>>
      /\ \A i \in 1 .. Len(down') : i = 1
  OBVIOUS
<1>2. MotionTypeOK'
  BY <1>1 DEF MotionInv, MotionTypeOK
<1>3. ~HasShip'
  BY DEF HasShip
<1>4. PlacesFit' /\ JoinComesFirst' /\ UpdatesInOrder'
  BY <1>1, <1>3 DEF PlacesFit, JoinComesFirst, UpdatesInOrder
<1>5. SnapshotsAreTrue'
  <2>1. \A i \in 1 .. Len(down') : down'[i] = Joined
    BY <1>1
  <2> QED BY <1>3, <2>1 DEF MotionInv, SnapshotsAreTrue
<1> QED BY <1>2, <1>4, <1>5 DEF MotionInv

LEMMA ResumeInv ==
  ASSUME MotionInv, ResumeSession
  PROVE  MotionInv' /\ server'.place >= server.place
<1> DEFINE u == Unhitched(server)
           s == [u EXCEPT !.owned = TRUE, !.sequence = u.ack]
<1>1. server \in Sessions /\ server.place \in Nat
  BY Messages, Kinds DEF MotionInv
<1>2. /\ server' = s /\ up' = <<>> /\ down' = <<Joined>> /\ UNCHANGED client
      /\ client.link = "joining"
  BY DEF ResumeSession
<1>3. /\ u \in Sessions /\ u.place = server.place
      /\ u.ack > 0 => u = [server EXCEPT !.lock = NoRail]
  BY <1>1, Unhitches
<1> HIDE DEF u
<1>4. u.ack \in Nat /\ u.ack \in Int
  BY <1>3, Kinds
<1>5. /\ s \in Sessions /\ s.place = server.place /\ s.ack = u.ack /\ s.sequence = u.ack
      /\ s.alive = u.alive /\ s.transit = u.transit
  BY <1>3, <1>4 DEF Sessions
<1>6. u.ack > 0 => u.alive /\ u.transit = "none"
  <2>1. u.ack > 0 => u.ack = server.ack /\ u.alive = server.alive /\ u.transit = server.transit
    BY <1>1, <1>3 DEF Sessions
  <2> QED BY <2>1 DEF MotionInv, UpdatesInOrder
<1> HIDE DEF s
<1> QED BY <1>1, <1>2, <1>5, <1>6, JoinsInv

LEMMA RegisterInv ==
  ASSUME MotionInv, Register
  PROVE  MotionInv' /\ server'.place >= server.place
<1>1. server.place \in Nat /\ server.place + 1 \in Nat /\ NoRail \in Locks
  BY Messages, Kinds DEF MotionInv, Locks
<1>2. PICK alive \in BOOLEAN, downed \in BOOLEAN :
        LET s == [live |-> TRUE, owned |-> TRUE, epoch |-> 1, mode |-> "free", ack |-> 0,
                  sequence |-> -1, place |-> server.place + 1, lock |-> NoRail,
                  transit |-> "none", alive |-> alive, wasAlive |-> TRUE, hold |-> FALSE]
        IN  server' = IF downed THEN InvalidateLife(s) ELSE s
  BY DEF Register
<1> DEFINE s == [live |-> TRUE, owned |-> TRUE, epoch |-> 1, mode |-> "free", ack |-> 0,
                 sequence |-> -1, place |-> server.place + 1, lock |-> NoRail,
                 transit |-> "none", alive |-> alive, wasAlive |-> TRUE, hold |-> FALSE]
<1>3. s \in Sessions /\ s.ack = 0 /\ s.place = server.place + 1
  BY <1>1 DEF Sessions, Modes, Transits
<1>4. server' = IF downed THEN InvalidateLife(s) ELSE s
  BY <1>2
<1> HIDE DEF s
<1>5. server' \in Sessions /\ server'.ack = 0 /\ server'.place = server.place + 1
  BY <1>3, <1>4, Lives
<1>6. client.link = "joining" /\ up' = <<>> /\ down' = <<Joined>> /\ UNCHANGED client
  BY DEF Register
<1> QED BY <1>1, <1>5, <1>6, JoinsInv

\* What is appended to a queue, and what is taken from it.
LEMMA Queues ==
  ASSUME NEW S, NEW q \in Seq(S), NEW m \in S
  PROVE  /\ Append(q, m) \in Seq(S) /\ Len(q) \in Nat /\ Len(Append(q, m)) = Len(q) + 1
         /\ Append(q, m) # <<>>
         /\ \A i \in 1 .. Len(Append(q, m)) :
              \/ i \in 1 .. Len(q) /\ Append(q, m)[i] = q[i]
              \/ i = Len(q) + 1 /\ Append(q, m)[i] = m
         /\ q # <<>> => /\ Tail(q) \in Seq(S) /\ Head(q) = q[1] /\ Head(q) \in S
                        /\ Len(q) \in Nat \ {0} /\ Len(Tail(q)) = Len(q) - 1
                        /\ \A i \in 1 .. Len(Tail(q)) :
                             i + 1 \in 1 .. Len(q) /\ Tail(q)[i] = q[i + 1]
<1>1. /\ Append(q, m) \in Seq(S) /\ Len(q) \in Nat /\ Len(Append(q, m)) = Len(q) + 1
      /\ Append(q, m) # <<>>
  OBVIOUS
<1>2. \A i \in 1 .. Len(Append(q, m)) :
        \/ i \in 1 .. Len(q) /\ Append(q, m)[i] = q[i]
        \/ i = Len(q) + 1 /\ Append(q, m)[i] = m
  OBVIOUS
<1>3. q # <<>> => /\ Tail(q) \in Seq(S) /\ Head(q) = q[1] /\ Head(q) \in S
                  /\ Len(q) \in Nat \ {0} /\ Len(Tail(q)) = Len(q) - 1
  OBVIOUS
<1>4. q # <<>> => \A i \in 1 .. Len(Tail(q)) :
                    i + 1 \in 1 .. Len(q) /\ Tail(q)[i] = q[i + 1]
  OBVIOUS
<1> QED BY <1>1, <1>2, <1>3, <1>4

LEMMA BroadcastInv ==
  ASSUME MotionInv, Broadcast
  PROVE  MotionInv' /\ UNCHANGED server
<1>1. /\ down' = Append(down, View) /\ UNCHANGED <<server, client, up>>
      /\ client.link # "down" /\ (down # <<>> \/ client.link = "up")
  BY DEF Broadcast
<1>2. /\ server \in Sessions /\ server.epoch \in Nat /\ server.place \in Nat /\ server.ack \in Nat
      /\ down \in Seq(Snapshots \cup {Joined})
  BY Messages, Kinds DEF MotionInv, MotionTypeOK
<1>3. /\ View \in Snapshots /\ View # Joined /\ View.epoch = server.epoch
      /\ View.place = server.place /\ View.ack = server.ack /\ View.lock = server.lock
  BY <1>2, Kinds DEF View, Snapshots, Sessions
<1> HIDE DEF View
<1>4. /\ down' \in Seq(Snapshots \cup {Joined}) /\ down' # <<>>
      /\ Len(down) \in Nat /\ Len(down') = Len(down) + 1
      /\ \A i \in 1 .. Len(down') : \/ i \in 1 .. Len(down) /\ down'[i] = down[i]
                                    \/ i = Len(down) + 1 /\ down'[i] = View
  BY <1>1, <1>2, <1>3, Queues
<1>5. MotionTypeOK'
  BY <1>1, <1>4 DEF MotionInv, MotionTypeOK
<1>6. HasShip' = HasShip /\ \A e, q : Fits(e, q)' = Fits(e, q)
  BY <1>1 DEF HasShip, Fits
<1>7. PlacesFit'
  BY <1>1, <1>2, <1>3, <1>4 DEF MotionInv, PlacesFit, Fits, HasShip
<1>8. JoinComesFirst'
  <2>1. \A i \in 1 .. Len(down') : down'[i] = Joined <=> client.link = "joining" /\ i = 1
    <3>1. client.link = "joining" => Len(down) > 0
      BY <1>1, <1>2, <1>4
    <3> QED BY <1>3, <1>4, <3>1 DEF MotionInv, JoinComesFirst
  <2> QED BY <1>1, <1>4, <2>1 DEF MotionInv, JoinComesFirst, HasShip
<1>9. UpdatesInOrder'
  BY <1>1 DEF MotionInv, UpdatesInOrder, HasShip
<1>10. SnapshotsAreTrue'
  BY <1>1, <1>2, <1>3, <1>4 DEF MotionInv, SnapshotsAreTrue, HasShip
<1> QED BY <1>1, <1>5, <1>7, <1>8, <1>9, <1>10 DEF MotionInv

LEMMA LinksInv ==
  ASSUME MotionInv, LoseLink \/ Reconnect
  PROVE  MotionInv' /\ UNCHANGED server
<1>1. /\ client \in Reconciliations /\ client.intent \in Nat /\ client.acked \in Nat
      /\ client.carried \in Nat /\ NoRail \in Locks
  BY Messages, Kinds DEF MotionInv, Locks
<1>2. /\ UNCHANGED <<server, up>> /\ down' = <<>>
      /\ client' \in Reconciliations /\ client'.link \in {"down", "joining"}
      /\ client'.acked = client.acked /\ client'.carried = client.carried
      /\ client'.intent >= client.intent
  <2>1. CASE LoseLink
    <3>1. client.intent + 1 \in Nat
      BY <1>1
    <3>2. client' = [client EXCEPT !.link = "down", !.waiting = @ \/ client.known,
                                   !.lock = NoRail,
                                   !.intent = IF client.lock # NoRail THEN @ + 1 ELSE @]
          /\ UNCHANGED <<server, up>> /\ down' = <<>>
      BY <2>1 DEF LoseLink
    <3>3. client' \in Reconciliations
      BY <1>1, <3>1, <3>2 DEF Reconciliations
    <3> QED BY <1>1, <3>2, <3>3 DEF Reconciliations
  <2>2. CASE Reconnect
    <3>1. down' = <<>> /\ UNCHANGED <<server, up>>
      BY <2>2 DEF Reconnect, MotionInv, JoinComesFirst
    <3>2. client' = [client EXCEPT !.link = "joining", !.waiting = TRUE]
      BY <2>2 DEF Reconnect
    <3>3. client' \in Reconciliations
      BY <1>1, <3>2 DEF Reconciliations
    <3>4. /\ client'.link = "joining" /\ client'.acked = client.acked
          /\ client'.carried = client.carried /\ client'.intent = client.intent
      BY <1>1, <3>2 DEF Reconciliations
    <3> QED BY <1>1, <3>1, <3>3, <3>4
  <2> QED BY <2>1, <2>2
<1>3. ~HasShip' /\ Len(down') = 0 /\ down' \in Seq(Snapshots \cup {Joined})
  BY <1>2 DEF HasShip
<1>4. MotionTypeOK'
  BY <1>2, <1>3 DEF MotionInv, MotionTypeOK
<1>5. client'.intent \in Nat
  BY <1>2, Kinds
<1>6. PlacesFit' /\ JoinComesFirst'
  BY <1>2, <1>3 DEF MotionInv, PlacesFit, JoinComesFirst, Fits
<1>7. UpdatesInOrder'
  BY <1>2, <1>3 DEF MotionInv, UpdatesInOrder
<1>8. SnapshotsAreTrue'
  BY <1>1, <1>2, <1>3, <1>5 DEF MotionInv, SnapshotsAreTrue
<1> QED BY <1>2, <1>4, <1>6, <1>7, <1>8 DEF MotionInv

-----------------------------------------------------------------------------
(* The browser.                                                            *)

LEMMA ReadJoinedInv ==
  ASSUME MotionInv, ReadJoined
  PROVE  MotionInv' /\ UNCHANGED server
<1>1. /\ client \in Reconciliations /\ client.intent \in Nat /\ client.carried \in Nat
      /\ down \in Seq(Snapshots \cup {Joined})
  BY Messages, Kinds DEF MotionInv, MotionTypeOK
<1>2. /\ client.link = "joining" /\ down # <<>> /\ down' = Tail(down)
      /\ UNCHANGED <<server, up>>
      /\ client' = [client EXCEPT !.link = "up", !.known = FALSE, !.waiting = TRUE,
                                  !.next = 0, !.alive = FALSE, !.acked = 0, !.pending = FALSE]
  BY DEF ReadJoined
<1>3. client' \in Reconciliations
  BY <1>1, <1>2 DEF Reconciliations
<1>4. /\ client'.link = "up" /\ client'.known = FALSE /\ client'.acked = 0
      /\ client'.intent = client.intent /\ client'.carried = client.carried
  BY <1>1, <1>2 DEF Reconciliations
<1>5. /\ down' \in Seq(Snapshots \cup {Joined}) /\ Len(down) \in Nat \ {0}
      /\ Len(down') = Len(down) - 1
      /\ \A i \in 1 .. Len(down') : i + 1 \in 1 .. Len(down) /\ down'[i] = down[i + 1]
  BY <1>1, <1>2, Queues
<1>6. ~HasShip /\ ~HasShip'
  BY <1>2, <1>4 DEF HasShip
<1>7. MotionTypeOK'
  BY <1>2, <1>3, <1>5 DEF MotionInv, MotionTypeOK
<1>8. PlacesFit'
  BY <1>2, <1>5, <1>6 DEF MotionInv, PlacesFit, Fits
<1>9. JoinComesFirst'
  <2>1. \A i \in 1 .. Len(down') : down'[i] # Joined
    BY <1>5 DEF MotionInv, JoinComesFirst
  <2> QED BY <1>2, <1>4, <1>6, <2>1 DEF MotionInv, JoinComesFirst
<1>10. UpdatesInOrder'
  BY <1>2, <1>6 DEF MotionInv, UpdatesInOrder
<1>11. SnapshotsAreTrue'
  BY <1>1, <1>2, <1>4, <1>5, <1>6 DEF MotionInv, SnapshotsAreTrue
<1> QED BY <1>2, <1>7, <1>8, <1>9, <1>10, <1>11 DEF MotionInv

\* What a snapshot makes of the browser's state: the lock is adopted unless the pilot
\* has changed it since.
LEMMA Locking ==
  ASSUME NEW c \in Reconciliations, NEW m \in Snapshots,
         c.acked <= c.intent, c.carried <= c.intent
  PROVE  LET r == ReconcileContourLock(c, m) IN
         /\ r \in Reconciliations /\ r.acked <= r.intent /\ r.carried <= r.intent
         /\ r.acked = r.intent => r.lock = m.lock
         /\ r.link = c.link /\ r.next = c.next /\ r.place = c.place
<1>1. /\ c.intent \in Nat /\ c.intent + 1 \in Nat /\ c.acked \in Nat /\ c.carried \in Nat
      /\ m.lock \in Locks /\ NoRail \in Locks /\ m.alive \in BOOLEAN /\ c.hold \in BOOLEAN
  BY Kinds DEF Locks, Snapshots, Reconciliations
<1> DEFINE r == ReconcileContourLock(c, m)
<1>2. CASE Corrects(c, m)
  <2> DEFINE lock == IF c.hold \/ ~m.alive THEN NoRail ELSE m.lock
             intent == IF m.lock # NoRail /\ (c.hold \/ ~m.alive) THEN c.intent + 1 ELSE c.intent
  <2>1. r = [c EXCEPT !.lock = lock, !.acked = c.intent, !.pending = FALSE, !.intent = intent]
    BY <1>2 DEF ReconcileContourLock
  <2>2. lock \in Locks /\ intent \in Nat /\ intent >= c.intent
        /\ (c.intent = intent => lock = m.lock)
    BY <1>1
  <2> HIDE DEF lock, intent, r
  <2>3. /\ r \in Reconciliations /\ r.lock = lock /\ r.acked = c.intent /\ r.intent = intent
        /\ r.carried = c.carried /\ r.link = c.link /\ r.next = c.next /\ r.place = c.place
    BY <1>1, <2>1, <2>2 DEF Reconciliations
  <2> QED BY <1>1, <2>2, <2>3 DEF r
<1>3. CASE ~Corrects(c, m)
  <2> DEFINE acked == IF Acknowledged(c, m) THEN c.carried ELSE c.acked
             lock == IF c.intent = acked THEN m.lock ELSE c.lock
  <2>1. PICK pending \in BOOLEAN : pending = (c.pending /\ ~Acknowledged(c, m))
    OBVIOUS
  <2>2. r = [c EXCEPT !.acked = acked, !.pending = pending, !.lock = lock]
    BY <1>3, <2>1 DEF ReconcileContourLock, Reconciliations
  <2>3. acked \in Nat /\ acked <= c.intent /\ lock \in Locks /\ (c.intent = acked => lock = m.lock)
    BY <1>1, Kinds
  <2> HIDE DEF lock, acked, r
  <2>4. /\ r \in Reconciliations /\ r.lock = lock /\ r.acked = acked /\ r.intent = c.intent
        /\ r.carried = c.carried /\ r.link = c.link /\ r.next = c.next /\ r.place = c.place
    BY <2>2, <2>3 DEF Reconciliations
  <2> QED BY <1>1, <2>3, <2>4 DEF r
<1> QED BY <1>2, <1>3

LEMMA Rebasing ==
  ASSUME NEW c \in Reconciliations, NEW m \in Snapshots,
         c.acked <= c.intent, c.carried <= c.intent
  PROVE  LET r == Rebase(c, m) IN
         /\ r \in Reconciliations /\ r.acked <= r.intent /\ r.carried <= r.intent
         /\ r.acked = r.intent => r.lock = m.lock
         /\ r.link = c.link /\ r.known /\ ~r.waiting /\ r.epoch = m.epoch /\ r.ack = m.ack
         /\ r.next > m.ack
         /\ c.known /\ ~c.waiting /\ m.epoch = c.epoch => r.next >= c.next
         /\ r.place = m.place \/ (r.place = c.place /\ c.known /\ ~c.waiting /\ m.epoch = c.epoch)
<1> DEFINE k == ReconcileContourLock(c, m)
           r == Rebase(c, m)
<1>1. /\ k \in Reconciliations /\ k.acked <= k.intent /\ k.carried <= k.intent
      /\ k.acked = k.intent => k.lock = m.lock
      /\ k.link = c.link /\ k.next = c.next /\ k.place = c.place
  BY Locking
<1>2. /\ m.epoch \in Nat /\ m.ack \in Nat /\ m.ack + 1 \in Nat /\ m.place \in Nat
      /\ c.next \in Nat /\ m.mode \in Modes /\ m.alive \in BOOLEAN /\ c.place \in Nat
  BY Kinds DEF Snapshots
<1> DEFINE fresh == ~c.known \/ m.epoch # c.epoch \/ c.waiting
           next == IF fresh \/ c.next < m.ack + 1 THEN m.ack + 1 ELSE c.next
           place == IF Corrects(c, m) \/ m.mode # "free" \/ ~m.alive \/ m.transit = "furnace"
                    THEN m.place ELSE c.place
<1>3. PICK transit \in BOOLEAN : transit = (m.transit = "furnace")
  OBVIOUS
<1>4. r = [k EXCEPT !.known = TRUE, !.waiting = FALSE, !.epoch = m.epoch, !.mode = m.mode,
                    !.ack = m.ack, !.alive = m.alive, !.transit = transit,
                    !.next = next, !.place = place]
  BY <1>1, <1>3 DEF Rebase, Reconciliations
<1>5. /\ next \in Nat /\ next > m.ack
      /\ c.known /\ ~c.waiting /\ m.epoch = c.epoch => next >= c.next
  BY <1>2
<1>6. /\ place \in Nat
      /\ place = m.place \/ (place = c.place /\ c.known /\ ~c.waiting /\ m.epoch = c.epoch)
  BY <1>2 DEF Corrects
<1> HIDE DEF k, r, next, place, fresh
<1>7. r \in Reconciliations
  <2> DEFINE h == [k EXCEPT !.known = TRUE, !.waiting = FALSE, !.epoch = m.epoch,
                            !.mode = m.mode, !.ack = m.ack]
  <2>1. h \in Reconciliations
    BY <1>1, <1>2 DEF Reconciliations
  <2>2. r = [h EXCEPT !.alive = m.alive, !.transit = transit, !.next = next, !.place = place]
    BY <1>1, <1>4 DEF Reconciliations
  <2> HIDE DEF h
  <2>3. m.alive \in BOOLEAN /\ transit \in BOOLEAN /\ next \in Nat /\ place \in Nat
    BY <1>2, <1>3, <1>5, <1>6
  <2> QED BY <2>1, <2>2, <2>3 DEF Reconciliations
<1>8. /\ r.acked = k.acked /\ r.intent = k.intent /\ r.lock = k.lock /\ r.carried = k.carried
      /\ r.link = k.link /\ r.known = TRUE /\ r.waiting = FALSE /\ r.epoch = m.epoch
      /\ r.ack = m.ack /\ r.next = next /\ r.place = place
  BY <1>1, <1>4 DEF Reconciliations
<1> QED BY <1>1, <1>5, <1>6, <1>7, <1>8 DEF r

LEMMA ReadSnapshotInv ==
  ASSUME MotionInv, ReadSnapshot
  PROVE  MotionInv' /\ UNCHANGED server
<1> DEFINE m == Head(down)
           older == /\ client.known
                    /\ \/ m.epoch < client.epoch
                       \/ m.epoch = client.epoch /\ m.ack < client.ack
<1>1. /\ client \in Reconciliations /\ server \in Sessions /\ client.intent \in Nat
      /\ client.acked \in Nat /\ client.carried \in Nat /\ client.epoch \in Nat
      /\ client.next \in Nat /\ server.epoch \in Nat /\ server.ack \in Nat
      /\ down \in Seq(Snapshots \cup {Joined})
      /\ Len(up) \in Nat /\ \A i \in 1 .. Len(up) : up[i].epoch \in Nat /\ up[i].sequence \in Nat
  BY Messages, Kinds DEF MotionInv, MotionTypeOK
<1>2. /\ client.link = "up" /\ down # <<>> /\ m # Joined /\ down' = Tail(down)
      /\ UNCHANGED <<server, up>>
      /\ client' = IF older THEN client ELSE Rebase(client, m)
  BY DEF ReadSnapshot
<1>3. /\ down' \in Seq(Snapshots \cup {Joined}) /\ Len(down) \in Nat \ {0}
      /\ Len(down') = Len(down) - 1 /\ m = down[1] /\ m \in Snapshots /\ 1 \in 1 .. Len(down)
      /\ \A i \in 1 .. Len(down') : i + 1 \in 1 .. Len(down) /\ down'[i] = down[i + 1]
  BY <1>1, <1>2, Queues
<1>4. m.epoch \in Nat /\ m.ack \in Nat
  BY <1>3, Kinds
<1>5. Fits(m.epoch, m.place) /\ \A e, q : Fits(e, q) => Fits(e, q)
  BY <1>2, <1>3 DEF MotionInv, PlacesFit
<1>6. \A i \in 1 .. Len(down') : /\ down'[i] # Joined
                                 /\ Fits(down'[i].epoch, down'[i].place)
  BY <1>2, <1>3 DEF MotionInv, PlacesFit, JoinComesFirst
<1>7. /\ m.epoch = server.epoch => m.ack <= server.ack
                                   /\ (server.owned /\ server.ack > 0 /\ m.ack = server.ack
                                       => m.lock = server.lock)
      /\ ~HasShip /\ server.ack > 0 => m.epoch = server.epoch /\ m.ack = server.ack
      /\ \A i \in 1 .. Len(down') : down'[i].epoch = server.epoch
           => /\ down'[i].ack <= server.ack
              /\ server.owned /\ server.ack > 0 /\ down'[i].ack = server.ack
                   => down'[i].lock = server.lock
  BY <1>2, <1>3, <1>6 DEF MotionInv, SnapshotsAreTrue
<1>8. client.acked <= client.intent /\ client.carried <= client.intent
  BY DEF MotionInv, SnapshotsAreTrue
<1> HIDE DEF m
<1>9. CASE older
  <2>1. client' = client /\ HasShip /\ HasShip'
    BY <1>2, <1>9 DEF HasShip
  <2>2. MotionTypeOK'
    BY <1>2, <1>3, <2>1 DEF MotionInv, MotionTypeOK
  <2>3. PlacesFit'
    BY <1>2, <1>6, <2>1 DEF MotionInv, PlacesFit, Fits
  <2>4. JoinComesFirst'
    BY <1>2, <1>6, <2>1 DEF MotionInv, JoinComesFirst, HasShip
  <2>5. UpdatesInOrder'
    BY <1>2, <2>1 DEF MotionInv, UpdatesInOrder
  <2>6. SnapshotsAreTrue'
    BY <1>2, <1>7, <2>1 DEF MotionInv, SnapshotsAreTrue
  <2> QED BY <1>2, <2>2, <2>3, <2>4, <2>5, <2>6 DEF MotionInv
<1>10. CASE ~older
  <2> DEFINE r == Rebase(client, m)
  <2>1. /\ r \in Reconciliations /\ r.acked <= r.intent /\ r.carried <= r.intent
        /\ r.acked = r.intent => r.lock = m.lock
        /\ r.link = "up" /\ r.known /\ ~r.waiting /\ r.epoch = m.epoch /\ r.ack = m.ack
        /\ r.next > m.ack
        /\ client.known /\ ~client.waiting /\ m.epoch = client.epoch => r.next >= client.next
        /\ \/ r.place = m.place
           \/ r.place = client.place /\ client.known /\ ~client.waiting /\ m.epoch = client.epoch
    BY <1>1, <1>2, <1>3, <1>8, Rebasing
  <2>2. client' = r
    BY <1>2, <1>10
  <2> HIDE DEF r
  <2>3. r.next \in Nat
    BY <2>1, Kinds
  <2>4. HasShip' /\ (client.known <=> HasShip)
    BY <1>2, <2>1, <2>2 DEF HasShip
  <2>5. MotionTypeOK'
    BY <1>2, <1>3, <2>1, <2>2 DEF MotionInv, MotionTypeOK
  <2>6. PlacesFit'
    <3>1. Fits(r.epoch, r.place)
      BY <1>5, <2>1, <2>4 DEF MotionInv, PlacesFit
    <3> QED BY <1>2, <1>6, <2>2, <3>1 DEF MotionInv, PlacesFit, Fits
  <2>7. JoinComesFirst'
    BY <1>2, <1>6, <2>1, <2>2 DEF MotionInv, JoinComesFirst
  <2>8. UpdatesInOrder'
    <3>1. \A i \in 1 .. Len(up) :
            \/ up[i].epoch < r.epoch
            \/ up[i].epoch = r.epoch /\ up[i].sequence < r.next
      <4>1. CASE ~HasShip
        BY <1>2, <2>4, <4>1 DEF MotionInv, JoinComesFirst
      <4>2. CASE HasShip
        <5>1. /\ m.epoch >= client.epoch /\ client.known /\ ~client.waiting
              /\ \A i \in 1 .. Len(up) :
                   \/ up[i].epoch < client.epoch
                   \/ up[i].epoch = client.epoch /\ up[i].sequence < client.next
          BY <1>1, <1>4, <1>10, <2>4, <4>2 DEF MotionInv, JoinComesFirst, UpdatesInOrder
        <5>2. m.epoch \in Nat /\ client.epoch \in Nat /\ client.next \in Nat
          BY <1>1, <1>4
        <5>3. ASSUME NEW i \in 1 .. Len(up)
              PROVE  \/ up[i].epoch < m.epoch
                     \/ up[i].epoch = m.epoch /\ up[i].sequence < r.next
          <6>1. /\ up[i].epoch \in Nat /\ up[i].sequence \in Nat
                /\ \/ up[i].epoch < client.epoch
                   \/ up[i].epoch = client.epoch /\ up[i].sequence < client.next
            BY <1>1, <5>1
          <6>2. CASE m.epoch = client.epoch
            <7>1. r.next >= client.next
              BY <2>1, <5>1, <6>2
            <7> QED BY <2>3, <5>2, <6>1, <6>2, <7>1
          <6>3. CASE m.epoch > client.epoch
            BY <5>2, <6>1, <6>3
          <6> QED BY <5>1, <5>2, <6>2, <6>3
        <5> QED BY <2>1, <5>3
      <4> QED BY <4>1, <4>2
    <3>2. server.ack > 0 => r.epoch = server.epoch /\ r.next > server.ack
      <4>1. CASE ~HasShip
        BY <1>7, <2>1, <4>1
      <4>2. CASE HasShip
        <5>1. m.epoch >= client.epoch /\ client.known /\ ~client.waiting
          BY <1>1, <1>4, <1>10, <2>4, <4>2 DEF MotionInv, JoinComesFirst
        <5>2. server.ack > 0 => client.epoch = server.epoch /\ client.next > server.ack
          BY <4>2 DEF MotionInv, UpdatesInOrder
        <5>3. m.epoch <= server.epoch
          BY <1>5 DEF Fits
        <5> QED BY <1>1, <1>4, <2>1, <2>3, <5>1, <5>2, <5>3
      <4> QED BY <4>1, <4>2
    <3> QED BY <1>2, <2>2, <3>1, <3>2 DEF MotionInv, UpdatesInOrder
  <2>9. SnapshotsAreTrue'
    BY <1>2, <1>7, <2>1, <2>2, <2>4 DEF SnapshotsAreTrue
  <2> QED BY <1>2, <2>5, <2>6, <2>7, <2>8, <2>9 DEF MotionInv
<1> QED BY <1>9, <1>10

LEMMA SendPoseInv ==
  ASSUME MotionInv, SendPose
  PROVE  MotionInv' /\ UNCHANGED server
<1> DEFINE m == [epoch |-> client.epoch, sequence |-> client.next, place |-> client.place,
                 lock |-> client.lock, hold |-> client.hold]
           n == client.next + 1
           carries == /\ client.intent # client.acked
                      /\ ~(client.pending /\ client.carried = client.intent)
           carried == IF carries THEN client.intent ELSE client.carried
           carrier == IF carries THEN client.next ELSE client.carrier
<1>1. /\ client \in Reconciliations /\ server \in Sessions /\ client.intent \in Nat
      /\ client.acked \in Nat /\ client.carried \in Nat /\ client.epoch \in Nat
      /\ client.next \in Nat /\ server.ack \in Nat /\ up \in Seq(Updates)
      /\ \A i \in 1 .. Len(up) : up[i].epoch \in Nat /\ up[i].sequence \in Nat
  BY Messages, Kinds DEF MotionInv, MotionTypeOK
<1>2. m \in Updates /\ n \in Nat /\ carried \in Nat /\ carrier \in Nat
  BY <1>1 DEF Updates, Reconciliations
<1>3. PICK pending \in BOOLEAN : pending = (client.pending \/ carries)
  OBVIOUS
<1>4. /\ client.link = "up" /\ client.known /\ up' = Append(up, m) /\ UNCHANGED <<server, down>>
      /\ client' = [client EXCEPT !.next = n, !.pending = pending, !.carried = carried,
                                  !.carrier = carrier]
  BY <1>1, <1>3 DEF SendPose, MayPose, Reconciliations
<1>5. /\ m.epoch = client.epoch /\ m.sequence = client.next /\ m.place = client.place
      /\ carried <= client.intent /\ n = client.next + 1
  BY <1>1 DEF MotionInv, SnapshotsAreTrue
<1> HIDE DEF m, n, carries, carried, carrier
<1>6. client' \in Reconciliations
  BY <1>1, <1>2, <1>4 DEF Reconciliations
<1>7. /\ client'.link = "up" /\ client'.known /\ client'.waiting = client.waiting
      /\ client'.epoch = client.epoch /\ client'.ack = client.ack /\ client'.next = n
      /\ client'.place = client.place /\ client'.lock = client.lock
      /\ client'.intent = client.intent /\ client'.acked = client.acked
      /\ client'.carried = carried
  BY <1>1, <1>4 DEF Reconciliations
<1>8. /\ up' \in Seq(Updates) /\ Len(up) \in Nat /\ Len(up') = Len(up) + 1
      /\ \A i \in 1 .. Len(up') : \/ i \in 1 .. Len(up) /\ up'[i] = up[i]
                                  \/ i = Len(up) + 1 /\ up'[i] = m
  BY <1>1, <1>2, <1>4, Queues
<1>9. HasShip /\ HasShip'
  BY <1>4, <1>7 DEF HasShip
<1>10. MotionTypeOK'
  BY <1>4, <1>6, <1>8 DEF MotionInv, MotionTypeOK
<1>11. PlacesFit'
  BY <1>4, <1>5, <1>7, <1>8, <1>9 DEF MotionInv, PlacesFit, Fits
<1>12. JoinComesFirst'
  BY <1>4, <1>7, <1>9 DEF MotionInv, JoinComesFirst
<1>13. UpdatesInOrder'
  <2>1. \A i \in 1 .. Len(up) :
          \/ up[i].epoch < client.epoch
          \/ up[i].epoch = client.epoch /\ up[i].sequence < client.next
    BY <1>9 DEF MotionInv, UpdatesInOrder
  <2>2. ASSUME NEW i \in 1 .. Len(up'), NEW j \in 1 .. Len(up'), i < j
        PROVE  \/ up'[i].epoch < up'[j].epoch
               \/ up'[i].epoch = up'[j].epoch /\ up'[i].sequence < up'[j].sequence
    <3>1. i \in 1 .. Len(up) /\ up'[i] = up[i]
      BY <1>8, <2>2
    <3>2. CASE j \in 1 .. Len(up) /\ up'[j] = up[j]
      BY <2>2, <3>1, <3>2 DEF MotionInv, UpdatesInOrder
    <3>3. CASE up'[j] = m
      BY <1>5, <2>1, <3>1, <3>3
    <3> QED BY <1>8, <3>2, <3>3
  <2>3. \A i \in 1 .. Len(up') :
          \/ up'[i].epoch < client.epoch
          \/ up'[i].epoch = client.epoch /\ up'[i].sequence < n
    <3> SUFFICES ASSUME NEW i \in 1 .. Len(up')
                 PROVE  \/ up'[i].epoch < client.epoch
                        \/ up'[i].epoch = client.epoch /\ up'[i].sequence < n
      OBVIOUS
    <3>1. CASE up'[i] = m
      BY <1>1, <1>5, <3>1
    <3>2. CASE i \in 1 .. Len(up) /\ up'[i] = up[i]
      <4>1. up[i].sequence \in Nat /\ (\/ up[i].epoch < client.epoch
                                       \/ up[i].epoch = client.epoch /\ up[i].sequence < client.next)
        BY <1>1, <2>1, <3>2
      <4> QED BY <1>1, <1>5, <3>2, <4>1
    <3> QED BY <1>8, <3>1, <3>2
  <2>4. server.ack > 0 =>
          /\ server.alive /\ server.transit = "none" /\ server.sequence = server.ack
          /\ client.epoch = server.epoch /\ client.next > server.ack
          /\ \A i \in 1 .. Len(up) : up[i].epoch = server.epoch /\ up[i].sequence > server.ack
    BY <1>9 DEF MotionInv, UpdatesInOrder
  <2>5. server.ack > 0 =>
          /\ \A i \in 1 .. Len(up') : up'[i].epoch = server.epoch /\ up'[i].sequence > server.ack
          /\ n > server.ack
    <3> SUFFICES ASSUME server.ack > 0
                 PROVE  /\ \A i \in 1 .. Len(up') :
                             up'[i].epoch = server.epoch /\ up'[i].sequence > server.ack
                        /\ n > server.ack
      OBVIOUS
    <3>1. m.epoch = server.epoch /\ m.sequence > server.ack
      BY <1>5, <2>4
    <3>2. ASSUME NEW i \in 1 .. Len(up')
          PROVE  up'[i].epoch = server.epoch /\ up'[i].sequence > server.ack
      <4>1. CASE i \in 1 .. Len(up) /\ up'[i] = up[i]
        BY <2>4, <4>1
      <4>2. CASE up'[i] = m
        BY <3>1, <4>2
      <4> QED BY <1>8, <4>1, <4>2
    <3>3. n > server.ack
      BY <1>1, <1>5, <2>4
    <3> QED BY <3>2, <3>3
  <2> QED BY <1>4, <1>7, <2>2, <2>3, <2>4, <2>5 DEF UpdatesInOrder
<1>14. SnapshotsAreTrue'
  BY <1>4, <1>5, <1>7, <1>9 DEF MotionInv, SnapshotsAreTrue
<1> QED BY <1>4, <1>10, <1>11, <1>12, <1>13, <1>14 DEF MotionInv

\* The pilot changes the lock or the hold: what is agreed is no longer claimed.
LEMMA TogglesInv ==
  ASSUME MotionInv, ToggleLock \/ ToggleHold
  PROVE  MotionInv' /\ UNCHANGED server
<1>1. /\ client \in Reconciliations /\ client.intent \in Nat /\ client.acked \in Nat
      /\ client.carried \in Nat /\ NoRail \in Locks /\ Rails \subseteq Locks
      /\ client.intent + 1 \in Nat /\ client.acked <= client.intent
      /\ client.carried <= client.intent
  BY Messages, Kinds DEF MotionInv, Locks, SnapshotsAreTrue
<1>2. PICK lock \in Locks, intent \in Nat, hold \in BOOLEAN :
        /\ client' = [client EXCEPT !.lock = lock, !.intent = intent, !.hold = hold]
        /\ intent >= client.intent /\ (intent # client.intent \/ lock = client.lock)
        /\ UNCHANGED <<server, up, down>>
  <2>1. CASE ToggleLock
    <3>1. PICK lock \in Locks :
            /\ client' = [client EXCEPT !.lock = lock, !.intent = @ + 1]
            /\ UNCHANGED <<server, up, down>>
      BY <1>1, <2>1 DEF ToggleLock
    <3>2. client.hold \in BOOLEAN
          /\ client' = [client EXCEPT !.lock = lock, !.intent = client.intent + 1,
                                      !.hold = client.hold]
      BY <1>1, <3>1 DEF Reconciliations
    <3>3. client.intent + 1 >= client.intent /\ client.intent + 1 # client.intent
      BY <1>1
    <3> QED BY <1>1, <3>1, <3>2, <3>3
  <2>2. CASE ToggleHold
    <3> DEFINE intent == IF client.lock # NoRail THEN client.intent + 1 ELSE client.intent
    <3>1. PICK hold \in BOOLEAN : hold = ~client.hold
      OBVIOUS
    <3>2. /\ client' = [client EXCEPT !.lock = NoRail, !.intent = intent, !.hold = hold]
          /\ UNCHANGED <<server, up, down>>
      BY <1>1, <2>2, <3>1 DEF ToggleHold, Reconciliations
    <3>3. /\ intent \in Nat /\ intent >= client.intent
          /\ intent # client.intent \/ NoRail = client.lock
      BY <1>1
    <3> HIDE DEF intent
    <3> QED BY <1>1, <3>2, <3>3
  <2> QED BY <2>1, <2>2
<1>3. client' \in Reconciliations
  BY <1>1, <1>2 DEF Reconciliations
<1>4. /\ client'.link = client.link /\ client'.known = client.known
      /\ client'.waiting = client.waiting /\ client'.epoch = client.epoch
      /\ client'.ack = client.ack /\ client'.next = client.next /\ client'.place = client.place
      /\ client'.acked = client.acked /\ client'.carried = client.carried
      /\ client'.lock = lock /\ client'.intent = intent
  BY <1>1, <1>2 DEF Reconciliations
<1>5. HasShip' <=> HasShip
  BY <1>4 DEF HasShip
<1>6. MotionTypeOK'
  BY <1>2, <1>3 DEF MotionInv, MotionTypeOK
<1>7. PlacesFit'
  BY <1>2, <1>4, <1>5 DEF MotionInv, PlacesFit, Fits
<1>8. JoinComesFirst'
  BY <1>2, <1>4, <1>5 DEF MotionInv, JoinComesFirst
<1>9. UpdatesInOrder'
  BY <1>2, <1>4, <1>5 DEF MotionInv, UpdatesInOrder
<1>10. SnapshotsAreTrue'
  <2>1. client.acked <= intent /\ client.carried <= intent
        /\ (client.acked = intent => client.acked = client.intent /\ lock = client.lock)
    BY <1>1, <1>2
  <2> QED BY <1>2, <1>4, <1>5, <2>1 DEF MotionInv, SnapshotsAreTrue
<1> QED BY <1>2, <1>6, <1>7, <1>8, <1>9, <1>10 DEF MotionInv

-----------------------------------------------------------------------------
(* An update arrives.                                                      *)

\* Updates after one that is accepted are later ones of the epoch, and none of the
\* snapshots in flight acknowledges it yet.
LEMMA AcceptInv ==
  ASSUME MotionInv, NEW s \in Sessions, s.epoch = server.epoch, s.place = server.place,
         s.owned, up # <<>>, s.alive, ~StalePose(s, Head(up)),
         server.ack > 0 => s.sequence = server.ack,
         server' = Accept(s, Head(up)), up' = Tail(up), UNCHANGED <<client, down>>
  PROVE  MotionInv' /\ server'.place >= server.place
<1> DEFINE m == Head(up)
<1>1. /\ client \in Reconciliations /\ server \in Sessions /\ client.epoch \in Nat
      /\ client.next \in Nat /\ client.ack \in Nat
      /\ server.epoch \in Nat /\ server.ack \in Nat /\ server.place \in Nat
      /\ up \in Seq(Updates) /\ Len(down) \in Nat
      /\ \A i \in 1 .. Len(up) : up[i].epoch \in Nat /\ up[i].sequence \in Nat
      /\ \A i \in 1 .. Len(down) : down[i] # Joined => down[i].ack \in Nat
  BY Messages, Kinds DEF MotionInv, MotionTypeOK
<1>2. /\ up' \in Seq(Updates) /\ m = up[1] /\ m \in Updates /\ Len(up) \in Nat \ {0}
      /\ Len(up') = Len(up) - 1 /\ 1 \in 1 .. Len(up)
      /\ \A i \in 1 .. Len(up') : i + 1 \in 1 .. Len(up) /\ up'[i] = up[i + 1]
  BY <1>1, Queues
<1>3. /\ m.epoch = server.epoch /\ s.transit = "none" /\ ~(m.sequence <= s.sequence)
      /\ m.sequence \in Nat /\ m.sequence \in Int /\ m.place \in Nat /\ m.lock \in Locks
      /\ m.hold \in BOOLEAN /\ NoRail \in Locks /\ s.sequence \in Int
  BY <1>2, Kinds DEF StalePose, Updates, Locks
<1>4. m.place = server.place
  BY <1>2, <1>3 DEF MotionInv, PlacesFit, Fits
<1> HIDE DEF m
<1> DEFINE place == IF s.hold THEN s.place ELSE m.place
           lock == IF s.hold THEN NoRail ELSE m.lock
<1>5. place = server.place /\ place \in Nat /\ lock \in Locks
  BY <1>1, <1>3, <1>4
<1>6. server' = [s EXCEPT !.mode = "free", !.ack = m.sequence, !.sequence = m.sequence,
                          !.place = place, !.lock = lock]
  BY DEF Accept, m
<1> HIDE DEF place, lock
<1>7. server' \in Sessions
  BY <1>3, <1>5, <1>6 DEF Sessions, Modes
<1>8. /\ server'.epoch = server.epoch /\ server'.place = server.place
      /\ server'.ack = m.sequence /\ server'.sequence = m.sequence
      /\ server'.alive /\ server'.transit = "none"
  BY <1>3, <1>5, <1>6 DEF Sessions
<1>9. m.sequence > server.ack \/ (server.ack = 0 /\ m.sequence >= server.ack)
  BY <1>1, <1>3
<1>10. \A i \in 1 .. Len(up') : up'[i].epoch = server.epoch /\ up'[i].sequence > m.sequence
  <2> TAKE i \in 1 .. Len(up')
  <2>1. i + 1 \in 1 .. Len(up) /\ 1 < i + 1 /\ up'[i] = up[i + 1]
    BY <1>2
  <2>2. \/ m.epoch < up[i + 1].epoch
        \/ m.epoch = up[i + 1].epoch /\ m.sequence < up[i + 1].sequence
    BY <1>2, <2>1 DEF MotionInv, UpdatesInOrder
  <2>3. up[i + 1].epoch <= server.epoch
    BY <2>1 DEF MotionInv, PlacesFit, Fits
  <2>4. up[i + 1].epoch \in Nat /\ up[i + 1].sequence \in Nat /\ m.epoch \in Nat /\ m.sequence \in Nat
    BY <1>1, <1>3, <2>1
  <2>5. m.epoch = server.epoch /\ server.epoch \in Nat
    BY <1>1, <1>3
  <2> HIDE DEF m
  <2> QED BY <2>1, <2>2, <2>3, <2>4, <2>5
<1>11. HasShip => client.epoch = server.epoch /\ client.next > m.sequence
  <2>1. HasShip => \/ m.epoch < client.epoch
                   \/ m.epoch = client.epoch /\ m.sequence < client.next
    BY <1>2 DEF MotionInv, UpdatesInOrder
  <2>2. HasShip => client.epoch <= server.epoch
    BY DEF MotionInv, PlacesFit, Fits
  <2> QED BY <1>1, <1>3, <2>1, <2>2
<1>12. ~HasShip => Len(down) = 0
  <2>1. up # <<>>
    OBVIOUS
  <2>2. client.link \in {"up", "joining", "down"}
    BY <1>1 DEF Reconciliations
  <2>3. ~HasShip => down = <<>>
    BY <2>1, <2>2 DEF MotionInv, JoinComesFirst, HasShip
  <2> QED BY <2>3
<1>13. HasShip' = HasShip
  BY DEF HasShip
<1>14. MotionTypeOK'
  BY <1>2, <1>7 DEF MotionInv, MotionTypeOK
<1>15. PlacesFit'
  BY <1>2, <1>8, <1>13 DEF MotionInv, PlacesFit, Fits
<1>16. JoinComesFirst'
  <2>1. up # <<>>
    OBVIOUS
  <2> QED BY <1>13, <2>1 DEF MotionInv, JoinComesFirst
<1>17. UpdatesInOrder'
  <2>1. ASSUME NEW i \in 1 .. Len(up'), NEW j \in 1 .. Len(up'), i < j
        PROVE  \/ up'[i].epoch < up'[j].epoch
               \/ up'[i].epoch = up'[j].epoch /\ up'[i].sequence < up'[j].sequence
    <3>1. i + 1 \in 1 .. Len(up) /\ j + 1 \in 1 .. Len(up) /\ i + 1 < j + 1
      BY <1>2, <2>1
    <3>2. up'[i] = up[i + 1] /\ up'[j] = up[j + 1]
      BY <1>2
    <3> QED BY <3>1, <3>2 DEF MotionInv, UpdatesInOrder
  <2>2. HasShip => \A i \in 1 .. Len(up') :
          \/ up'[i].epoch < client.epoch
          \/ up'[i].epoch = client.epoch /\ up'[i].sequence < client.next
    BY <1>2 DEF MotionInv, UpdatesInOrder
  <2> QED BY <1>8, <1>10, <1>11, <1>13, <2>1, <2>2 DEF UpdatesInOrder
<1>18. SnapshotsAreTrue'
  <2>1. \A i \in 1 .. Len(down) : down[i] # Joined /\ down[i].epoch = server.epoch
          => down[i].ack <= m.sequence /\ ~(m.sequence > 0 /\ down[i].ack = m.sequence)
    <3> SUFFICES ASSUME NEW i \in 1 .. Len(down), down[i] # Joined, down[i].epoch = server.epoch
                 PROVE  down[i].ack <= m.sequence /\ ~(m.sequence > 0 /\ down[i].ack = m.sequence)
      OBVIOUS
    <3>1. down[i].ack <= server.ack
      BY DEF MotionInv, SnapshotsAreTrue
    <3>2. down[i].ack \in Nat /\ m.sequence \in Nat /\ server.ack \in Nat
      BY <1>1, <1>3
    <3> QED BY <1>9, <3>1, <3>2
  <2>2. HasShip /\ client.epoch = server.epoch
          => client.ack <= m.sequence /\ ~(m.sequence > 0 /\ client.ack = m.sequence)
    BY <1>1, <1>3, <1>9 DEF MotionInv, SnapshotsAreTrue
  <2>3. client.acked <= client.intent /\ client.carried <= client.intent
    BY DEF MotionInv, SnapshotsAreTrue
  <2>4. client' = client /\ down' = down
    OBVIOUS
  <2> QED BY <1>8, <1>12, <1>13, <2>1, <2>2, <2>3, <2>4 DEF SnapshotsAreTrue
<1>19. server'.place >= server.place
  BY <1>1, <1>8
<1> QED BY <1>14, <1>15, <1>16, <1>17, <1>18, <1>19 DEF MotionInv

LEMMA ReadUpdateInv ==
  ASSUME MotionInv, ReadUpdate
  PROVE  MotionInv' /\ server'.place >= server.place
<1> DEFINE m == Head(up)
           s == OverlayHold(server, m.hold)
<1>1. /\ server \in Sessions /\ server.epoch \in Nat /\ server.ack \in Nat
      /\ server.place \in Nat /\ up \in Seq(Updates) /\ NoRail \in Locks
  BY Messages, Kinds DEF MotionInv, MotionTypeOK, Locks
<1>2. server.owned /\ up # <<>> /\ up' = Tail(up) /\ UNCHANGED <<client, down>>
  BY DEF ReadUpdate
<1>3. /\ up' \in Seq(Updates) /\ m = up[1] /\ m \in Updates /\ 1 \in 1 .. Len(up) /\ 1 \in Nat
      /\ \A i \in 1 .. Len(up') : i + 1 \in 1 .. Len(up) /\ up'[i] = up[i + 1]
  BY <1>1, <1>2, Queues
<1>4. /\ s \in Sessions /\ s.epoch = server.epoch /\ s.place = server.place
      /\ s.ack = server.ack /\ s.owned = server.owned /\ s.alive = server.alive
      /\ s.transit = server.transit /\ s.sequence = server.sequence
  <2>1. m.hold \in BOOLEAN
    BY <1>3 DEF Updates
  <2> HIDE DEF m
  <2> QED BY <1>1, <2>1 DEF OverlayHold, Sessions
<1>5. server.ack > 0 => /\ server.alive /\ server.transit = "none"
                        /\ server.sequence = server.ack
                        /\ m.epoch = server.epoch /\ m.sequence > server.ack
  BY <1>3 DEF MotionInv, UpdatesInOrder
<1>6. \/ server' = s /\ (~s.alive \/ StalePose(s, m))
      \/ server' = Accept(s, m) /\ s.alive /\ ~StalePose(s, m)
      \/ server' = Handoff(s)
  BY DEF ReadUpdate
<1>7. m.sequence \in Nat
  BY <1>3, Kinds
<1> HIDE DEF s
<1>8. CASE server' = s /\ (~s.alive \/ StalePose(s, m))
  <2> HIDE DEF m
  <2>1. ~(server.ack > 0)
    BY <1>1, <1>4, <1>5, <1>7, <1>8 DEF StalePose
  <2>2. /\ server' \in Sessions /\ server'.epoch = server.epoch
        /\ server'.place = server.place /\ server'.ack = server.ack
        /\ server'.owned => server.owned
    BY <1>4, <1>8
  <2>3. up = <<>> => up' = <<>>
    BY <1>2
  <2>4. MotionInv'
    BY <1>2, <1>3, <2>1, <2>2, <2>3, QuietInv
  <2> QED BY <1>1, <2>2, <2>4
<1>9. CASE server' = Accept(s, m) /\ s.alive /\ ~StalePose(s, m)
  BY <1>2, <1>4, <1>5, <1>9, AcceptInv
<1>10. CASE server' = Handoff(s)
  <2>1. /\ server' \in Sessions /\ server'.epoch = server.epoch + 1
        /\ server'.place = server.place /\ server'.ack = 0
    BY <1>4, <1>10, Takeovers
  <2> HIDE DEF m
  <2>2. /\ server'.epoch > server.epoch /\ server'.place >= server.place
        /\ up = <<>> => up' = <<>>
    BY <1>1, <1>2, <2>1
  <2>3. MotionInv'
    BY <1>2, <1>3, <2>1, <2>2, TakeoverInv
  <2> QED BY <2>2, <2>3
<1> QED BY <1>6, <1>8, <1>9, <1>10

-----------------------------------------------------------------------------
(* The pilot's movement.                                                   *)

LEMMA StepInv ==
  ASSUME MotionInv, [MotionNext]_motionVars
  PROVE  MotionInv' /\ server'.place >= server.place
<1>1. server.place \in Nat
  BY Messages, Kinds DEF MotionInv
<1>2. CASE Die \/ Revive \/ Respawn \/ NoticeDeath
  BY <1>2, LivesInv
<1>3. CASE HandoffTimesOut \/ RescueStops \/ StartFurnaceTravel \/ EndFurnaceTravel
  BY <1>3, JourneysInv
<1>4. CASE CatchBridge \/ FinishContourBridge \/ DropBridge
  BY <1>4, BridgesInv
<1>5. CASE Ram \/ Contact
  BY <1>5, ContactsInv
<1>6. CASE SocketCloses
  BY <1>6, ClosesInv
<1>7. CASE GraceEnds
  BY <1>7, GraceEndsInv
<1>8. CASE LoseLink \/ Reconnect
  BY <1>1, <1>8, LinksInv
<1>9. CASE ResumeSession
  BY <1>9, ResumeInv
<1>10. CASE Register
  BY <1>10, RegisterInv
<1>11. CASE Broadcast
  BY <1>1, <1>11, BroadcastInv
<1>12. CASE ReadJoined
  BY <1>1, <1>12, ReadJoinedInv
<1>13. CASE ReadSnapshot
  BY <1>1, <1>13, ReadSnapshotInv
<1>14. CASE SendPose
  BY <1>1, <1>14, SendPoseInv
<1>15. CASE ToggleLock \/ ToggleHold
  BY <1>1, <1>15, TogglesInv
<1>16. CASE ReadUpdate
  BY <1>16, ReadUpdateInv
<1>17. CASE UNCHANGED motionVars
  BY <1>1, <1>17 DEF motionVars, MotionInv, MotionTypeOK, PlacesFit, JoinComesFirst, UpdatesInOrder,
                     SnapshotsAreTrue, HasShip, Fits
<1> QED BY <1>2, <1>3, <1>4, <1>5, <1>6, <1>7, <1>8, <1>9, <1>10, <1>11, <1>12, <1>13, <1>14,
           <1>15, <1>16, <1>17 DEF MotionNext

\* The inductive invariant: what is known of places, locks and acknowledgements, on
\* both sides and in flight.
THEOREM InvHolds == MotionSpec => []MotionInv
<1>1. MotionInv /\ [MotionNext]_motionVars => MotionInv'
  BY StepInv
<1> QED BY InitInv, <1>1, PTL DEF MotionSpec

\* No pose undoes a placement by the server, whatever is in flight when it happens
\* (acceptFreePose, beginFreeEpoch).
THEOREM PlacementsAreKeptHolds == MotionSpec => PlacementsAreKept
<1>1. MotionInv /\ [MotionNext]_motionVars => [server'.place >= server.place]_motionVars
  BY StepInv
<1> QED BY InvHolds, <1>1, PTL DEF MotionSpec, PlacementsAreKept

\* Once a pose sent after the pilot's last change has been acknowledged, browser and
\* server agree on the place and the rail (rebase, reconcileContourLock).
THEOREM AcknowledgedMeansAgreedHolds == MotionSpec => []AcknowledgedMeansAgreed
<1>1. MotionInv => AcknowledgedMeansAgreed
  BY DEF MotionInv, PlacesFit, SnapshotsAreTrue, AcknowledgedMeansAgreed, InStep, MayPose,
         HasShip, Fits
<1> QED BY InvHolds, <1>1, PTL

=============================================================================
