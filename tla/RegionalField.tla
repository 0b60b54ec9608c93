---------------------------- MODULE RegionalField ----------------------------
(***************************************************************************)
(* The sleeping and waking of world sectors, the regrowth of harvested     *)
(* deposits, and the batches of sector rows that leave the game loop for   *)
(* the database, together with the database itself and crashes of the      *)
(* process (server/world/RegionalAsteroidField.ts, the sector part of      *)
(* server/core/GameEngine.ts checkpointWorld and of WorldStore.ts).        *)
(*                                                                         *)
(* A sector's row is a function from rocks to what is known of the rock's  *)
(* condition, Absent for the rocks the row does not hold.  The order of    *)
(* rocks in a row, poses and outlines are abstracted: only the sector a    *)
(* rock is in and its Condition are kept.  Clock time is abstracted too: a *)
(* regrowth interval elapses whenever it likes.                            *)
(***************************************************************************)
EXTENDS Naturals, FiniteSets

CONSTANTS
    Sectors,        \* sector identities
    Near,           \* Near[s]: sectors meeting the interest square of an observer in s
    Adjacent,       \* Adjacent[s]: sectors a rock of s can drift into
    Slots,          \* rocks the deposit layout generates, with a home sector
    Fragments,      \* rocks that only a split creates
    Home,           \* Home[r]: the sector whose layout owns slot r
    Chippable,      \* metal and colossal rocks: a hit may leave them damaged
    Boostable,      \* rocks a Hauler may ignite
    Beaconed,       \* rocks a Scout may attach a probe to
    Pilots,
    DriftFlush,     \* WORLD.driftFlushCheckpoints
    NoSector, NoRow, Absent, NoBatch

Rocks == Slots \cup Fragments

ASSUME FieldAssumption ==
    /\ Near \in [Sectors -> SUBSET Sectors]
    /\ \A s \in Sectors : s \in Near[s]
    /\ Adjacent \in [Sectors -> SUBSET Sectors]
    /\ Slots \cap Fragments = {}
    /\ Home \in [Slots -> Sectors]
    /\ NoSector \notin Sectors
    /\ DriftFlush \in Nat \ {0}

Conditions == {"intact", "chipped", "burning"}

ASSUME SentinelAssumption ==
    /\ Absent \notin Conditions
    /\ NoRow \notin [Rocks -> Conditions \cup {Absent}]
    /\ \A members \in SUBSET Rocks : NoRow # members
    /\ \A there \in SUBSET Rocks, rows \in [Sectors -> [Rocks -> Conditions \cup {Absent}] \cup {NoRow}] :
          NoBatch # [rows |-> rows, alive |-> there]

Row == [Rocks -> Conditions \cup {Absent}]
EmptyRow == [r \in Rocks |-> Absent]

\* A never-visited sector holds the deposits its layout generates.
FreshRow(s) ==
    [r \in Rocks |-> IF r \in Slots /\ Home[r] = s THEN "intact" ELSE Absent]

\* What table T (dormant rows, or the database) says sector s holds.
RowIn(T, s) == IF T[s] = NoRow THEN FreshRow(s) ELSE T[s]

Members(row) == {r \in Rocks : row[r] # Absent}

NoRows == [s \in Sectors |-> NoRow]

\* Table T after the rows of a batch replace its own.
Overlay(T, rows) == [s \in Sectors |-> IF rows[s] = NoRow THEN T[s] ELSE rows[s]]

VARIABLES
    pilot,      \* sector of each connected pilot, NoSector when away
    pos,        \* sector of each simulated rock, NoSector when not simulated
    cond,       \* condition of each simulated rock
    probed,     \* simulated rocks carrying a live survey probe (never saved)
    active,     \* awake sectors
    dormant,    \* rows of sleeping sectors kept in memory
    changed,    \* rows of sectors put to sleep since the last batch
    flushed,    \* membership of each awake sector in the last batch that held it
    powered,    \* saved sectors with burning rocks, still to be woken after a start
    checkpoints,\* batches handed over, modulo DriftFlush
    fullFlush,  \* the next batch carries every awake sector
    waiting,    \* a flush is waiting for the writer to be idle
    frame,      \* where the game loop is: see Frames
    inflight,   \* the batch handed over and not yet committed
    db,         \* committed sector rows
    \* history of the simulation, for the properties only
    alive,      \* rocks that exist: generated or split off, and not yet destroyed
    dbAlive,    \* alive, as of the last committed batch
    lag,        \* batches handed over since a rock's condition was last in one
    late        \* the frame of the last departure went on after its flush

memory == <<pilot, pos, cond, probed, active, dormant, changed, flushed,
            powered, checkpoints, fullFlush, waiting, frame>>
vars == <<pilot, pos, cond, probed, active, dormant, changed, flushed, powered,
          checkpoints, fullFlush, waiting, frame, inflight, db, alive, dbAlive, lag, late>>

\* "between": other events may run; "flushing": a frame that ends a second has
\* updated the sectors and will flush; "departing": the frame whose first steps
\* removed the last pilot and which still has its other steps to run.
Frames == {"between", "flushing", "departing"}

Paused == \A p \in Pilots : pilot[p] = NoSector
InField == {r \in Rocks : pos[r] # NoSector}
FieldRow(s) == [r \in Rocks |-> IF pos[r] = s THEN cond[r] ELSE Absent]
Burning == {r \in Rocks : cond[r] = "burning"}
Idle == inflight = NoBatch

\* Messages and frames are handled one at a time, and a flush that waited for the
\* writer runs right after the commit's answer, before any of them.
Ready == frame = "between" /\ ~(waiting /\ Idle)

\* Every row handed to persistence so far, committed or not.
Handed == IF Idle THEN db ELSE Overlay(db, inflight.rows)

-----------------------------------------------------------------------------
(* Sleep, wake and regrow: the parts of an interest update.                *)

ProbeSectors == {pos[r] : r \in probed}

\* Mutant: burning rocks do not hold their sector awake.
GuidedByProbesOnly == {pos[r] : r \in probed}

\* Sectors of the rocks an update keeps simulated for their own sake.
GuidedSectors == {pos[r] : r \in Burning \cup probed}

\* Sectors an update wants awake for pilots at pl.
Wanted(pl) ==
    (UNION {Near[s] : s \in {pl[p] : p \in {q \in Pilots : pl[q] # NoSector}} \cup ProbeSectors})
        \cup GuidedSectors
        \cup powered

\* sleepDistantSectors: simulated rocks outside the wanted sectors go dormant.
\* A sector that was awake is replaced whole; one a rock drifted into is merged.
SleepingSectors(awake, wanted) == (awake \cup {pos[r] : r \in InField}) \ wanted

SleptRow(s, awake) ==
    [r \in Rocks |-> IF pos[r] = s THEN cond[r]
                     ELSE IF s \in awake THEN Absent
                     ELSE RowIn(dormant, s)[r]]

Slept(T, asleep, awake) ==
    [s \in Sectors |-> IF s \in asleep THEN SleptRow(s, awake) ELSE T[s]]

\* wake: rows of the woken sectors join the simulation, unless already there.
Entered(r, T, woken) == {s \in woken : RowIn(T, s)[r] # Absent}
EntrySector(r, T, woken) == CHOOSE s \in Entered(r, T, woken) : TRUE

WokenPos(p, T, woken) ==
    [r \in Rocks |-> IF p[r] = NoSector /\ Entered(r, T, woken) # {}
                     THEN EntrySector(r, T, woken) ELSE p[r]]
WokenCond(p, c, T, woken) ==
    [r \in Rocks |-> IF p[r] # NoSector THEN c[r]
                     ELSE IF Entered(r, T, woken) # {}
                     THEN RowIn(T, EntrySector(r, T, woken))[r] ELSE Absent]
Taken(T, woken) == [s \in Sectors |-> IF s \in woken THEN NoRow ELSE T[s]]

\* Mutant: regrowth looks for a slot's rock among the simulated ones only.
MissingIgnoringSleepers(wanted, p, T) == {r \in Slots : Home[r] \in wanted /\ p[r] = NoSector}

\* Slots of awake sectors whose rock exists nowhere in memory.
Missing(wanted, p, T) ==
    {r \in Slots : /\ Home[r] \in wanted
                   /\ p[r] = NoSector
                   /\ \A s \in Sectors : T[s] = NoRow \/ T[s][r] = Absent}

\* RegionalAsteroidField.update for pilots at pl: any of the missing slots may
\* be out of sight and due.
UpdateFor(pl) ==
    LET wanted == Wanted(pl)
        awake  == active \cup ProbeSectors
        asleep == SleepingSectors(awake, wanted)
        stored == Slept(dormant, asleep, awake)
        kept   == [r \in Rocks |-> IF pos[r] \in asleep THEN NoSector ELSE pos[r]]
        woken  == wanted \ awake
        left   == Taken(stored, woken)
        moved  == WokenPos(kept, stored, woken)
        condn  == WokenCond(kept, cond, stored, woken)
    IN \E grown \in SUBSET Missing(wanted, moved, left) :
        /\ pos' = [r \in Rocks |-> IF r \in grown THEN Home[r] ELSE moved[r]]
        /\ cond' = [r \in Rocks |-> IF r \in grown THEN "intact" ELSE condn[r]]
        /\ dormant' = left
        /\ changed' = Slept(changed, asleep, awake)
        /\ flushed' = [s \in Sectors |-> IF s \in asleep THEN NoRow ELSE flushed[s]]
        /\ active' = wanted
        /\ powered' = {}
        /\ alive' = alive \cup grown
        /\ UNCHANGED <<probed, checkpoints, fullFlush, inflight, db, dbAlive, lag, late>>

-----------------------------------------------------------------------------
(* The batch: RegionalAsteroidField.checkpoint followed by saved.          *)

\* A burning rock may have crossed into a sleeping sector since the last update.
Crossings == {pos[r] : r \in Burning} \ active

\* Mutant: only a requested full flush carries drift and damage.
DriftDueOnRequest(full) == full

\* Drift and damage wait for every DriftFlush-th batch, or for a full one.
DriftDue(full) == full \/ checkpoints = 0

\* Mutant: a sector's rocks are written once and then only with its drift.
MembershipFirstOnly(s, row) == flushed[s] = NoRow

\* A sector whose set of rocks differs from its last batch is written at once.
MembershipChanged(s, row) == flushed[s] # Members(row)

\* RegionalAsteroidField.checkpoint and saved, as one flush with the given
\* full-flush request.  A crossed edge wakes its sector first, then rocks outside
\* the awake sectors go dormant.
Flush(full) ==
    LET woken  == Crossings
        moved  == WokenPos(pos, dormant, woken)
        condn  == WokenCond(pos, cond, dormant, woken)
        awake  == active \cup woken \cup ProbeSectors
        asleep == {moved[r] : r \in {q \in Rocks : moved[q] # NoSector}} \ awake
        left   == Taken(dormant, woken)
        slept(s) == [r \in Rocks |-> IF moved[r] = s THEN condn[r] ELSE RowIn(left, s)[r]]
        row(s) == [r \in Rocks |-> IF moved[r] = s THEN condn[r] ELSE Absent]
        written == {s \in awake : DriftDue(full) \/ MembershipChanged(s, row(s))}
        rows   == [s \in Sectors |-> IF s \in written THEN row(s)
                                     ELSE IF s \in asleep THEN slept(s)
                                     ELSE changed[s]]
    IN /\ Idle
       /\ pos' = [r \in Rocks |-> IF moved[r] \in asleep THEN NoSector ELSE moved[r]]
       /\ cond' = [r \in Rocks |-> IF moved[r] \in asleep THEN Absent ELSE condn[r]]
       /\ active' = awake
       /\ dormant' = [s \in Sectors |-> IF s \in asleep THEN slept(s) ELSE left[s]]
       /\ changed' = NoRows
       /\ flushed' = [s \in Sectors |-> IF s \in asleep THEN NoRow
                                        ELSE IF s \in written THEN Members(row(s))
                                        ELSE flushed[s]]
       /\ checkpoints' = (checkpoints + 1) % DriftFlush
       /\ fullFlush' = FALSE
       /\ inflight' = [rows |-> rows, alive |-> alive]
       /\ lag' = [r \in Rocks |->
                    IF \E s \in Sectors : rows[s] # NoRow /\ rows[s][r] # Absent THEN 0
                    ELSE IF moved[r] \in awake /\ RowIn(Handed, moved[r])[r] # condn[r]
                    THEN lag[r] + 1 ELSE 0]
       /\ late' = FALSE
       /\ UNCHANGED <<probed, powered, db, alive, dbAlive>>

-----------------------------------------------------------------------------
Init ==
    /\ pilot = [p \in Pilots |-> NoSector]
    /\ pos = [r \in Rocks |-> NoSector]
    /\ cond = EmptyRow
    /\ probed = {}
    /\ active = {}
    /\ dormant = NoRows
    /\ changed = NoRows
    /\ flushed = NoRows
    /\ powered = {}
    /\ checkpoints = 0
    /\ fullFlush = FALSE
    /\ waiting = FALSE
    /\ frame = "between"
    /\ inflight = NoBatch
    /\ db = NoRows
    /\ alive = Slots
    /\ dbAlive = Slots
    /\ lag = [r \in Rocks |-> 0]
    /\ late = FALSE

(* Pilots.  Joining, and leaving while others stay, update the awake       *)
(* sectors at once; the last departure pauses the world and flushes it.    *)

Join(p, s) ==
    /\ Ready
    /\ pilot[p] = NoSector
    /\ pilot' = [pilot EXCEPT ![p] = s]
    /\ UpdateFor(pilot')
    /\ UNCHANGED <<waiting, frame>>

\* removePlayer of a pilot who leaves others behind.
Leave(p) ==
    /\ Ready
    /\ pilot[p] # NoSector
    /\ \E q \in Pilots \ {p} : pilot[q] # NoSector
    /\ pilot' = [pilot EXCEPT ![p] = NoSector]
    /\ UpdateFor(pilot')
    /\ UNCHANGED <<waiting, frame>>

\* Mutant: the last departure flushes without asking for a full flush.
DepartureFlushPartial ==
    \/ Flush(fullFlush) /\ UNCHANGED waiting
    \/ /\ ~Idle
       /\ waiting' = TRUE
       /\ UNCHANGED <<pos, cond, probed, active, dormant, changed, flushed, powered, checkpoints,
                      fullFlush, inflight, db, alive, dbAlive, lag, late>>

\* updatePauseState asks for a full flush, now or when the writer is idle.
DepartureFlush ==
    \/ Flush(TRUE) /\ UNCHANGED waiting
    \/ /\ ~Idle
       /\ fullFlush' = TRUE
       /\ waiting' = TRUE
       /\ UNCHANGED <<pos, cond, probed, active, dormant, changed, flushed, powered,
                      checkpoints, inflight, db, alive, dbAlive, lag, late>>

\* removePlayer of the last pilot: outside a frame (a leave message), or by the
\* first steps of one (stale, or its reconnect grace is over).
LeaveLast(p) ==
    /\ Ready
    /\ pilot[p] # NoSector
    /\ \A q \in Pilots \ {p} : pilot[q] = NoSector
    /\ pilot' = [pilot EXCEPT ![p] = NoSector]
    /\ frame' \in {"between", "departing"}
    /\ DepartureFlush

\* The world has paused, but the frame that paused it runs to its end.
EndFrame ==
    /\ frame = "departing"
    /\ frame' = "between"
    /\ UNCHANGED <<pilot, pos, cond, probed, active, dormant, changed, flushed, powered,
                   checkpoints, fullFlush, waiting, inflight, db, alive, dbAlive, lag, late>>

\* Ordinary flight, or furnace travel to anywhere.
Fly(p, s) ==
    /\ Ready
    /\ pilot[p] # NoSector
    /\ pilot' = [pilot EXCEPT ![p] = s]
    /\ UNCHANGED <<pos, cond, probed, active, dormant, changed, flushed, powered, checkpoints,
                   fullFlush, waiting, frame, inflight, db, alive, dbAlive, lag, late>>

(* Rocks.  Only a running world moves or destroys them, and the rest of    *)
(* the frame that pauses it.                                               *)

Playing == ~Paused /\ Ready
Simulating == Playing \/ frame = "departing"

fieldUnchanged == <<pilot, active, dormant, changed, flushed, powered, checkpoints,
                    fullFlush, waiting, frame, inflight, db, dbAlive, lag>>

\* A step of the departing frame that no flush of this pause will carry.
NoteLate == late' = (late \/ (frame = "departing" /\ ~waiting))

\* updateMotion carries a rock over a sector edge.  A probe's host stays within
\* the sectors its own observer keeps awake: WORLD.interestRadius is further
\* than a rock moves between two updates.
Drift(r, s) ==
    /\ Simulating
    /\ r \in InField
    /\ s \in Adjacent[pos[r]]
    /\ r \in probed => s \in active
    /\ pos' = [pos EXCEPT ![r] = s]
    /\ NoteLate
    /\ UNCHANGED <<cond, probed, alive>> /\ UNCHANGED fieldUnchanged

\* registerLaserHit on a rock that survives the shot.
Chip(r) ==
    /\ Playing
    /\ r \in InField \cap Chippable
    /\ cond[r] = "intact"
    /\ cond' = [cond EXCEPT ![r] = "chipped"]
    /\ UNCHANGED <<pos, probed, alive, late>> /\ UNCHANGED fieldUnchanged

Ignite(r) ==
    /\ Playing
    /\ r \in InField \cap Boostable
    /\ cond[r] # "burning"
    /\ cond' = [cond EXCEPT ![r] = "burning"]
    /\ UNCHANGED <<pos, probed, alive, late>> /\ UNCHANGED fieldUnchanged

AttachProbe(r) ==
    /\ Playing
    /\ r \in (InField \cap Beaconed) \ probed
    /\ pos[r] \in active
    /\ probed' = probed \cup {r}
    /\ UNCHANGED <<pos, cond, alive, late>> /\ UNCHANGED fieldUnchanged

ExpireProbe(r) ==
    /\ Simulating
    /\ r \in probed
    /\ probed' = probed \ {r}
    /\ UNCHANGED <<pos, cond, alive, late>> /\ UNCHANGED fieldUnchanged

\* Fragment ids are never reused: not one the database or a batch ever held.
Unborn == Fragments \ (alive \cup dbAlive \cup (IF Idle THEN {} ELSE inflight.alive))

\* finishDestroy, by a hit that a chippable rock may have resisted before: a burning rock
\* ignores it; a split leaves fragments nearby.
Destroy(r, pieces, s) ==
    /\ Playing
    /\ r \in InField
    /\ cond[r] # "burning"
    /\ pieces \subseteq Unborn
    /\ s \in Adjacent[pos[r]] \cup {pos[r]}
    /\ pos' = [q \in Rocks |-> IF q = r THEN NoSector ELSE IF q \in pieces THEN s ELSE pos[q]]
    /\ cond' = [q \in Rocks |-> IF q = r THEN Absent ELSE IF q \in pieces THEN "intact" ELSE cond[q]]
    /\ probed' = probed \ {r}
    /\ alive' = (alive \ {r}) \cup pieces
    /\ UNCHANGED late /\ UNCHANGED fieldUnchanged

\* deliverAsteroid: a furnace consumes the rock, burning or towed.
Deliver(r) ==
    /\ Simulating
    /\ r \in InField
    /\ pos' = [pos EXCEPT ![r] = NoSector]
    /\ cond' = [cond EXCEPT ![r] = Absent]
    /\ probed' = probed \ {r}
    /\ alive' = alive \ {r}
    /\ NoteLate
    /\ UNCHANGED fieldUnchanged

(* The frame that ends a second updates the awake sectors and then, if the *)
(* writer is idle, flushes.                                                *)

Update ==
    /\ Playing
    /\ UpdateFor(pilot)
    /\ frame' = IF Idle THEN "flushing" ELSE "between"
    /\ UNCHANGED <<pilot, waiting>>

PeriodicFlush ==
    /\ frame = "flushing"
    /\ frame' = "between"
    /\ Flush(fullFlush)
    /\ UNCHANGED <<pilot, waiting>>

\* flushWhenIdle: the flush that found a commit in flight.
DeferredFlush ==
    /\ frame = "between"
    /\ waiting
    /\ waiting' = FALSE
    /\ Flush(fullFlush)
    /\ UNCHANGED <<pilot, frame>>

(* The writer and the process.                                             *)

\* WorldStore.checkpoint: one transaction for the whole batch.
Commit ==
    /\ frame = "between"
    /\ ~Idle
    /\ db' = Overlay(db, inflight.rows)
    /\ dbAlive' = inflight.alive
    /\ inflight' = NoBatch
    /\ UNCHANGED memory /\ UNCHANGED <<alive, lag, late>>

\* The process dies and a new one starts from the committed rows.
Crash ==
    /\ pilot' = [p \in Pilots |-> NoSector]
    /\ pos' = [r \in Rocks |-> NoSector]
    /\ cond' = EmptyRow
    /\ probed' = {}
    /\ active' = {}
    /\ dormant' = db
    /\ changed' = NoRows
    /\ flushed' = NoRows
    /\ powered' = {s \in Sectors : db[s] # NoRow /\ \E r \in Rocks : db[s][r] = "burning"}
    /\ checkpoints' = 0
    /\ fullFlush' = FALSE
    /\ waiting' = FALSE
    /\ frame' = "between"
    /\ inflight' = NoBatch
    /\ alive' = dbAlive
    /\ late' = FALSE
    /\ lag' = [r \in Rocks |-> 0]
    /\ UNCHANGED <<db, dbAlive>>

Next ==
    \/ \E p \in Pilots, s \in Sectors : Join(p, s) \/ Fly(p, s)
    \/ \E p \in Pilots : Leave(p) \/ LeaveLast(p)
    \/ EndFrame
    \/ \E r \in Rocks : \/ \E s \in Sectors : Drift(r, s)
                       \/ Chip(r) \/ Ignite(r) \/ AttachProbe(r) \/ ExpireProbe(r)
                       \/ \E pieces \in SUBSET Fragments, s \in Sectors : Destroy(r, pieces, s)
                       \/ Deliver(r)
    \/ Update \/ PeriodicFlush \/ DeferredFlush
    \/ Commit \/ Crash

Spec == Init /\ [][Next]_vars

-----------------------------------------------------------------------------
(* Properties.                                                             *)

Batch == [rows : [Sectors -> Row \cup {NoRow}], alive : SUBSET Rocks]

\* Type invariant of the field, the batch in flight and the database.
TypeOK ==
    /\ pilot \in [Pilots -> Sectors \cup {NoSector}]
    /\ pos \in [Rocks -> Sectors \cup {NoSector}]
    /\ cond \in [Rocks -> Conditions \cup {Absent}]
    /\ \A r \in Rocks : cond[r] = Absent <=> pos[r] = NoSector
    /\ probed \subseteq InField
    /\ active \subseteq Sectors
    /\ dormant \in [Sectors -> Row \cup {NoRow}]
    /\ changed \in [Sectors -> Row \cup {NoRow}]
    /\ flushed \in [Sectors -> (SUBSET Rocks) \cup {NoRow}]
    /\ powered \subseteq Sectors
    /\ checkpoints \in 0 .. DriftFlush - 1
    /\ fullFlush \in BOOLEAN
    /\ waiting \in BOOLEAN
    /\ late \in BOOLEAN
    /\ frame \in Frames
    /\ inflight \in Batch \cup {NoBatch}
    /\ db \in [Sectors -> Row \cup {NoRow}]
    /\ alive \subseteq Rocks
    /\ dbAlive \subseteq Rocks
    /\ lag \in [Rocks -> Nat]

\* Each rock of set A is in exactly one sector row of table T, and no other rock is in any.
ExactlyOnce(T, A) ==
    \A r \in Rocks :
        /\ (\E s \in Sectors : RowIn(T, s)[r] # Absent) <=> r \in A
        /\ \A s, t \in Sectors :
              RowIn(T, s)[r] # Absent /\ RowIn(T, t)[r] # Absent => s = t

\* Each rock of A is simulated (at p) or in the row of a sector of T that is not
\* awake, never both and never in two rows; no other rock is in either.
HeldOnce(p, T, awake, A) ==
    \A r \in Rocks :
        /\ r \in A <=> \/ p[r] # NoSector
                      \/ \E s \in Sectors \ awake : RowIn(T, s)[r] # Absent
        /\ \A s, t \in Sectors \ awake :
              RowIn(T, s)[r] # Absent =>
                  p[r] = NoSector /\ (RowIn(T, t)[r] # Absent => s = t)

\* Every rock that exists is in memory once: simulated, asleep in a row, or not
\* yet generated; and no destroyed rock is.  Waking, sleeping, regrowth and
\* edge crossings neither lose nor copy a deposit.
MemoryHoldsEachRockOnce == HeldOnce(pos, dormant, active, alive)

\* A crash at any moment resumes with exactly the rocks that existed at one
\* flush, each in one sector: "never loses or duplicates a rock".
DatabaseHoldsEachRockOnce == ExactlyOnce(db, dbAlive)

\* Nothing in the life of a rock loses or copies it, and neither does a crash.
RocksAreHeldOnce == MemoryHoldsEachRockOnce /\ DatabaseHoldsEachRockOnce

\* WorldStore.assertNoDuplicateDeposits: some rock would be saved under two sectors.
DuplicateDeposit(rows) ==
    \E r \in Rocks, s, t \in Sectors :
        /\ s # t
        /\ rows[s] # NoRow /\ rows[s][r] # Absent
        /\ \/ rows[t] # NoRow /\ rows[t][r] # Absent
           \/ rows[t] = NoRow /\ db[t] # NoRow /\ db[t][r] # Absent

\* The store's duplicate guard never refuses a batch the field prepared, which
\* would stop the server.
BatchNeverRefused == ~Idle => ~DuplicateDeposit(inflight.rows)

\* A burning rock keeps its sector awake until it is delivered; after a restart
\* its saved sector is still due to be woken.
BurningRocksStayAwake ==
    \A s \in Sectors \ active : \A r \in Rocks :
        RowIn(dormant, s)[r] = "burning" => s \in powered

\* What the batches so far know of each sector, against memory.  A sleeping
\* sector's row is pending or has been handed over with the same rocks; an awake
\* sector with a recorded membership has no pending row, and was handed over
\* with that membership.
BatchesTrackMemory ==
    \A s \in Sectors :
        /\ s \in active => dormant[s] = NoRow
        /\ s \notin active => flushed[s] = NoRow
        /\ s \notin active => IF changed[s] = NoRow
                              THEN Members(RowIn(Handed, s)) = Members(RowIn(dormant, s))
                              ELSE changed[s] = dormant[s]
        /\ flushed[s] # NoRow => changed[s] = NoRow /\ Members(RowIn(Handed, s)) = flushed[s]

HandedAlive == IF Idle THEN dbAlive ELSE inflight.alive

\* The inductive invariant of the proofs in RegionalFieldProofs.
IInv ==
    /\ TypeOK
    /\ ProbeSectors \subseteq active
    /\ MemoryHoldsEachRockOnce
    /\ DatabaseHoldsEachRockOnce
    /\ ExactlyOnce(Handed, HandedAlive)
    /\ BatchesTrackMemory

\* Where memory has every rock, and in what condition.
World == [s \in Sectors |-> IF s \in active THEN FieldRow(s) ELSE RowIn(dormant, s)]
WorldIsCommitted == \A s \in Sectors : RowIn(db, s) = World[s]

\* Once the last departure's flush has committed, a restart of the paused world
\* loses nothing, damage and deferred drift included, but for what the rest of
\* the departing frame did.
PausedWorldIsDurable ==
    Paused /\ Idle /\ ~waiting /\ ~late => WorldIsCommitted

\* "Nothing flushes while paused, so this write carries all deferred drift":
\* the same without the exception.
DepartureFlushCarriesEverything ==
    Paused /\ Idle /\ ~waiting /\ frame = "between" => WorldIsCommitted

\* Damage reaches a batch within DriftFlush flushes, so a crash undoes a bounded
\* amount of chipping.
DamageLagBounded == \A r \in Rocks : lag[r] < DriftFlush

\* What has been handed over of a sleeping sector is its row, conditions included.
SleepersAreHanded ==
    \A s \in Sectors \ active : changed[s] = NoRow => RowIn(Handed, s) = RowIn(dormant, s)

\* No condition has waited for longer than since the last batch that carried all.
LagIsCounted == \A r \in Rocks : lag[r] <= IF checkpoints = 0 THEN DriftFlush - 1 ELSE checkpoints - 1

\* A flush that waits will be a full one, and none waits while a frame is about to
\* flush; in a paused world whose flush is done, it has carried everything.
PauseIsHanded ==
    /\ waiting => fullFlush
    /\ frame = "flushing" => Idle /\ ~waiting /\ ~Paused
    /\ Paused /\ ~waiting /\ ~late => \A s \in Sectors : RowIn(Handed, s) = World[s]

\* IInv with conditions: the inductive invariant of damage, fire and the pause.
DamageInv ==
    IInv /\ BurningRocksStayAwake /\ SleepersAreHanded /\ LagIsCounted /\ PauseIsHanded

=============================================================================
