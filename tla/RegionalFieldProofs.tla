------------------------- MODULE RegionalFieldProofs -------------------------
(***************************************************************************)
(* Proofs about RegionalField for every number of sectors, rocks and       *)
(* pilots: IInv is inductive, and from it type correctness, "never loses   *)
(* or duplicates a rock" in memory and in the database, and that the store *)
(* never refuses a batch; and, with the rocks' conditions, that fire keeps *)
(* a sector awake, damage is written in time and a pause loses nothing.    *)
(***************************************************************************)
EXTENDS RegionalField, TLAPS

Rows == [Sectors -> Row \cup {NoRow}]
Places == [Rocks -> Sectors \cup {NoSector}]

-----------------------------------------------------------------------------
(* Rows and tables.                                                        *)

LEMMA RowType ==
    ASSUME NEW T \in Rows, NEW s \in Sectors
    PROVE  RowIn(T, s) \in Row
  BY DEF RowIn, FreshRow, Row, Rows, Conditions

LEMMA RowIsNotNoRow == \A row \in Row : row # NoRow
  BY SentinelAssumption DEF Row

\* A rock enters the simulation from one of the woken rows that hold it.
LEMMA EntryFromRow ==
    ASSUME NEW T, NEW woken, NEW r, Entered(r, T, woken) # {}
    PROVE  /\ EntrySector(r, T, woken) \in woken
           /\ RowIn(T, EntrySector(r, T, woken))[r] # Absent
<1> DEFINE E == Entered(r, T, woken)
<1>1. \E s \in E : TRUE
  OBVIOUS
<1>2. (CHOOSE s \in E : TRUE) \in E
  BY <1>1
<1>3. EntrySector(r, T, woken) \in Entered(r, T, woken)
  BY <1>2 DEF EntrySector
<1> QED
  BY <1>3 DEF Entered

\* Waking keeps "has a condition" and "is in a sector" together.
LEMMA WakeType ==
    ASSUME NEW T \in Rows, NEW woken \in SUBSET Sectors, NEW p \in Places,
           NEW c \in [Rocks -> Conditions \cup {Absent}],
           \A r \in Rocks : p[r] # NoSector => c[r] # Absent
    PROVE  /\ WokenPos(p, T, woken) \in Places
           /\ WokenCond(p, c, T, woken) \in [Rocks -> Conditions \cup {Absent}]
           /\ \A r \in Rocks : WokenCond(p, c, T, woken)[r] = Absent
                                 <=> WokenPos(p, T, woken)[r] = NoSector
           /\ \A r \in Rocks : p[r] # NoSector => WokenPos(p, T, woken)[r] = p[r]
<1>1. ASSUME NEW r \in Rocks, p[r] = NoSector, Entered(r, T, woken) # {}
      PROVE  /\ EntrySector(r, T, woken) \in Sectors
             /\ RowIn(T, EntrySector(r, T, woken))[r] \in Conditions
  <2>1. EntrySector(r, T, woken) \in Sectors /\ RowIn(T, EntrySector(r, T, woken))[r] # Absent
    BY <1>1, EntryFromRow
  <2> QED
    BY <2>1, RowType DEF Row
<1>2. \A s \in Sectors : s # NoSector
  BY FieldAssumption
<1>3. Absent \notin Conditions
  BY SentinelAssumption
<1> QED
  BY <1>1, <1>2, <1>3 DEF WokenPos, WokenCond, Places

LEMMA TakenType ==
    ASSUME NEW T \in Rows, NEW woken \in SUBSET Sectors
    PROVE  /\ Taken(T, woken) \in Rows
           /\ \A s \in Sectors \ woken : RowIn(Taken(T, woken), s) = RowIn(T, s)
  BY DEF Taken, Rows, RowIn

-----------------------------------------------------------------------------
(* Each rock in memory once: what waking, sleeping and regrowth preserve.  *)

LEMMA WakeHeld ==
    ASSUME NEW p \in Places, NEW T \in Rows, NEW awake \in SUBSET Sectors,
           NEW woken \in SUBSET (Sectors \ awake), NEW A, HeldOnce(p, T, awake, A)
    PROVE  HeldOnce(WokenPos(p, T, woken), Taken(T, woken), awake \cup woken, A)
<1> DEFINE q == WokenPos(p, T, woken)
           U == Taken(T, woken)
<1>1. \A s \in Sectors \ (awake \cup woken) : RowIn(U, s) = RowIn(T, s)
  BY TakenType
<1>2. \A s \in Sectors : s # NoSector
  BY FieldAssumption
<1>3. ASSUME NEW r \in Rocks
      PROVE  q[r] # NoSector <=> p[r] # NoSector \/ \E s \in woken : RowIn(T, s)[r] # Absent
  <2>1. Entered(r, T, woken) # {} <=> \E s \in woken : RowIn(T, s)[r] # Absent
    BY DEF Entered
  <2>2. Entered(r, T, woken) # {} => EntrySector(r, T, woken) \in Sectors
    BY EntryFromRow
  <2> QED
    BY <2>1, <2>2, <1>2 DEF WokenPos
<1>4. ASSUME NEW r \in Rocks
      PROVE  r \in A <=> q[r] # NoSector \/ \E s \in Sectors \ (awake \cup woken) : RowIn(U, s)[r] # Absent
  BY <1>1, <1>3 DEF HeldOnce
<1>5. ASSUME NEW r \in Rocks, NEW s \in Sectors \ (awake \cup woken),
             NEW t \in Sectors \ (awake \cup woken), RowIn(U, s)[r] # Absent
      PROVE  q[r] = NoSector /\ (RowIn(U, t)[r] # Absent => s = t)
  <2>1. RowIn(T, s)[r] # Absent
    BY <1>1, <1>5
  <2>2. p[r] = NoSector /\ \A u \in Sectors \ awake : RowIn(T, u)[r] # Absent => s = u
    BY <2>1 DEF HeldOnce
  <2> QED
    BY <1>1, <1>3, <2>2
<1> HIDE DEF q, U
<1>6. HeldOnce(q, U, awake \cup woken, A)
  BY <1>4, <1>5 DEF HeldOnce
<1> QED
  BY <1>6 DEF q, U

\* T2 is T with the rows of the sectors put to sleep replaced (awake ones) or
\* merged with the rocks at p.
LEMMA SleepHeld ==
    ASSUME NEW p \in Places, NEW T \in Rows, NEW T2 \in Rows, NEW awake \in SUBSET Sectors,
           NEW asleep \in SUBSET Sectors, NEW A, HeldOnce(p, T, awake, A),
           \A s \in Sectors \ asleep : T2[s] = T[s],
           \A s \in asleep : \A r \in Rocks :
              RowIn(T2, s)[r] # Absent <=> p[r] = s \/ (s \notin awake /\ RowIn(T, s)[r] # Absent)
    PROVE  HeldOnce([r \in Rocks |-> IF p[r] \in asleep THEN NoSector ELSE p[r]],
                    T2, awake \ asleep, A)
<1> DEFINE q == [r \in Rocks |-> IF p[r] \in asleep THEN NoSector ELSE p[r]]
<1>1. \A s \in Sectors \ asleep : RowIn(T2, s) = RowIn(T, s)
  BY DEF RowIn
<1>2. \A s \in Sectors : s # NoSector
  BY FieldAssumption
<1>3. ASSUME NEW r \in Rocks, NEW s \in Sectors \ (awake \ asleep)
      PROVE  RowIn(T2, s)[r] # Absent
                <=> (s \in asleep /\ p[r] = s) \/ (s \notin awake /\ RowIn(T, s)[r] # Absent)
  BY <1>1
<1>4. ASSUME NEW r \in Rocks
      PROVE  r \in A <=> q[r] # NoSector \/ \E s \in Sectors \ (awake \ asleep) : RowIn(T2, s)[r] # Absent
  BY <1>2, <1>3 DEF HeldOnce
<1>5. ASSUME NEW r \in Rocks, NEW s \in Sectors \ (awake \ asleep),
             NEW t \in Sectors \ (awake \ asleep), RowIn(T2, s)[r] # Absent
      PROVE  q[r] = NoSector /\ (RowIn(T2, t)[r] # Absent => s = t)
  <2>1. CASE p[r] = NoSector
    BY <1>2, <1>3, <1>5, <2>1 DEF HeldOnce
  <2>2. CASE p[r] # NoSector
    <3>1. \A u \in Sectors \ awake : RowIn(T, u)[r] = Absent
      BY <2>2 DEF HeldOnce
    <3>2. \A u \in Sectors \ (awake \ asleep) :
             RowIn(T2, u)[r] # Absent => u \in asleep /\ p[r] = u
      BY <1>3, <3>1
    <3> QED
      BY <1>5, <3>2
  <2> QED
    BY <2>1, <2>2
<1> HIDE DEF q
<1>6. HeldOnce(q, T2, awake \ asleep, A)
  BY <1>4, <1>5 DEF HeldOnce
<1> QED
  BY <1>6 DEF q

LEMMA GrowHeld ==
    ASSUME NEW p \in Places, NEW T \in Rows, NEW awake \in SUBSET Sectors, NEW A,
           HeldOnce(p, T, awake, A), NEW grown \in SUBSET Missing(awake, p, T)
    PROVE  HeldOnce([r \in Rocks |-> IF r \in grown THEN Home[r] ELSE p[r]], T, awake, A \cup grown)
<1>1. \A r \in grown : r \in Slots /\ Home[r] \in Sectors /\ Home[r] # NoSector
  BY FieldAssumption DEF Missing
<1>2. ASSUME NEW r \in grown, NEW s \in Sectors \ awake
      PROVE  RowIn(T, s)[r] = Absent
  <2>1. CASE T[s] = NoRow
    BY <2>1, <1>1 DEF RowIn, FreshRow, Missing, Rocks
  <2>2. CASE T[s] # NoRow
    BY <2>2 DEF RowIn, Missing
  <2> QED
    BY <2>1, <2>2
<1> QED
  BY <1>1, <1>2 DEF HeldOnce

-----------------------------------------------------------------------------
(* An interest update.                                                     *)

LEMMA WantedType ==
    ASSUME TypeOK, NEW pl \in [Pilots -> Sectors \cup {NoSector}]
    PROVE  /\ Wanted(pl) \subseteq Sectors
           /\ ProbeSectors \subseteq Sectors
           /\ GuidedSectors \subseteq Wanted(pl)
           /\ ProbeSectors \subseteq GuidedSectors
<1>1. ASSUME NEW r \in Rocks, r \in Burning \/ r \in probed
      PROVE  pos[r] \in Sectors
  BY <1>1, SentinelAssumption DEF TypeOK, Burning, Conditions, InField
<1>2. ProbeSectors \subseteq Sectors
  BY <1>1 DEF ProbeSectors, TypeOK, InField
<1>3. GuidedSectors \subseteq Sectors
  BY <1>1 DEF GuidedSectors, TypeOK, InField, Burning
<1>4. \A s \in Sectors : Near[s] \subseteq Sectors
  BY FieldAssumption
<1>5. {pl[p] : p \in {q \in Pilots : pl[q] # NoSector}} \subseteq Sectors
  OBVIOUS
<1>6. ProbeSectors \subseteq GuidedSectors
  BY DEF ProbeSectors, GuidedSectors
<1> QED
  BY <1>2, <1>3, <1>4, <1>5, <1>6 DEF Wanted, TypeOK

LEMMA SleptType ==
    ASSUME TypeOK, NEW T \in Rows, NEW asleep \in SUBSET Sectors, NEW awake \in SUBSET Sectors
    PROVE  /\ Slept(T, asleep, awake) \in Rows
           /\ \A s \in asleep : /\ Slept(T, asleep, awake)[s] = SleptRow(s, awake)
                                /\ SleptRow(s, awake) \in Row
           /\ \A s \in Sectors \ asleep : Slept(T, asleep, awake)[s] = T[s]
<1>1. ASSUME NEW s \in Sectors
      PROVE  SleptRow(s, awake) \in Row
  <2>1. RowIn(dormant, s) \in Row
    BY RowType DEF TypeOK, Rows
  <2> QED
    BY <2>1 DEF SleptRow, Row, TypeOK
<1> QED
  BY <1>1 DEF Slept, Rows

LEMMA SleptMembers ==
    ASSUME TypeOK, NEW s \in Sectors, NEW awake \in SUBSET Sectors, NEW r \in Rocks
    PROVE  SleptRow(s, awake)[r] # Absent
              <=> pos[r] = s \/ (s \notin awake /\ RowIn(dormant, s)[r] # Absent)
<1>1. pos[r] = s => cond[r] # Absent
  BY FieldAssumption DEF TypeOK
<1> QED
  BY <1>1 DEF SleptRow

LEMMA UpdateInv ==
    ASSUME IInv, NEW pl \in [Pilots -> Sectors \cup {NoSector}], UpdateFor(pl),
           pilot' \in [Pilots -> Sectors \cup {NoSector}], waiting' \in BOOLEAN, frame' \in Frames
    PROVE  /\ IInv'
           /\ BurningRocksStayAwake => BurningRocksStayAwake'
           /\ SleepersAreHanded => SleepersAreHanded'
<1> DEFINE wanted == Wanted(pl)
           awake  == active \cup ProbeSectors
           asleep == SleepingSectors(awake, wanted)
           stored == Slept(dormant, asleep, awake)
           kept   == [r \in Rocks |-> IF pos[r] \in asleep THEN NoSector ELSE pos[r]]
           woken  == wanted \ awake
           left   == Taken(stored, woken)
           moved  == WokenPos(kept, stored, woken)
           condn  == WokenCond(kept, cond, stored, woken)
<1>0. TypeOK
  BY DEF IInv
<1>1. awake = active /\ active \subseteq Sectors /\ wanted \subseteq Sectors
  BY <1>0, WantedType DEF IInv, TypeOK
<1>2. /\ asleep \subseteq Sectors \ wanted
      /\ active \ asleep = active \cap wanted
      /\ \A s \in Sectors \ wanted : s \notin asleep => s \notin active
      /\ \A r \in Rocks : pos[r] # NoSector /\ pos[r] \notin wanted => pos[r] \in asleep
  BY <1>0, <1>1 DEF SleepingSectors, InField, TypeOK
<1>3. ASSUME NEW T \in Rows
      PROVE  /\ Slept(T, asleep, awake) \in Rows
             /\ \A s \in asleep : /\ Slept(T, asleep, awake)[s] = SleptRow(s, active)
                                  /\ Slept(T, asleep, awake)[s] # NoRow
             /\ \A s \in Sectors \ asleep : Slept(T, asleep, awake)[s] = T[s]
  <2>1. asleep \in SUBSET Sectors /\ awake \in SUBSET Sectors
    BY <1>1, <1>2
  <2> HIDE DEF asleep, awake
  <2>2. /\ Slept(T, asleep, awake) \in Rows
        /\ \A s \in asleep : /\ Slept(T, asleep, awake)[s] = SleptRow(s, awake)
                             /\ SleptRow(s, awake) \in Row
        /\ \A s \in Sectors \ asleep : Slept(T, asleep, awake)[s] = T[s]
    BY <1>0, <2>1, SleptType
  <2>3. awake = active
    BY <1>1
  <2> QED
    BY <2>2, <2>3, RowIsNotNoRow
<1>31. dormant \in Rows /\ changed \in Rows /\ pos \in Places
  BY <1>0 DEF TypeOK, Rows, Places
<1>32. stored \in Rows /\ left \in Rows /\ kept \in Places
  <2>1. stored \in Rows
    BY <1>3, <1>31
  <2>2. woken \in SUBSET Sectors
    BY <1>1
  <2>3. left \in Rows
    <3> HIDE DEF stored, woken
    <3> QED
      BY <2>1, <2>2, TakenType
  <2>4. kept \in Places
    BY <1>31 DEF Places
  <2> QED
    BY <2>1, <2>3, <2>4
<1>4. PICK grown \in SUBSET Missing(wanted, moved, left) :
        /\ pos' = [r \in Rocks |-> IF r \in grown THEN Home[r] ELSE moved[r]]
        /\ cond' = [r \in Rocks |-> IF r \in grown THEN "intact" ELSE condn[r]]
        /\ dormant' = left
        /\ changed' = Slept(changed, asleep, awake)
        /\ flushed' = [s \in Sectors |-> IF s \in asleep THEN NoRow ELSE flushed[s]]
        /\ active' = wanted
        /\ powered' = {}
        /\ alive' = alive \cup grown
        /\ UNCHANGED <<probed, checkpoints, fullFlush, inflight, db, dbAlive, lag, late>>
  BY DEF UpdateFor
<1>5. \A r \in grown : r \in Slots /\ Home[r] \in Sectors /\ Home[r] # NoSector
  <2>1. grown \subseteq Missing(wanted, moved, left)
    OBVIOUS
  <2> HIDE DEF wanted, moved, left
  <2>2. grown \subseteq Slots
    BY <2>1 DEF Missing
  <2> QED BY <2>2, FieldAssumption
<1>6. /\ moved \in Places
      /\ condn \in [Rocks -> Conditions \cup {Absent}]
      /\ \A r \in Rocks : condn[r] = Absent <=> moved[r] = NoSector
      /\ \A r \in Rocks : kept[r] # NoSector => moved[r] = kept[r]
  <2>1. \A r \in Rocks : kept[r] # NoSector => cond[r] # Absent
    BY <1>0 DEF TypeOK
  <2>2. woken \in SUBSET Sectors
    BY <1>1
  <2>3. cond \in [Rocks -> Conditions \cup {Absent}]
    BY <1>0 DEF TypeOK
  <2> HIDE DEF kept, stored, woken
  <2> QED
    BY <1>32, <2>1, <2>2, <2>3, WakeType
<1>7. ProbeSectors \subseteq wanted
  BY <1>0, WantedType
<1>8. \A r \in probed : r \in Rocks /\ pos[r] \in wanted /\ moved[r] = pos[r] /\ r \notin grown
  <2>1. \A r \in probed : r \in Rocks /\ pos[r] \in wanted /\ pos[r] # NoSector
    BY <1>0, <1>7 DEF TypeOK, InField, ProbeSectors
  <2>2. \A r \in probed : kept[r] = pos[r]
    BY <2>1, <1>2
  <2>3. \A r \in grown : moved[r] = NoSector
    BY DEF Missing
  <2> QED
    BY <2>1, <2>2, <2>3, <1>6
<1>9. MemoryHoldsEachRockOnce'
  <2>1. HeldOnce(kept, stored, active \ asleep, alive)
    <3>1. \A s \in Sectors \ asleep : stored[s] = dormant[s]
      BY <1>3, <1>31
    <3>2. ASSUME NEW s \in asleep, NEW r \in Rocks
          PROVE  RowIn(stored, s)[r] # Absent
                    <=> pos[r] = s \/ (s \notin active /\ RowIn(dormant, s)[r] # Absent)
      <4>1. stored[s] = SleptRow(s, active) /\ stored[s] # NoRow
        BY <1>3, <1>31
      <4>2. s \in Sectors /\ active \in SUBSET Sectors
        BY <1>1, <1>2
      <4>3. SleptRow(s, active)[r] # Absent
              <=> pos[r] = s \/ (s \notin active /\ RowIn(dormant, s)[r] # Absent)
        BY <1>0, <4>2, SleptMembers
      <4> HIDE DEF stored, asleep
      <4> QED
        BY <4>1, <4>3 DEF RowIn
    <3>3. HeldOnce(pos, dormant, active, alive)
      BY DEF IInv, MemoryHoldsEachRockOnce
    <3>4. active \in SUBSET Sectors /\ asleep \in SUBSET Sectors
      BY <1>1, <1>2
    <3> HIDE DEF stored, asleep
    <3> QED
      BY <3>1, <3>2, <3>3, <3>4, <1>31, <1>32, SleepHeld
  <2>2. woken \in SUBSET (Sectors \ (active \ asleep)) /\ (active \ asleep) \cup woken = wanted
    BY <1>1, <1>2
  <2>3. HeldOnce(moved, left, wanted, alive)
    <3> HIDE DEF kept, stored, woken, asleep, wanted
    <3> QED
      BY <2>1, <2>2, <1>1, <1>32, WakeHeld
  <2>4. HeldOnce(pos', left, wanted, alive \cup grown)
    <3> HIDE DEF moved, left, wanted
    <3> QED
      BY <2>3, <1>1, <1>32, <1>4, <1>6, GrowHeld
  <2> QED
    BY <2>4, <1>4 DEF MemoryHoldsEachRockOnce
<1>10. TypeOK'
  <2>1. pos' \in [Rocks -> Sectors \cup {NoSector}] /\ cond' \in [Rocks -> Conditions \cup {Absent}]
    BY <1>4, <1>5, <1>6 DEF Places, Conditions
  <2>2. \A r \in Rocks : cond'[r] = Absent <=> pos'[r] = NoSector
    BY <1>4, <1>5, <1>6, SentinelAssumption DEF Conditions
  <2>3. probed' \subseteq InField'
    BY <1>0, <1>1, <1>4, <1>8, FieldAssumption DEF InField
  <2>4. changed' \in [Sectors -> Row \cup {NoRow}] /\ dormant' \in [Sectors -> Row \cup {NoRow}]
    BY <1>3, <1>31, <1>32, <1>4 DEF Rows
  <2>5. flushed' \in [Sectors -> (SUBSET Rocks) \cup {NoRow}]
    BY <1>0, <1>4 DEF TypeOK
  <2>6. alive' \subseteq Rocks
    BY <1>0, <1>4, <1>5 DEF TypeOK, Rocks
  <2>7. active' \subseteq Sectors /\ powered' \subseteq Sectors
    BY <1>1, <1>4
  <2> QED
    BY <2>1, <2>2, <2>3, <2>4, <2>5, <2>6, <2>7, <1>0, <1>4 DEF TypeOK, Frames
<1>11. ProbeSectors' \subseteq active'
  BY <1>4, <1>8 DEF ProbeSectors
<1>12. BatchesTrackMemory'
  <2>1. Handed' = Handed
    BY <1>4 DEF Handed, Idle
  <2>2. ASSUME NEW s \in Sectors
        PROVE  /\ s \in active' => dormant'[s] = NoRow
               /\ s \notin active' => flushed'[s] = NoRow
               /\ s \notin active' => IF changed'[s] = NoRow
                              THEN Members(RowIn(Handed, s)) = Members(RowIn(dormant', s))
                              ELSE changed'[s] = dormant'[s]
               /\ flushed'[s] # NoRow => changed'[s] = NoRow /\ Members(RowIn(Handed, s)) = flushed'[s]
    <3>0. /\ s \in active => dormant[s] = NoRow
          /\ s \notin active => flushed[s] = NoRow
          /\ s \notin active => IF changed[s] = NoRow
                              THEN Members(RowIn(Handed, s)) = Members(RowIn(dormant, s))
                              ELSE changed[s] = dormant[s]
          /\ flushed[s] # NoRow => changed[s] = NoRow /\ Members(RowIn(Handed, s)) = flushed[s]
      BY DEF IInv, BatchesTrackMemory
    <3>1. s \notin asleep => stored[s] = dormant[s] /\ changed'[s] = changed[s] /\ flushed'[s] = flushed[s]
      BY <1>3, <1>31, <1>4
    <3>2. s \in asleep => stored[s] = changed'[s] /\ changed'[s] # NoRow /\ flushed'[s] = NoRow
      BY <1>2, <1>3, <1>31, <1>4
    <3>3. dormant'[s] = IF s \in woken THEN NoRow ELSE stored[s]
      BY <1>4 DEF Taken
    <3>4. CASE s \in wanted
      BY <3>0, <3>1, <3>3, <3>4, <1>1, <1>2, <1>4
    <3>5. CASE s \notin wanted /\ s \in asleep
      BY <3>2, <3>3, <3>5, <1>4
    <3>6. CASE s \notin wanted /\ s \notin asleep
      <4>1. s \notin active /\ dormant'[s] = dormant[s]
        BY <3>1, <3>3, <3>6, <1>2
      <4>2. RowIn(dormant', s) = RowIn(dormant, s)
        BY <4>1 DEF RowIn
      <4> QED
        BY <3>0, <3>1, <3>6, <4>1, <4>2, <1>4
    <3> QED
      BY <3>4, <3>5, <3>6
  <2> QED
    BY <2>1, <2>2 DEF BatchesTrackMemory
<1>13. DatabaseHoldsEachRockOnce' /\ ExactlyOnce(Handed, HandedAlive)'
  BY <1>4 DEF IInv, DatabaseHoldsEachRockOnce, ExactlyOnce, RowIn, Handed, HandedAlive, Idle
<1>14. ASSUME NEW s \in Sectors \ wanted
       PROVE  /\ s \notin woken
              /\ s \in asleep => /\ RowIn(dormant', s) = SleptRow(s, active)
                                 /\ changed'[s] # NoRow
              /\ s \notin asleep => /\ RowIn(dormant', s) = RowIn(dormant, s)
                                    /\ changed'[s] = changed[s] /\ s \notin active
  <2>1. s \notin woken
    OBVIOUS
  <2>2. dormant'[s] = stored[s]
    BY <1>4, <2>1 DEF Taken
  <2>3. /\ s \in asleep => stored[s] = SleptRow(s, active) /\ stored[s] # NoRow /\ changed'[s] # NoRow
        /\ s \notin asleep => stored[s] = dormant[s] /\ changed'[s] = changed[s]
    BY <1>3, <1>31, <1>4
  <2>4. s \notin asleep => s \notin active
    BY <1>2
  <2> HIDE DEF stored, asleep, wanted
  <2> QED
    BY <2>1, <2>2, <2>3, <2>4 DEF RowIn
<1>15. ASSUME BurningRocksStayAwake
       PROVE  BurningRocksStayAwake'
  <2> SUFFICES ASSUME NEW s \in Sectors \ wanted, NEW r \in Rocks
               PROVE  RowIn(dormant', s)[r] # "burning"
    BY <1>4 DEF BurningRocksStayAwake, RowIn
  <2>1. pos[r] = s => cond[r] # "burning"
    BY <1>0, WantedType DEF GuidedSectors, Burning
  <2>2. s \notin active => RowIn(dormant, s)[r] # "burning"
    BY <1>15 DEF BurningRocksStayAwake, Wanted
  <2>3. CASE s \in asleep
    <3>1. SleptRow(s, active)[r] = IF pos[r] = s THEN cond[r] ELSE IF s \in active THEN Absent
                                   ELSE RowIn(dormant, s)[r]
      BY DEF SleptRow
    <3>2. RowIn(dormant', s) = SleptRow(s, active)
      BY <1>14, <2>3
    <3> HIDE DEF asleep, wanted
    <3> QED
      BY <2>1, <2>2, <3>1, <3>2, SentinelAssumption DEF Conditions
  <2>4. CASE s \notin asleep
    <3> HIDE DEF asleep, wanted
    <3> QED
      BY <1>14, <2>2, <2>4
  <2> QED
    BY <2>3, <2>4
<1>16. ASSUME SleepersAreHanded
       PROVE  SleepersAreHanded'
  <2>1. Handed' = Handed
    BY <1>4 DEF Handed, Idle
  <2>2. ASSUME NEW s \in Sectors \ wanted, changed'[s] = NoRow
        PROVE  RowIn(Handed', s) = RowIn(dormant', s)
    <3> HIDE DEF asleep, wanted
    <3> QED
      BY <1>14, <1>16, <2>1, <2>2 DEF SleepersAreHanded
  <2> HIDE DEF wanted
  <2> QED
    BY <1>4, <2>2 DEF SleepersAreHanded
<1> QED
  BY <1>9, <1>10, <1>11, <1>12, <1>13, <1>15, <1>16 DEF IInv

-----------------------------------------------------------------------------
(* A flush.                                                                *)

\* A table agreeing with memory on which rocks each sector has, where every
\* simulated rock is in an awake sector, holds each rock once.
LEMMA AgreementHoldsOnce ==
    ASSUME NEW p \in Places, NEW T, NEW awake \in SUBSET Sectors, NEW A, NEW D,
           HeldOnce(p, T, awake, A),
           \A r \in Rocks : p[r] # NoSector => p[r] \in awake,
           \A s \in awake : \A r \in Rocks : RowIn(D, s)[r] # Absent <=> p[r] = s,
           \A s \in Sectors \ awake : \A r \in Rocks :
              RowIn(D, s)[r] # Absent <=> RowIn(T, s)[r] # Absent
    PROVE  ExactlyOnce(D, A)
<1>1. \A s \in Sectors : s # NoSector
  BY FieldAssumption
<1>2. ASSUME NEW r \in Rocks
      PROVE  (\E s \in Sectors : RowIn(D, s)[r] # Absent) <=> r \in A
  BY <1>1 DEF HeldOnce
<1>3. ASSUME NEW r \in Rocks, NEW s \in Sectors, NEW t \in Sectors,
             RowIn(D, s)[r] # Absent, RowIn(D, t)[r] # Absent
      PROVE  s = t
  <2>1. CASE p[r] = NoSector
    BY <1>1, <1>3, <2>1 DEF HeldOnce
  <2>2. CASE p[r] # NoSector
    BY <1>3, <2>2 DEF HeldOnce
  <2> QED
    BY <2>1, <2>2
<1> QED
  BY <1>2, <1>3 DEF ExactlyOnce

\* The count of batches between full ones.
LEMMA Cadence ==
    ASSUME NEW d \in Nat \ {0}, NEW c \in 0 .. d - 1
    PROVE  (c + 1) % d = IF c = d - 1 THEN 0 ELSE c + 1
<1>1. \A n \in Nat, f \in Nat \ {0} :
          n \div f \in Nat /\ n % f \in 0 .. f - 1 /\ (n \div f) * f + (n % f) = n
  OBVIOUS
<1>2. c + 1 \in Nat /\ d \in Nat \ {0} /\ c \in Nat
  OBVIOUS
<1>3. /\ (c + 1) \div d \in Nat /\ (c + 1) % d \in 0 .. d - 1
      /\ ((c + 1) \div d) * d + ((c + 1) % d) = c + 1
  BY <1>1, <1>2
<1> DEFINE q == (c + 1) \div d
           m == (c + 1) % d
<1>4. q \in Nat /\ m \in 0 .. d - 1 /\ q * d + m = c + 1 /\ q * d \in Nat
  BY <1>3, <1>2
<1> HIDE DEF q, m
<1>5. q >= 2 => q * d >= d + d
  BY <1>4
<1>6. q \in {0, 1}
  BY <1>4, <1>5
<1>7. m = IF c = d - 1 THEN 0 ELSE c + 1
  BY <1>4, <1>6
<1> QED
  BY <1>7 DEF m

LEMMA FlushInv ==
    ASSUME IInv, NEW full \in BOOLEAN, Flush(full),
           pilot' \in [Pilots -> Sectors \cup {NoSector}], waiting' \in BOOLEAN, frame' \in Frames
    PROVE  /\ IInv'
           /\ BurningRocksStayAwake => BurningRocksStayAwake'
           /\ SleepersAreHanded => SleepersAreHanded'
           /\ LagIsCounted => LagIsCounted'
           /\ full /\ SleepersAreHanded => \A s \in Sectors : RowIn(Handed', s) = World'[s]
<1> DEFINE woken  == Crossings
           moved  == WokenPos(pos, dormant, woken)
           condn  == WokenCond(pos, cond, dormant, woken)
           awake  == active \cup woken \cup ProbeSectors
           asleep == {moved[r] : r \in {q \in Rocks : moved[q] # NoSector}} \ awake
           left   == Taken(dormant, woken)
           slept(s) == [r \in Rocks |-> IF moved[r] = s THEN condn[r] ELSE RowIn(left, s)[r]]
           row(s) == [r \in Rocks |-> IF moved[r] = s THEN condn[r] ELSE Absent]
           written == {s \in awake : DriftDue(full) \/ MembershipChanged(s, row(s))}
           rows   == [s \in Sectors |-> IF s \in written THEN row(s)
                                        ELSE IF s \in asleep THEN slept(s)
                                        ELSE changed[s]]
<1>0. TypeOK
  BY DEF IInv
<1>1. /\ Idle
      /\ pos' = [r \in Rocks |-> IF moved[r] \in asleep THEN NoSector ELSE moved[r]]
      /\ cond' = [r \in Rocks |-> IF moved[r] \in asleep THEN Absent ELSE condn[r]]
      /\ active' = awake
      /\ dormant' = [s \in Sectors |-> IF s \in asleep THEN slept(s) ELSE left[s]]
      /\ changed' = NoRows
      /\ flushed' = [s \in Sectors |-> IF s \in asleep THEN NoRow
                                       ELSE IF s \in written THEN Members(row(s))
                                       ELSE flushed[s]]
      /\ checkpoints' = (checkpoints + 1) % DriftFlush
      /\ fullFlush' = FALSE
      /\ inflight' = [rows |-> rows, alive |-> alive]
      /\ lag' = [r \in Rocks |->
                   IF \E s \in Sectors : rows[s] # NoRow /\ rows[s][r] # Absent THEN 0
                   ELSE IF moved[r] \in awake /\ RowIn(Handed, moved[r])[r] # condn[r]
                   THEN lag[r] + 1 ELSE 0]
      /\ late' = FALSE
      /\ UNCHANGED <<probed, powered, db, alive, dbAlive>>
  BY DEF Flush
<1>2. /\ dormant \in Rows /\ changed \in Rows /\ pos \in Places
      /\ cond \in [Rocks -> Conditions \cup {Absent}]
      /\ active \in SUBSET Sectors
      /\ \A r \in Rocks : cond[r] = Absent <=> pos[r] = NoSector
  BY <1>0 DEF TypeOK, Rows, Places
<1>3. woken \in SUBSET (Sectors \ active)
  BY <1>2, SentinelAssumption DEF Crossings, Burning, Places, Conditions
<1>4. awake = active \cup woken /\ awake \in SUBSET Sectors
  BY <1>2, <1>3 DEF IInv
<1>5. /\ moved \in Places
      /\ condn \in [Rocks -> Conditions \cup {Absent}]
      /\ \A r \in Rocks : condn[r] = Absent <=> moved[r] = NoSector
      /\ \A r \in Rocks : pos[r] # NoSector => moved[r] = pos[r]
  <2>1. woken \in SUBSET Sectors /\ \A r \in Rocks : pos[r] # NoSector => cond[r] # Absent
    BY <1>2, <1>3
  <2> HIDE DEF woken
  <2> QED
    BY <1>2, <2>1, WakeType
<1>6. left \in Rows /\ \A s \in Sectors \ woken : RowIn(left, s) = RowIn(dormant, s)
  <2> HIDE DEF woken
  <2> QED
    BY <1>2, <1>3, TakenType
<1>7. /\ asleep \in SUBSET Sectors /\ asleep \cap awake = {}
      /\ \A r \in Rocks : moved[r] # NoSector /\ moved[r] \notin asleep => moved[r] \in awake
  <2> HIDE DEF moved, awake
  <2> QED
    BY <1>5 DEF Places
<1>8. ASSUME NEW s \in Sectors
      PROVE  /\ row(s) \in Row /\ slept(s) \in Row
             /\ row(s) # NoRow /\ slept(s) # NoRow
             /\ \A r \in Rocks : row(s)[r] # Absent <=> moved[r] = s
             /\ \A r \in Rocks : slept(s)[r] # Absent <=> moved[r] = s \/ RowIn(left, s)[r] # Absent
  <2>1. RowIn(left, s) \in Row
    BY <1>6, RowType
  <2>2. s # NoSector
    BY FieldAssumption
  <2> HIDE DEF moved, condn, left
  <2>3. row(s) \in Row /\ slept(s) \in Row
    BY <2>1, <1>5 DEF Row
  <2>4. /\ \A r \in Rocks : row(s)[r] # Absent <=> moved[r] = s
        /\ \A r \in Rocks : slept(s)[r] # Absent <=> moved[r] = s \/ RowIn(left, s)[r] # Absent
    BY <2>2, <1>5
  <2> QED
    BY <2>3, <2>4, RowIsNotNoRow
<1>9. rows \in Rows /\ dormant' \in Rows
  <2>1. /\ \A s \in Sectors : row(s) \in Row /\ slept(s) \in Row
        /\ changed \in Rows /\ left \in Rows
    BY <1>2, <1>6, <1>8
  <2> HIDE DEF row, slept, written, asleep, left
  <2> QED
    BY <2>1, <1>1 DEF Rows
<1>10. inflight' \in Batch /\ ~Idle' /\ Handed' = Overlay(db, rows) /\ HandedAlive' = alive /\ Handed = db
  <2>1. alive \subseteq Rocks
    BY <1>0 DEF TypeOK
  <2>2. inflight' = [rows |-> rows, alive |-> alive]
    BY <1>1
  <2> HIDE DEF rows
  <2>3. inflight' # NoBatch
    BY <2>1, <2>2, <1>9, SentinelAssumption DEF Rows, Row
  <2> QED
    BY <2>1, <2>2, <2>3, <1>1, <1>9 DEF Batch, Rows, Handed, HandedAlive, Idle
<1>11. pos' \in Places /\ \A r \in Rocks : pos'[r] # NoSector => pos'[r] = moved[r] /\ pos'[r] \in awake
  <2> HIDE DEF moved, asleep, awake
  <2> QED
    BY <1>1, <1>5, <1>7 DEF Places
<1>12. HeldOnce(pos', dormant', awake, alive)
  <2>1. HeldOnce(moved, left, awake, alive)
    <3>1. HeldOnce(pos, dormant, active, alive)
      BY DEF IInv, MemoryHoldsEachRockOnce
    <3> HIDE DEF woken
    <3> QED
      BY <3>1, <1>2, <1>3, <1>4, WakeHeld
  <2>2. /\ \A s \in Sectors \ asleep : dormant'[s] = left[s]
        /\ \A s \in asleep : dormant'[s] = slept(s)
    BY <1>1, <1>7
  <2>3. ASSUME NEW s \in asleep, NEW r \in Rocks
        PROVE  RowIn(dormant', s)[r] # Absent
                  <=> moved[r] = s \/ (s \notin awake /\ RowIn(left, s)[r] # Absent)
    <3>1. s \in Sectors /\ s \notin awake
      BY <1>7
    <3>2. RowIn(dormant', s) = slept(s)
      <4> HIDE DEF slept
      <4> QED
        BY <2>2, <3>1, <1>8 DEF RowIn
    <3> QED
      BY <3>1, <3>2, <1>8
  <2>4. awake \ asleep = awake
    BY <1>7
  <2>6. moved \in Places /\ left \in Rows /\ awake \in SUBSET Sectors /\ asleep \in SUBSET Sectors
    BY <1>4, <1>5, <1>6, <1>7
  <2> HIDE DEF moved, left, awake, asleep, slept
  <2>5. HeldOnce([r \in Rocks |-> IF moved[r] \in asleep THEN NoSector ELSE moved[r]],
                 dormant', awake \ asleep, alive)
    BY <2>1, <2>2, <2>3, <2>6, <1>9, SleepHeld
  <2> QED
    BY <2>4, <2>5, <1>1
<1>13. ASSUME NEW s \in Sectors
       PROVE  /\ s \in awake => dormant'[s] = NoRow
              /\ s \notin awake => Members(RowIn(Handed', s)) = Members(RowIn(dormant', s))
              /\ s \in awake => Members(RowIn(Handed', s)) = Members(row(s))
              /\ s \in awake => flushed'[s] = Members(row(s))
              /\ s \notin awake => flushed'[s] = NoRow
  <2>1. RowIn(Handed', s) = IF rows[s] = NoRow THEN RowIn(db, s) ELSE rows[s]
    BY <1>10 DEF Overlay, RowIn
  <2>2. /\ s \in active => dormant[s] = NoRow
        /\ s \notin active => flushed[s] = NoRow
        /\ s \notin active => IF changed[s] = NoRow
                              THEN Members(RowIn(db, s)) = Members(RowIn(dormant, s))
                              ELSE changed[s] = dormant[s]
        /\ flushed[s] # NoRow => changed[s] = NoRow /\ Members(RowIn(db, s)) = flushed[s]
    BY <1>10 DEF IInv, BatchesTrackMemory
  <2>3. row(s) # NoRow /\ slept(s) # NoRow
    BY <1>8
  <2>4. Members(row(s)) # NoRow
    <3>1. Members(row(s)) \in SUBSET Rocks
      BY DEF Members
    <3> QED
      BY <3>1, SentinelAssumption
  <2>5. left[s] = IF s \in woken THEN NoRow ELSE dormant[s]
    BY DEF Taken
  <2> HIDE DEF row, slept, left, moved, condn
  <2>6. /\ rows[s] = IF s \in written THEN row(s) ELSE IF s \in asleep THEN slept(s) ELSE changed[s]
        /\ dormant'[s] = IF s \in asleep THEN slept(s) ELSE left[s]
        /\ flushed'[s] = IF s \in asleep THEN NoRow
                         ELSE IF s \in written THEN Members(row(s)) ELSE flushed[s]
    BY <1>1
  <2>7. CASE s \in written
    <3>1. s \in awake /\ s \notin asleep
      BY <2>7, <1>7
    <3> HIDE DEF rows, written, awake, asleep, woken
    <3> QED
      BY <2>1, <2>2, <2>3, <2>5, <2>6, <2>7, <3>1, <1>4
  <2>8. CASE s \in awake /\ s \notin written
    <3>1. flushed[s] = Members(row(s)) /\ s \notin asleep
      BY <2>8, <1>7 DEF MembershipChanged
    <3> HIDE DEF rows, written, awake, asleep, woken
    <3>2. s \in active /\ changed[s] = NoRow /\ Members(RowIn(db, s)) = flushed[s]
      BY <2>2, <2>4, <3>1
    <3> QED
      BY <2>1, <2>2, <2>5, <2>6, <2>8, <3>1, <3>2
  <2>9. CASE s \in asleep
    <3>1. s \notin awake /\ s \notin written
      BY <2>9, <1>7
    <3> HIDE DEF rows, written, awake, asleep, woken
    <3>2. RowIn(Handed', s) = slept(s) /\ RowIn(dormant', s) = slept(s)
      BY <2>1, <2>3, <2>6, <2>9, <3>1 DEF RowIn
    <3> QED
      BY <2>6, <2>9, <3>1, <3>2
  <2>10. CASE s \notin awake /\ s \notin asleep
    <3>1. s \notin written /\ s \notin active /\ s \notin woken
      BY <2>10
    <3> HIDE DEF rows, written, awake, asleep, woken
    <3>2. rows[s] = changed[s] /\ dormant'[s] = dormant[s] /\ flushed'[s] = NoRow
      BY <2>2, <2>5, <2>6, <2>10, <3>1
    <3>3. RowIn(dormant', s) = RowIn(dormant, s)
      BY <3>2 DEF RowIn
    <3>4. CASE changed[s] = NoRow
      BY <2>1, <2>2, <2>10, <3>1, <3>2, <3>3, <3>4
    <3>5. CASE changed[s] # NoRow
      <4>1. RowIn(dormant, s) = changed[s]
        <5>1. changed[s] = dormant[s]
          BY <2>2, <3>1, <3>5, Zenon
        <5> QED
          BY <3>5, <5>1, Zenon DEF RowIn
      <4> QED
        BY <2>1, <2>10, <3>2, <3>3, <3>5, <4>1
    <3> QED
      BY <3>4, <3>5
  <2> QED
    BY <2>7, <2>8, <2>9, <2>10
<1>14. ExactlyOnce(Handed, HandedAlive)'
  <2>1. ASSUME NEW s \in awake, NEW r \in Rocks
        PROVE  RowIn(Handed', s)[r] # Absent <=> pos'[r] = s
    <3>1. Members(RowIn(Handed', s)) = Members(row(s)) /\ s \in Sectors
      BY <1>4, <1>13
    <3>2. pos'[r] = s <=> moved[r] = s
      <4>1. s \notin asleep /\ s # NoSector
        BY <1>7, <3>1, FieldAssumption
      <4> HIDE DEF moved, asleep
      <4> QED
        BY <1>1, <4>1
    <3>3. row(s)[r] # Absent <=> moved[r] = s
      BY <1>8, <3>1
    <3> HIDE DEF row, moved
    <3> QED
      BY <3>1, <3>2, <3>3 DEF Members
  <2>2. ASSUME NEW s \in Sectors \ awake, NEW r \in Rocks
        PROVE  RowIn(Handed', s)[r] # Absent <=> RowIn(dormant', s)[r] # Absent
    <3>1. Members(RowIn(Handed', s)) = Members(RowIn(dormant', s))
      BY <1>13
    <3> QED
      BY <3>1 DEF Members
  <2>3. ExactlyOnce(Handed', alive)
    <3> HIDE DEF awake
    <3> QED
      BY <2>1, <2>2, <1>4, <1>11, <1>12, AgreementHoldsOnce
  <2> QED
    BY <2>3, <1>10 DEF ExactlyOnce, RowIn
<1>15. BatchesTrackMemory'
  <2>1. active' = awake /\ \A s \in Sectors : changed'[s] = NoRow
    BY <1>1 DEF NoRows
  <2> HIDE DEF awake, row
  <2> QED
    BY <2>1, <1>13 DEF BatchesTrackMemory
<1>16. MemoryHoldsEachRockOnce'
  BY <1>1, <1>12 DEF MemoryHoldsEachRockOnce
<1>17. DatabaseHoldsEachRockOnce'
  BY <1>1 DEF IInv, DatabaseHoldsEachRockOnce, ExactlyOnce, RowIn
<1>18. \A r \in probed : r \in Rocks /\ pos'[r] = pos[r] /\ pos[r] \in awake /\ pos[r] # NoSector
  <2>1. ASSUME NEW r \in probed
        PROVE  r \in Rocks /\ pos[r] \in awake /\ pos[r] # NoSector
    BY <1>0 DEF TypeOK, InField, ProbeSectors
  <2>2. \A r \in probed : moved[r] = pos[r] /\ moved[r] \notin asleep
    BY <2>1, <1>5, <1>7
  <2> HIDE DEF moved, asleep, awake
  <2> QED
    BY <2>1, <2>2, <1>1
<1>19. ProbeSectors' \subseteq active'
  BY <1>1, <1>18 DEF ProbeSectors
<1>20. TypeOK'
  <2>1. \A r \in Rocks : cond'[r] = Absent <=> pos'[r] = NoSector
    <3> HIDE DEF moved, condn, asleep
    <3> QED
      BY <1>1, <1>5
  <2>2. cond' \in [Rocks -> Conditions \cup {Absent}]
    <3> HIDE DEF moved, condn, asleep
    <3> QED
      BY <1>1, <1>5
  <2>3. probed' \subseteq InField'
    BY <1>1, <1>18 DEF InField
  <2>4. flushed' \in [Sectors -> (SUBSET Rocks) \cup {NoRow}]
    <3>1. flushed \in [Sectors -> (SUBSET Rocks) \cup {NoRow}] /\ \A s \in Sectors : Members(row(s)) \in SUBSET Rocks
      BY <1>0 DEF TypeOK, Members
    <3> HIDE DEF row, written, asleep
    <3> QED
      BY <1>1, <3>1
  <2>5. checkpoints' \in 0 .. DriftFlush - 1
    <3>1. checkpoints \in Nat /\ DriftFlush \in Nat \ {0}
      BY <1>0, FieldAssumption DEF TypeOK
    <3> QED
      BY <1>1, <3>1
  <2>6. lag' \in [Rocks -> Nat]
    <3>1. lag \in [Rocks -> Nat]
      BY <1>0 DEF TypeOK
    <3> HIDE DEF rows, moved, condn, awake
    <3> QED
      BY <1>1, <3>1
  <2>7. changed' \in [Sectors -> Row \cup {NoRow}] /\ dormant' \in [Sectors -> Row \cup {NoRow}]
    BY <1>1, <1>9 DEF Rows, NoRows
  <2>8. pos' \in [Rocks -> Sectors \cup {NoSector}] /\ active' \subseteq Sectors
    BY <1>1, <1>4, <1>11 DEF Places
  <2> HIDE DEF rows, moved, condn, awake, asleep, left, slept, row, written
  <2> QED
    BY <2>1, <2>2, <2>3, <2>4, <2>5, <2>6, <2>7, <2>8, <1>0, <1>1, <1>10 DEF TypeOK
\* A rock that burns is in an awake sector.
<1>21. \A r \in Rocks : condn[r] = "burning" /\ pos[r] # NoSector => moved[r] \in awake
  <2>1. \A r \in Rocks : pos[r] # NoSector => moved[r] = pos[r] /\ condn[r] = cond[r]
    BY <1>5 DEF WokenCond
  <2>2. \A r \in Burning : pos[r] \in active \cup Crossings
    BY DEF Crossings
  <2> HIDE DEF moved, condn
  <2> QED
    BY <2>1, <2>2 DEF Burning
<1>22. \A r \in Rocks : moved[r] \in asleep => pos[r] = moved[r]
  <2>1. ASSUME NEW r \in Rocks, pos[r] = NoSector
        PROVE  moved[r] \in awake \cup {NoSector}
    <3>1. Entered(r, dormant, woken) # {} => moved[r] = EntrySector(r, dormant, woken)
      BY <2>1 DEF WokenPos
    <3>2. Entered(r, dormant, woken) = {} => moved[r] = NoSector
      BY <2>1 DEF WokenPos
    <3> HIDE DEF woken, moved
    <3> QED
      BY <3>1, <3>2, <1>4, EntryFromRow
  <2>2. NoSector \notin asleep
    BY <1>7, FieldAssumption
  <2> HIDE DEF moved, awake, asleep
  <2> QED
    BY <1>5, <1>7, <2>1, <2>2
<1>23. ASSUME NEW s \in Sectors \ awake
       PROVE  /\ s \notin active /\ RowIn(left, s) = RowIn(dormant, s)
              /\ s \in asleep => dormant'[s] = slept(s) /\ rows[s] = slept(s)
              /\ s \notin asleep => dormant'[s] = dormant[s] /\ rows[s] = changed[s]
  <2>1. s \notin active /\ s \notin woken /\ s \notin written
    BY <1>4
  <2>2. left[s] = dormant[s]
    BY <2>1 DEF Taken
  <2> HIDE DEF awake, asleep, written, left, slept, row, woken
  <2> QED
    BY <1>1, <1>6, <2>1, <2>2
<1>24. ASSUME BurningRocksStayAwake
       PROVE  BurningRocksStayAwake'
  <2> SUFFICES ASSUME NEW s \in Sectors \ awake, NEW r \in Rocks,
                      RowIn(dormant', s)[r] = "burning"
               PROVE  s \in powered
    BY <1>1 DEF BurningRocksStayAwake, RowIn
  <2>1. CASE s \in asleep
    <3>1. RowIn(dormant', s) = slept(s)
      <4> HIDE DEF slept, awake, asleep
      <4> QED
        BY <1>8, <1>23, <2>1 DEF RowIn
    <3>2. moved[r] # s
      <4>1. moved[r] = s => pos[r] = s /\ s # NoSector /\ condn[r] = "burning"
        BY <1>22, <2>1, <3>1, FieldAssumption
      <4> HIDE DEF moved, condn, awake
      <4> QED
        BY <1>21, <4>1
    <3>3. RowIn(dormant, s)[r] = "burning"
      BY <1>23, <3>1, <3>2
    <3> HIDE DEF awake
    <3> QED
      BY <1>23, <1>24, <3>3 DEF BurningRocksStayAwake
  <2>2. CASE s \notin asleep
    <3> HIDE DEF awake, asleep
    <3> QED
      BY <1>23, <1>24, <2>2 DEF BurningRocksStayAwake, RowIn
  <2> QED
    BY <2>1, <2>2
<1>25. ASSUME SleepersAreHanded, NEW s \in Sectors \ awake
       PROVE  RowIn(Handed', s) = RowIn(dormant', s)
  <2>1. RowIn(Handed', s) = IF rows[s] = NoRow THEN RowIn(db, s) ELSE rows[s]
    BY <1>10 DEF Overlay, RowIn
  <2>2. changed[s] # NoRow => changed[s] = dormant[s]
    BY <1>23 DEF IInv, BatchesTrackMemory
  <2>3. changed[s] = NoRow => RowIn(db, s) = RowIn(dormant, s)
    BY <1>10, <1>23, <1>25 DEF SleepersAreHanded
  <2>4. s \in asleep => /\ dormant'[s] = slept(s) /\ rows[s] = slept(s)
                        /\ slept(s) # NoRow
    BY <1>8, <1>23
  <2>5. s \notin asleep => dormant'[s] = dormant[s] /\ rows[s] = changed[s]
    BY <1>23
  <2> HIDE DEF rows, awake, asleep, slept
  <2>6. CASE s \in asleep
    BY <2>1, <2>4, <2>6 DEF RowIn
  <2>7. CASE s \notin asleep /\ changed[s] = NoRow
    BY <2>1, <2>3, <2>5, <2>7 DEF RowIn
  <2>8. CASE s \notin asleep /\ changed[s] # NoRow
    BY <2>1, <2>2, <2>5, <2>8 DEF RowIn
  <2> QED
    BY <2>6, <2>7, <2>8
<1>26. SleepersAreHanded => SleepersAreHanded'
  <2> HIDE DEF awake
  <2> QED
    BY <1>1, <1>25 DEF SleepersAreHanded
<1>27. ASSUME NEW s \in awake
       PROVE  /\ FieldRow(s)' = row(s)
              /\ DriftDue(full) => rows[s] = row(s)
  <2>1. s \in Sectors /\ s \notin asleep /\ s # NoSector
    BY <1>4, <1>7, FieldAssumption
  <2>2. DriftDue(full) => s \in written
    OBVIOUS
  <2>3. FieldRow(s)' = [r \in Rocks |-> IF pos'[r] = s THEN cond'[r] ELSE Absent]
    BY DEF FieldRow
  <2>4. \A r \in Rocks : /\ pos'[r] = s <=> moved[r] = s
                         /\ moved[r] = s => cond'[r] = condn[r]
    <3> HIDE DEF moved, condn, asleep, awake
    <3> QED
      BY <1>1, <2>1
  <2>5. FieldRow(s)' = row(s)
    <3> HIDE DEF moved, condn, asleep, awake
    <3> QED
      BY <2>3, <2>4
  <2>6. rows[s] = IF s \in written THEN row(s) ELSE IF s \in asleep THEN slept(s) ELSE changed[s]
    BY <2>1
  <2> HIDE DEF rows, row, written, slept, asleep
  <2> QED
    BY <2>2, <2>5, <2>6
<1>28. ASSUME full, SleepersAreHanded, NEW s \in Sectors
       PROVE  RowIn(Handed', s) = World'[s]
  <2>1. World'[s] = IF s \in awake THEN FieldRow(s)' ELSE RowIn(dormant', s)
    BY <1>1 DEF World, FieldRow, RowIn
  <2>2. s \in awake => RowIn(Handed', s) = row(s)
    <3>1. s \in awake => rows[s] = row(s)
      <4> HIDE DEF awake, rows, row
      <4> QED
        BY <1>27, <1>28 DEF DriftDue
    <3>2. row(s) # NoRow
      BY <1>8
    <3> HIDE DEF rows, row, awake
    <3> QED
      BY <1>10, <3>1, <3>2 DEF Overlay, RowIn
  <2> HIDE DEF awake, row
  <2> QED
    BY <1>25, <1>27, <1>28, <2>1, <2>2
<1>29. ASSUME LagIsCounted
       PROVE  LagIsCounted'
  <2>1. checkpoints \in 0 .. DriftFlush - 1 /\ DriftFlush \in Nat \ {0} /\ lag \in [Rocks -> Nat]
    BY <1>0, FieldAssumption DEF TypeOK
  <2>2. \A r \in Rocks : lag[r] <= IF checkpoints = 0 THEN DriftFlush - 1 ELSE checkpoints - 1
    BY <1>29 DEF LagIsCounted
  <2>3. checkpoints' = IF checkpoints = DriftFlush - 1 THEN 0 ELSE checkpoints + 1
    BY <1>1, <2>1, Cadence
  <2>4. ASSUME NEW r \in Rocks
        PROVE  lag'[r] \in {0, lag[r] + 1} /\ (checkpoints = 0 => lag'[r] = 0)
    <3>1. lag'[r] = IF \E s \in Sectors : rows[s] # NoRow /\ rows[s][r] # Absent THEN 0
                    ELSE IF moved[r] \in awake /\ RowIn(Handed, moved[r])[r] # condn[r]
                    THEN lag[r] + 1 ELSE 0
      BY <1>1
    <3>2. ASSUME checkpoints = 0, moved[r] \in awake
          PROVE  \E s \in Sectors : rows[s] # NoRow /\ rows[s][r] # Absent
      <4>1. rows[moved[r]] = row(moved[r]) /\ moved[r] \in Sectors
        <5> HIDE DEF awake, rows, row, moved
        <5> QED
          BY <1>4, <1>27, <3>2 DEF DriftDue
      <4>2. row(moved[r]) # NoRow /\ row(moved[r])[r] # Absent
        <5> HIDE DEF row, moved
        <5> QED
          BY <1>8, <4>1
      <4> QED
        BY <4>1, <4>2
    <3> HIDE DEF rows, moved, condn, awake
    <3> QED
      BY <3>1, <3>2
  <2>5. ASSUME NEW r \in Rocks
        PROVE  lag'[r] <= IF checkpoints' = 0 THEN DriftFlush - 1 ELSE checkpoints' - 1
    <3>1. lag'[r] \in {0, lag[r] + 1} /\ (checkpoints = 0 => lag'[r] = 0)
      BY <2>4
    <3>2. lag[r] \in Nat /\ lag[r] <= IF checkpoints = 0 THEN DriftFlush - 1 ELSE checkpoints - 1
      BY <2>1, <2>2
    <3> QED
      BY <2>1, <2>3, <3>1, <3>2
  <2> QED
    BY <2>5 DEF LagIsCounted
<1>30. IInv'
  BY <1>14, <1>15, <1>16, <1>17, <1>19, <1>20 DEF IInv
<1> QED
  BY <1>24, <1>26, <1>28, <1>29, <1>30

-----------------------------------------------------------------------------
(* Pilots, rocks, the writer and crashes.                                  *)

\* A step that only moves, changes or removes simulated rocks leaves the batches
\* and the rows of sleeping sectors alone.
LEMMA RockStepInv ==
    ASSUME IInv, UNCHANGED fieldUnchanged,
           pos' \in Places, cond' \in [Rocks -> Conditions \cup {Absent}],
           \A r \in Rocks : cond'[r] = Absent <=> pos'[r] = NoSector,
           probed' \subseteq Rocks, \A r \in probed' : pos'[r] \in active,
           alive' \subseteq Rocks, late' \in BOOLEAN,
           HeldOnce(pos', dormant, active, alive')
    PROVE  IInv'
<1>1. TypeOK /\ active \subseteq Sectors
  BY DEF IInv, TypeOK
<1>2. probed' \subseteq InField' /\ ProbeSectors' \subseteq active'
  BY <1>1, FieldAssumption DEF InField, ProbeSectors, fieldUnchanged
<1>3. TypeOK'
  BY <1>1, <1>2 DEF TypeOK, fieldUnchanged, Places
<1>4. MemoryHoldsEachRockOnce'
  BY DEF MemoryHoldsEachRockOnce, fieldUnchanged
<1>5. DatabaseHoldsEachRockOnce' /\ ExactlyOnce(Handed, HandedAlive)' /\ BatchesTrackMemory'
  BY DEF IInv, DatabaseHoldsEachRockOnce, ExactlyOnce, RowIn, Handed, HandedAlive, Idle,
         BatchesTrackMemory, fieldUnchanged
<1> QED
  BY <1>2, <1>3, <1>4, <1>5 DEF IInv

LEMMA SimulatedFacts ==
    ASSUME IInv
    PROVE  /\ pos \in Places /\ cond \in [Rocks -> Conditions \cup {Absent}]
           /\ \A r \in Rocks : cond[r] = Absent <=> pos[r] = NoSector
           /\ probed \subseteq Rocks /\ \A r \in probed : pos[r] \in active
           /\ alive \subseteq Rocks /\ late \in BOOLEAN
           /\ HeldOnce(pos, dormant, active, alive)
           /\ NoSector \notin Sectors
           /\ Absent \notin Conditions
           /\ \A s \in Sectors : Adjacent[s] \subseteq Sectors
  BY FieldAssumption, SentinelAssumption
     DEF IInv, TypeOK, Places, InField, ProbeSectors, MemoryHoldsEachRockOnce

LEMMA DriftInv ==
    ASSUME IInv, NEW r \in Rocks, NEW s \in Sectors, Drift(r, s)
    PROVE  IInv'
<1>1. HeldOnce(pos', dormant, active, alive')
  BY SimulatedFacts DEF HeldOnce, Drift, InField, Places
<1> QED
  BY <1>1, SimulatedFacts, RockStepInv DEF Drift, InField, Places, NoteLate

LEMMA ConditionInv ==
    ASSUME IInv, NEW r \in Rocks, Chip(r) \/ Ignite(r)
    PROVE  IInv'
<1>1. UNCHANGED fieldUnchanged /\ UNCHANGED <<pos, probed, alive, late>>
  BY DEF Chip, Ignite
<1>2. /\ cond' \in [Rocks -> Conditions \cup {Absent}]
      /\ \A q \in Rocks : cond'[q] = Absent <=> cond[q] = Absent
  BY SimulatedFacts DEF Chip, Ignite, InField, Conditions
<1> QED
  BY <1>1, <1>2, SimulatedFacts, RockStepInv

LEMMA ProbeInv ==
    ASSUME IInv, NEW r \in Rocks, AttachProbe(r) \/ ExpireProbe(r)
    PROVE  IInv'
<1>1. UNCHANGED fieldUnchanged /\ UNCHANGED <<pos, cond, alive, late>>
  BY DEF AttachProbe, ExpireProbe
<1>2. probed' \subseteq Rocks /\ \A q \in probed' : pos[q] \in active
  BY SimulatedFacts DEF AttachProbe, ExpireProbe
<1> QED
  BY <1>1, <1>2, SimulatedFacts, RockStepInv

LEMMA DestroyInv ==
    ASSUME IInv, NEW r \in Rocks, NEW pieces \in SUBSET Fragments, NEW s \in Sectors,
           Destroy(r, pieces, s)
    PROVE  IInv'
<1>1. pieces \subseteq Rocks /\ pieces \cap alive = {} /\ r \notin pieces /\ r \in alive
  BY SimulatedFacts DEF Destroy, Unborn, Rocks, HeldOnce, InField
<1>2. /\ pos' = [q \in Rocks |-> IF q = r THEN NoSector ELSE IF q \in pieces THEN s ELSE pos[q]]
      /\ cond' = [q \in Rocks |-> IF q = r THEN Absent ELSE IF q \in pieces THEN "intact" ELSE cond[q]]
      /\ probed' = probed \ {r} /\ alive' = (alive \ {r}) \cup pieces
      /\ UNCHANGED late /\ UNCHANGED fieldUnchanged
      /\ pos[r] # NoSector
  BY DEF Destroy, InField
<1>3. \A q \in pieces : pos[q] = NoSector /\ \A t \in Sectors \ active : RowIn(dormant, t)[q] = Absent
  BY <1>1, SimulatedFacts DEF HeldOnce
<1>4. HeldOnce(pos', dormant, active, alive')
  BY <1>1, <1>2, <1>3, SimulatedFacts DEF HeldOnce
<1>5. pos' \in Places /\ alive' \subseteq Rocks /\ probed' \subseteq Rocks /\ late' \in BOOLEAN
  BY <1>1, <1>2, SimulatedFacts DEF Places
<1>6. /\ cond' \in [Rocks -> Conditions \cup {Absent}]
      /\ \A q \in Rocks : cond'[q] = Absent <=> pos'[q] = NoSector
  BY <1>2, <1>5, SimulatedFacts DEF Conditions
<1>7. \A q \in probed' : pos'[q] \in active
  <2>1. \A q \in probed' : q \in Rocks /\ q # r /\ pos[q] \in active
    BY <1>2, SimulatedFacts
  <2>2. active \subseteq Sectors
    BY DEF IInv, TypeOK
  <2> QED
    BY <1>2, <1>3, <2>1, <2>2, SimulatedFacts
<1> QED
  BY <1>2, <1>4, <1>5, <1>6, <1>7, RockStepInv

LEMMA DeliverInv ==
    ASSUME IInv, NEW r \in Rocks, Deliver(r)
    PROVE  IInv'
<1>1. HeldOnce(pos', dormant, active, alive')
  BY SimulatedFacts DEF HeldOnce, Deliver, InField, Places
<1> QED
  BY <1>1, SimulatedFacts, RockStepInv DEF Deliver, InField, Places, NoteLate

\* A step that leaves the field, the batches and the database alone.
LEMMA IdleStepInv ==
    ASSUME IInv,
           UNCHANGED <<pos, cond, probed, active, dormant, changed, flushed, powered,
                       checkpoints, inflight, db, alive, dbAlive, lag, late>>,
           pilot' \in [Pilots -> Sectors \cup {NoSector}],
           waiting' \in BOOLEAN, fullFlush' \in BOOLEAN, frame' \in Frames
    PROVE  IInv'
<1>1. TypeOK'
  BY DEF IInv, TypeOK, InField
<1>2. ProbeSectors' \subseteq active' /\ MemoryHoldsEachRockOnce'
  BY DEF IInv, ProbeSectors, MemoryHoldsEachRockOnce
<1>3. DatabaseHoldsEachRockOnce' /\ ExactlyOnce(Handed, HandedAlive)' /\ BatchesTrackMemory'
  BY DEF IInv, DatabaseHoldsEachRockOnce, ExactlyOnce, RowIn, Handed, HandedAlive, Idle,
         BatchesTrackMemory
<1> QED
  BY <1>1, <1>2, <1>3 DEF IInv

LEMMA CommitInv ==
    ASSUME IInv, Commit
    PROVE  IInv'
<1>1. /\ ~Idle /\ db' = Overlay(db, inflight.rows) /\ dbAlive' = inflight.alive
      /\ inflight' = NoBatch /\ UNCHANGED memory /\ UNCHANGED <<alive, lag, late>>
  BY DEF Commit
<1>2. Handed' = Handed /\ HandedAlive' = HandedAlive /\ db' = Handed /\ dbAlive' = HandedAlive
  BY <1>1 DEF Handed, HandedAlive, Idle
<1>3. inflight \in Batch
  BY <1>1 DEF IInv, TypeOK, Idle
<1>4. db' \in [Sectors -> Row \cup {NoRow}] /\ dbAlive' \subseteq Rocks
  BY <1>1, <1>3 DEF IInv, TypeOK, Batch, Overlay
<1>5. TypeOK'
  BY <1>1, <1>4 DEF IInv, TypeOK, InField, memory
<1>6. ProbeSectors' \subseteq active' /\ MemoryHoldsEachRockOnce'
  BY <1>1 DEF IInv, ProbeSectors, MemoryHoldsEachRockOnce, memory
<1>7. ExactlyOnce(Handed, HandedAlive)
  BY DEF IInv
<1>8. DatabaseHoldsEachRockOnce' /\ ExactlyOnce(Handed, HandedAlive)'
  BY <1>2, <1>7 DEF DatabaseHoldsEachRockOnce, ExactlyOnce, RowIn
<1>9. BatchesTrackMemory'
  BY <1>1, <1>2 DEF IInv, BatchesTrackMemory, RowIn, memory
<1> QED
  BY <1>5, <1>6, <1>8, <1>9 DEF IInv

LEMMA CrashInv ==
    ASSUME IInv, Crash
    PROVE  IInv'
<1>1. db \in [Sectors -> Row \cup {NoRow}] /\ dbAlive \subseteq Rocks /\ ExactlyOnce(db, dbAlive)
  BY DEF IInv, TypeOK, DatabaseHoldsEachRockOnce
<1>2. TypeOK'
  <2>1. 0 \in 0 .. DriftFlush - 1
    BY FieldAssumption
  <2>2. /\ pos' = [r \in Rocks |-> NoSector] /\ cond' = [r \in Rocks |-> Absent]
        /\ probed' = {} /\ lag' = [r \in Rocks |-> 0]
    BY DEF Crash, EmptyRow
  <2>3. pilot' \in [Pilots -> Sectors \cup {NoSector}] /\ active' = {} /\ powered' \subseteq Sectors
    BY DEF Crash
  <2>4. /\ dormant' = db /\ changed' = [s \in Sectors |-> NoRow] /\ flushed' = [s \in Sectors |-> NoRow]
        /\ UNCHANGED <<db, dbAlive>>
    BY DEF Crash, NoRows
  <2>5. /\ checkpoints' = 0 /\ fullFlush' = FALSE /\ waiting' = FALSE /\ late' = FALSE
        /\ frame' = "between" /\ inflight' = NoBatch /\ alive' = dbAlive
    BY DEF Crash
  <2> QED
    BY <1>1, <2>1, <2>2, <2>3, <2>4, <2>5 DEF TypeOK, Frames
<1>3. MemoryHoldsEachRockOnce'
  BY <1>1 DEF Crash, MemoryHoldsEachRockOnce, HeldOnce, ExactlyOnce
<1>4. ProbeSectors' \subseteq active'
  BY DEF Crash, ProbeSectors
<1>5. Idle' /\ Handed' = db' /\ HandedAlive' = dbAlive' /\ db' = db /\ dbAlive' = dbAlive
  BY DEF Crash, Handed, HandedAlive, Idle
<1>6. DatabaseHoldsEachRockOnce' /\ ExactlyOnce(Handed, HandedAlive)'
  BY <1>1, <1>5 DEF DatabaseHoldsEachRockOnce, ExactlyOnce, RowIn
<1>7. BatchesTrackMemory'
  BY <1>5 DEF Crash, BatchesTrackMemory, NoRows
<1> QED
  BY <1>2, <1>3, <1>4, <1>6, <1>7 DEF IInv

-----------------------------------------------------------------------------
LEMMA InitInv == Init => IInv
<1> SUFFICES ASSUME Init PROVE IInv
  OBVIOUS
<1>2. ExactlyOnce(NoRows, Slots)
  BY FieldAssumption, SentinelAssumption DEF ExactlyOnce, RowIn, NoRows, FreshRow, Rocks, Conditions
<1>3. TypeOK
  <2>1. 0 \in 0 .. DriftFlush - 1 /\ Slots \subseteq Rocks
    BY FieldAssumption DEF Rocks
  <2> QED
    BY <2>1 DEF Init, TypeOK, EmptyRow, NoRows, Frames
<1>4. MemoryHoldsEachRockOnce
  BY <1>2 DEF Init, MemoryHoldsEachRockOnce, HeldOnce, ExactlyOnce
<1>5. Handed = NoRows /\ HandedAlive = Slots /\ db = NoRows /\ dbAlive = Slots
  BY DEF Init, Handed, HandedAlive, Idle
<1>6. BatchesTrackMemory
  BY <1>5 DEF Init, BatchesTrackMemory, NoRows
<1>7. ProbeSectors \subseteq active
  BY DEF Init, ProbeSectors
<1> QED
  BY <1>2, <1>3, <1>4, <1>5, <1>6, <1>7 DEF IInv, DatabaseHoldsEachRockOnce

LEMMA PilotsInv ==
    ASSUME IInv, NEW p \in Pilots,
           \/ \E s \in Sectors : Join(p, s) \/ Fly(p, s)
           \/ Leave(p) \/ LeaveLast(p)
    PROVE  IInv'
<1>1. /\ pilot \in [Pilots -> Sectors \cup {NoSector}] /\ waiting \in BOOLEAN
      /\ fullFlush \in BOOLEAN /\ frame \in Frames
  BY DEF IInv, TypeOK
<1>2. ASSUME NEW s \in Sectors, Join(p, s)
      PROVE  IInv'
  <2>1. pilot' \in [Pilots -> Sectors \cup {NoSector}] /\ UpdateFor(pilot') /\ UNCHANGED <<waiting, frame>>
    BY <1>1, <1>2 DEF Join
  <2> QED
    BY <1>1, <2>1, UpdateInv
<1>3. ASSUME NEW s \in Sectors, Fly(p, s)
      PROVE  IInv'
  BY <1>1, <1>3, IdleStepInv DEF Fly
<1>4. CASE Leave(p)
  <2>1. pilot' \in [Pilots -> Sectors \cup {NoSector}] /\ UpdateFor(pilot') /\ UNCHANGED <<waiting, frame>>
    BY <1>1, <1>4 DEF Leave
  <2> QED
    BY <1>1, <2>1, UpdateInv
<1>5. CASE LeaveLast(p)
  <2>1. pilot' \in [Pilots -> Sectors \cup {NoSector}] /\ frame' \in Frames /\ DepartureFlush
    BY <1>1, <1>5 DEF LeaveLast, Frames
  <2>2. CASE Flush(TRUE) /\ UNCHANGED waiting
    BY <1>1, <2>1, <2>2, FlushInv
  <2>3. CASE ~(Flush(TRUE) /\ UNCHANGED waiting)
    BY <2>1, <2>3, IdleStepInv DEF DepartureFlush
  <2> QED
    BY <2>2, <2>3
<1> QED
  BY <1>2, <1>3, <1>4, <1>5

LEMMA RocksInv ==
    ASSUME IInv, NEW r \in Rocks,
           \/ \E s \in Sectors : Drift(r, s)
           \/ Chip(r) \/ Ignite(r) \/ AttachProbe(r) \/ ExpireProbe(r)
           \/ \E pieces \in SUBSET Fragments, s \in Sectors : Destroy(r, pieces, s)
           \/ Deliver(r)
    PROVE  IInv'
  BY DriftInv, ConditionInv, ProbeInv, DestroyInv, DeliverInv

LEMMA NextInv == IInv /\ [Next]_vars => IInv'
<1> SUFFICES ASSUME IInv, [Next]_vars PROVE IInv'
  OBVIOUS
<1>1. /\ pilot \in [Pilots -> Sectors \cup {NoSector}] /\ waiting \in BOOLEAN
      /\ fullFlush \in BOOLEAN /\ frame \in Frames
  BY DEF IInv, TypeOK
<1>2. ASSUME NEW p \in Pilots,
             (\E s \in Sectors : Join(p, s) \/ Fly(p, s)) \/ Leave(p) \/ LeaveLast(p)
      PROVE  IInv'
  BY <1>2, PilotsInv
<1>3. ASSUME NEW r \in Rocks,
             \/ \E s \in Sectors : Drift(r, s)
             \/ Chip(r) \/ Ignite(r) \/ AttachProbe(r) \/ ExpireProbe(r)
             \/ \E pieces \in SUBSET Fragments, s \in Sectors : Destroy(r, pieces, s)
             \/ Deliver(r)
      PROVE  IInv'
  BY <1>3, RocksInv
<1>4. CASE EndFrame
  BY <1>1, <1>4, IdleStepInv DEF EndFrame, Frames
<1>5. CASE Update
  <2>1. UpdateFor(pilot) /\ frame' \in Frames /\ UNCHANGED <<pilot, waiting>>
    BY <1>5 DEF Update, Frames
  <2> QED
    BY <1>1, <2>1, UpdateInv
<1>6. CASE PeriodicFlush
  <2>1. Flush(fullFlush) /\ frame' \in Frames /\ UNCHANGED <<pilot, waiting>>
    BY <1>6 DEF PeriodicFlush, Frames
  <2> QED
    BY <1>1, <2>1, FlushInv
<1>7. CASE DeferredFlush
  <2>1. Flush(fullFlush) /\ waiting' \in BOOLEAN /\ UNCHANGED <<pilot, frame>>
    BY <1>7 DEF DeferredFlush
  <2> QED
    BY <1>1, <2>1, FlushInv
<1>8. CASE Commit
  BY <1>8, CommitInv
<1>9. CASE Crash
  BY <1>9, CrashInv
<1>10. CASE UNCHANGED vars
  BY <1>1, <1>10, IdleStepInv DEF vars
<1> QED
  BY <1>2, <1>3, <1>4, <1>5, <1>6, <1>7, <1>8, <1>9, <1>10 DEF Next

-----------------------------------------------------------------------------
(* Damage, fire and the pause.                                             *)

\* A step that moves or changes simulated rocks: the world plays, or the frame that
\* paused it notes that its flush is done, or the rocks stay as they are.
LEMMA RockStepDamage ==
    ASSUME DamageInv, IInv', UNCHANGED fieldUnchanged,
           ~Paused \/ waiting \/ late' \/ UNCHANGED <<pos, cond, late>>
    PROVE  DamageInv'
<1>1. UNCHANGED <<pilot, active, dormant, changed, flushed, powered, checkpoints,
                  fullFlush, waiting, frame, inflight, db, dbAlive, lag>>
  BY DEF fieldUnchanged
<1>2. BurningRocksStayAwake'
  BY <1>1 DEF DamageInv, BurningRocksStayAwake, RowIn
<1>3. Handed' = Handed /\ (Paused' <=> Paused) /\ (Idle' <=> Idle)
  BY <1>1 DEF Handed, Idle, Paused
<1>4. SleepersAreHanded'
  BY <1>1, <1>3 DEF DamageInv, SleepersAreHanded, RowIn
<1>5. LagIsCounted'
  BY <1>1 DEF DamageInv, LagIsCounted
<1>6. UNCHANGED <<pos, cond>> => World' = World
  BY <1>1 DEF World, FieldRow, RowIn
<1>7. PauseIsHanded'
  BY <1>1, <1>3, <1>6 DEF DamageInv, PauseIsHanded, RowIn
<1> QED
  BY <1>2, <1>4, <1>5, <1>7 DEF DamageInv

LEMMA RocksDamage ==
    ASSUME DamageInv, IInv', NEW r \in Rocks,
           \/ \E s \in Sectors : Drift(r, s)
           \/ Chip(r) \/ Ignite(r) \/ AttachProbe(r) \/ ExpireProbe(r)
           \/ \E pieces \in SUBSET Fragments, s \in Sectors : Destroy(r, pieces, s)
           \/ Deliver(r)
    PROVE  DamageInv'
<1>1. UNCHANGED fieldUnchanged
  BY DEF Drift, Chip, Ignite, AttachProbe, ExpireProbe, Destroy, Deliver
<1>2. ~Paused \/ waiting \/ late' \/ UNCHANGED <<pos, cond, late>>
  BY DEF Drift, Chip, Ignite, AttachProbe, ExpireProbe, Destroy, Deliver, Simulating, Playing,
         NoteLate
<1> QED
  BY <1>1, <1>2, RockStepDamage

\* A step after which somebody is in the world, that hands nothing over.
LEMMA PlayingStepDamage ==
    ASSUME DamageInv, IInv', ~Paused', BurningRocksStayAwake', SleepersAreHanded',
           UNCHANGED <<checkpoints, lag, waiting, fullFlush, inflight>>,
           frame' = "flushing" => frame = "flushing" \/ (Ready /\ Idle)
    PROVE  DamageInv'
<1>1. LagIsCounted'
  BY DEF DamageInv, LagIsCounted
<1>2. PauseIsHanded'
  BY DEF DamageInv, PauseIsHanded, Idle, Ready
<1> QED
  BY <1>1, <1>2 DEF DamageInv

\* A step that leaves the field, the batches and the database alone.
LEMMA StillDamage ==
    ASSUME DamageInv,
           UNCHANGED <<pos, cond, active, dormant, changed, powered, checkpoints, inflight, db, lag>>
    PROVE  /\ BurningRocksStayAwake' /\ SleepersAreHanded' /\ LagIsCounted'
           /\ Handed' = Handed /\ World' = World
<1>1. Handed' = Handed
  BY DEF Handed, Idle
<1> QED
  BY <1>1 DEF DamageInv, BurningRocksStayAwake, SleepersAreHanded, LagIsCounted, World, FieldRow,
              RowIn

\* A flush: full, or not in a paused world.
LEMMA FlushDamage ==
    ASSUME DamageInv, NEW full \in BOOLEAN, Flush(full), full \/ ~Paused',
           pilot' \in [Pilots -> Sectors \cup {NoSector}],
           waiting' = FALSE, frame' \in Frames \ {"flushing"}
    PROVE  DamageInv'
<1>1. /\ IInv' /\ BurningRocksStayAwake' /\ SleepersAreHanded' /\ LagIsCounted'
      /\ full => \A s \in Sectors : RowIn(Handed', s) = World'[s]
  BY FlushInv DEF DamageInv
<1>2. PauseIsHanded'
  BY <1>1 DEF PauseIsHanded, RowIn
<1> QED
  BY <1>1, <1>2 DEF DamageInv

LEMMA DamageInit == Init => DamageInv
<1> SUFFICES ASSUME Init PROVE DamageInv
  OBVIOUS
<1>1. IInv
  BY InitInv
<1>2. \A s \in Sectors : RowIn(dormant, s) = FreshRow(s) /\ RowIn(Handed, s) = FreshRow(s)
  BY DEF Init, Handed, Idle, RowIn, NoRows
<1>3. BurningRocksStayAwake
  BY <1>2, SentinelAssumption DEF BurningRocksStayAwake, FreshRow, Conditions
<1>4. SleepersAreHanded
  BY <1>2 DEF SleepersAreHanded
<1>5. LagIsCounted
  BY FieldAssumption DEF Init, LagIsCounted
<1>6. PauseIsHanded
  BY <1>2 DEF Init, PauseIsHanded, World
<1> QED
  BY <1>1, <1>3, <1>4, <1>5, <1>6 DEF DamageInv

LEMMA DamageNext == DamageInv /\ [Next]_vars => DamageInv'
<1> SUFFICES ASSUME DamageInv, [Next]_vars PROVE DamageInv'
  OBVIOUS
<1>1. /\ IInv /\ IInv' /\ PauseIsHanded
      /\ pilot \in [Pilots -> Sectors \cup {NoSector}] /\ waiting \in BOOLEAN
      /\ fullFlush \in BOOLEAN /\ frame \in Frames
  BY NextInv DEF DamageInv, IInv, TypeOK
<1>2. ASSUME NEW p \in Pilots, NEW s \in Sectors, Join(p, s)
      PROVE  DamageInv'
  <2>1. /\ pilot' = [pilot EXCEPT ![p] = s] /\ UpdateFor(pilot') /\ UNCHANGED <<waiting, frame>>
    BY <1>2 DEF Join
  <2>2. ~Paused' /\ pilot' \in [Pilots -> Sectors \cup {NoSector}]
    BY <1>1, <2>1, FieldAssumption DEF Paused
  <2>3. BurningRocksStayAwake' /\ SleepersAreHanded'
    BY <1>1, <2>1, <2>2, UpdateInv DEF DamageInv
  <2>4. UNCHANGED <<checkpoints, fullFlush, inflight, lag>>
    BY <2>1 DEF UpdateFor
  <2> QED
    BY <1>1, <2>1, <2>2, <2>3, <2>4, PlayingStepDamage
<1>3. ASSUME NEW p \in Pilots, NEW s \in Sectors, Fly(p, s)
      PROVE  DamageInv'
  <2>1. ~Paused'
    BY <1>1, <1>3, FieldAssumption DEF Fly, Paused
  <2>2. BurningRocksStayAwake' /\ SleepersAreHanded'
    BY <1>3, StillDamage DEF Fly
  <2> QED
    BY <1>1, <1>3, <2>1, <2>2, PlayingStepDamage DEF Fly
<1>4. ASSUME NEW p \in Pilots, Leave(p)
      PROVE  DamageInv'
  <2>1. /\ pilot' = [pilot EXCEPT ![p] = NoSector] /\ UpdateFor(pilot') /\ UNCHANGED <<waiting, frame>>
        /\ \E q \in Pilots \ {p} : pilot[q] # NoSector
    BY <1>4 DEF Leave
  <2>2. ~Paused' /\ pilot' \in [Pilots -> Sectors \cup {NoSector}]
    BY <1>1, <2>1 DEF Paused
  <2>3. BurningRocksStayAwake' /\ SleepersAreHanded'
    BY <1>1, <2>1, <2>2, UpdateInv DEF DamageInv
  <2>4. UNCHANGED <<checkpoints, fullFlush, inflight, lag>>
    BY <2>1 DEF UpdateFor
  <2> QED
    BY <1>1, <2>1, <2>2, <2>3, <2>4, PlayingStepDamage
<1>5. ASSUME NEW p \in Pilots, LeaveLast(p)
      PROVE  DamageInv'
  <2>1. /\ pilot' \in [Pilots -> Sectors \cup {NoSector}] /\ frame' \in {"between", "departing"}
        /\ DepartureFlush /\ Ready
    BY <1>1, <1>5 DEF LeaveLast
  <2>2. CASE Flush(TRUE) /\ UNCHANGED waiting
    <3>1. waiting' = FALSE
      BY <1>1, <2>1, <2>2 DEF Flush, Ready
    <3> QED
      BY <2>1, <2>2, <3>1, FlushDamage DEF Frames
  <2>3. CASE ~(Flush(TRUE) /\ UNCHANGED waiting)
    <3>1. /\ fullFlush' = TRUE /\ waiting' = TRUE
          /\ UNCHANGED <<pos, cond, active, dormant, changed, powered, checkpoints, inflight, db, lag>>
      BY <2>1, <2>3 DEF DepartureFlush
    <3>2. PauseIsHanded'
      BY <2>1, <3>1 DEF PauseIsHanded
    <3> QED
      BY <1>1, <3>1, <3>2, StillDamage DEF DamageInv
  <2> QED
    BY <2>2, <2>3
<1>6. ASSUME NEW r \in Rocks,
             \/ \E s \in Sectors : Drift(r, s)
             \/ Chip(r) \/ Ignite(r) \/ AttachProbe(r) \/ ExpireProbe(r)
             \/ \E pieces \in SUBSET Fragments, s \in Sectors : Destroy(r, pieces, s)
             \/ Deliver(r)
      PROVE  DamageInv'
  BY <1>1, <1>6, RocksDamage
<1>7. CASE EndFrame
  <2>1. /\ frame' = "between" /\ (Paused' <=> Paused)
        /\ UNCHANGED <<pos, cond, active, dormant, changed, powered, checkpoints, inflight, db, lag,
                       waiting, fullFlush, late>>
    BY <1>7 DEF EndFrame, Paused
  <2>2. /\ BurningRocksStayAwake' /\ SleepersAreHanded' /\ LagIsCounted'
        /\ Handed' = Handed /\ World' = World
    BY <2>1, StillDamage
  <2>3. PauseIsHanded'
    BY <1>1, <2>1, <2>2 DEF PauseIsHanded, RowIn
  <2> QED
    BY <1>1, <2>2, <2>3 DEF DamageInv
<1>8. CASE Update
  <2>1. /\ UpdateFor(pilot) /\ UNCHANGED <<pilot, waiting>> /\ ~Paused /\ Ready
        /\ frame' = IF Idle THEN "flushing" ELSE "between"
    BY <1>8 DEF Update, Playing
  <2>2. ~Paused' /\ frame' \in Frames /\ pilot' \in [Pilots -> Sectors \cup {NoSector}]
    BY <1>1, <2>1 DEF Paused, Frames
  <2>3. BurningRocksStayAwake' /\ SleepersAreHanded'
    BY <1>1, <2>1, <2>2, UpdateInv DEF DamageInv
  <2>4. UNCHANGED <<checkpoints, fullFlush, inflight, lag>>
    BY <2>1 DEF UpdateFor
  <2> QED
    BY <1>1, <2>1, <2>2, <2>3, <2>4, PlayingStepDamage
<1>9. CASE PeriodicFlush
  <2>1. /\ Flush(fullFlush) /\ frame = "flushing" /\ frame' = "between" /\ UNCHANGED <<pilot, waiting>>
    BY <1>9 DEF PeriodicFlush
  <2>2. ~Paused' /\ waiting' = FALSE
    BY <1>1, <2>1 DEF PauseIsHanded, Paused
  <2> QED
    BY <1>1, <2>1, <2>2, FlushDamage DEF Frames
<1>10. CASE DeferredFlush
  <2>1. /\ Flush(fullFlush) /\ fullFlush /\ waiting' = FALSE /\ frame' = "between"
        /\ UNCHANGED <<pilot, frame>>
    BY <1>1, <1>10 DEF DeferredFlush, PauseIsHanded
  <2> QED
    BY <1>1, <2>1, FlushDamage DEF Frames
<1>11. CASE Commit
  <2>1. /\ ~Idle /\ db' = Overlay(db, inflight.rows) /\ inflight' = NoBatch
        /\ UNCHANGED memory /\ UNCHANGED <<alive, lag, late>> /\ frame = "between"
    BY <1>11 DEF Commit
  <2>2. Handed' = Handed /\ World' = World /\ (Paused' <=> Paused)
    BY <2>1 DEF Handed, Idle, World, FieldRow, RowIn, memory, Paused
  <2>3. BurningRocksStayAwake' /\ SleepersAreHanded' /\ LagIsCounted'
    BY <2>1, <2>2 DEF DamageInv, BurningRocksStayAwake, SleepersAreHanded, LagIsCounted, RowIn,
                      memory
  <2>4. PauseIsHanded'
    BY <1>1, <2>1, <2>2 DEF PauseIsHanded, RowIn, memory
  <2> QED
    BY <1>1, <2>3, <2>4 DEF DamageInv
<1>12. CASE Crash
  <2>1. /\ active' = {} /\ dormant' = db /\ db' = db /\ changed' = NoRows /\ inflight' = NoBatch
        /\ powered' = {s \in Sectors : db[s] # NoRow /\ \E r \in Rocks : db[s][r] = "burning"}
        /\ checkpoints' = 0 /\ waiting' = FALSE /\ frame' = "between"
        /\ lag' = [r \in Rocks |-> 0]
    BY <1>12 DEF Crash
  <2>2. \A s \in Sectors : RowIn(dormant', s) = RowIn(db, s) /\ RowIn(Handed', s) = RowIn(db, s)
    BY <2>1 DEF Handed, Idle, RowIn
  <2>3. BurningRocksStayAwake'
    <3> SUFFICES ASSUME NEW s \in Sectors, NEW r \in Rocks, RowIn(db, s)[r] = "burning"
                 PROVE  s \in powered'
      BY <2>1, <2>2 DEF BurningRocksStayAwake, RowIn
    <3>1. FreshRow(s)[r] # "burning"
      BY SentinelAssumption DEF FreshRow, Conditions
    <3> QED
      BY <2>1, <3>1 DEF RowIn
  <2>4. SleepersAreHanded'
    BY <2>1, <2>2 DEF SleepersAreHanded, RowIn
  <2>5. LagIsCounted'
    BY <2>1, FieldAssumption DEF LagIsCounted
  <2>6. PauseIsHanded'
    BY <2>1, <2>2 DEF PauseIsHanded, World, RowIn
  <2> QED
    BY <1>1, <2>3, <2>4, <2>5, <2>6 DEF DamageInv
<1>13. CASE UNCHANGED vars
  <2>1. /\ BurningRocksStayAwake' /\ SleepersAreHanded' /\ LagIsCounted'
        /\ Handed' = Handed /\ World' = World
    BY <1>13, StillDamage DEF vars
  <2>2. PauseIsHanded'
    BY <1>1, <1>13, <2>1 DEF PauseIsHanded, RowIn, vars, Idle, Paused
  <2> QED
    BY <1>1, <2>1, <2>2 DEF DamageInv
<1> QED
  BY <1>2, <1>3, <1>4, <1>5, <1>6, <1>7, <1>8, <1>9, <1>10, <1>11, <1>12, <1>13 DEF Next

\* The strengthening that holds in every reachable state: the rows handed over
\* so far know the members of every sector that has no pending row.
THEOREM FieldInvariant == Spec => []IInv
  BY InitInv, NextInv, PTL DEF Spec

\* The field, the batch and the database keep their types.
THEOREM FieldTypeCorrect == Spec => []TypeOK
<1>1. IInv => TypeOK
  BY DEF IInv
<1> QED
  BY <1>1, FieldInvariant, PTL

\* Sleeping, waking, regrowth and edge crossings never lose or copy a rock in
\* memory, and a crash at any moment finds each rock of some flush in one saved
\* sector, whatever the sectors, rocks and pilots.
THEOREM RocksAreNeverLostOrCopied == Spec => []RocksAreHeldOnce
<1>1. IInv => RocksAreHeldOnce
  BY DEF IInv, RocksAreHeldOnce
<1> QED
  BY <1>1, FieldInvariant, PTL

\* The store's duplicate guard accepts every batch the field hands over.
THEOREM StoreAcceptsEveryBatch == Spec => []BatchNeverRefused
<1>1. IInv => BatchNeverRefused
  <2> SUFFICES ASSUME IInv, ~Idle, NEW r \in Rocks, NEW s \in Sectors, NEW t \in Sectors, s # t,
                      inflight.rows[s] # NoRow, inflight.rows[s][r] # Absent
               PROVE  /\ inflight.rows[t] # NoRow => inflight.rows[t][r] = Absent
                      /\ inflight.rows[t] = NoRow /\ db[t] # NoRow => db[t][r] = Absent
    BY DEF BatchNeverRefused, DuplicateDeposit
  <2>1. \A u \in Sectors : Handed[u] = IF inflight.rows[u] = NoRow THEN db[u] ELSE inflight.rows[u]
    BY DEF Handed, Overlay
  <2>2. ExactlyOnce(Handed, HandedAlive)
    BY DEF IInv
  <2>3. RowIn(Handed, s)[r] # Absent
    BY <2>1 DEF RowIn
  <2>4. RowIn(Handed, t)[r] = Absent
    BY <2>2, <2>3 DEF ExactlyOnce
  <2> QED
    BY <2>1, <2>4 DEF RowIn
<1> QED
  BY <1>1, FieldInvariant, PTL

\* With the conditions of the rocks: what burns is awake or due to be woken, sleeping
\* rows are handed over as they are, and the flush of a pause carries the world.
THEOREM ConditionsInvariant == Spec => []DamageInv
  BY DamageInit, DamageNext, PTL DEF Spec

\* Once the last departure's flush has committed, a restart of the paused world loses
\* nothing, but for what the rest of the departing frame did (updatePauseState).
THEOREM PauseLosesNothing == Spec => []PausedWorldIsDurable
<1>1. DamageInv => PausedWorldIsDurable
  BY DEF DamageInv, PauseIsHanded, PausedWorldIsDurable, WorldIsCommitted, Handed
<1> QED
  BY <1>1, ConditionsInvariant, PTL

\* A crash undoes a bounded amount of chipping: damage is in a batch within DriftFlush
\* flushes.
THEOREM DamageIsWrittenInTime == Spec => []DamageLagBounded
<1>1. DamageInv => DamageLagBounded
  <2>1. SUFFICES ASSUME DamageInv, NEW r \in Rocks PROVE lag[r] < DriftFlush
    BY DEF DamageLagBounded
  <2>2. lag[r] \in Nat /\ checkpoints \in 0 .. DriftFlush - 1 /\ DriftFlush \in Nat \ {0}
    BY <2>1, FieldAssumption DEF DamageInv, IInv, TypeOK
  <2>3. lag[r] <= IF checkpoints = 0 THEN DriftFlush - 1 ELSE checkpoints - 1
    BY <2>1 DEF DamageInv, LagIsCounted
  <2> QED
    BY <2>2, <2>3
<1> QED
  BY <1>1, ConditionsInvariant, PTL

\* A burning rock keeps its sector awake until it is delivered, and after a restart its
\* sector is due to be woken.
THEOREM FiresStayAwake == Spec => []BurningRocksStayAwake
<1>1. DamageInv => BurningRocksStayAwake
  BY DEF DamageInv
<1> QED
  BY <1>1, ConditionsInvariant, PTL

=============================================================================
