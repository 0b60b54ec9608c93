------------------------------- MODULE Frontier -------------------------------
(***************************************************************************)
(* The campaign for the frontier: pilots deliver ore, draw it again as     *)
(* shipments, complete the deep scanner and restore the ruins of hives     *)
(* they cleared (server/core/GameEngine.ts deliveries and withdrawals,     *)
(* server/core/HiveEncounters.ts).  The records of the campaign            *)
(* (server/world/CooperativeCampaign.ts) and the rocks of the field are    *)
(* written in one batch, and the next process starts from what landed and  *)
(* refuses a record that is not valid (shared/cooperativeWorld.ts).        *)
(*                                                                         *)
(* Ore is counted in units.  Where rocks and pilots are is a free choice;  *)
(* so is whether a queen's shield is open.  A deadline is the ticks that   *)
(* remain.  Lasers hit in frames and between them, when the message of a   *)
(* shot is handled; frames come late behind a blocked loop, and in a       *)
(* paused world not at all.  Civic lots are left out: they take ore and    *)
(* give shipments like a ruin that has been restored.                      *)
(***************************************************************************)
EXTENDS Integers, Amounts

CONSTANTS
    Sites,          \* the frontier, in the order of distance: 1, 2, ...
    Expanded,       \* the sites that the scanner opens
    Sacs,           \* the sacs of a hive
    QueenHealth,    \* COOPERATIVE.queenHealth, in hits
    SacHealth,      \* COOPERATIVE.sacHealth, in hits
    SacWindow,      \* COOPERATIVE.sacWindowMs, in ticks
    MaxLate,        \* bound on the ticks between two frames
    ScannerValue,   \* COOPERATIVE.scannerValue
    RestoreValue,   \* COOPERATIVE.restoreValue
    ShipmentValue,  \* COOPERATIVE.shipmentValue
    RockValue,      \* furnaceReward() of an ore rock
    MaxRocks        \* bound on the ore rocks there ever are

Town == 0           \* TOWN_HEARTH, nearer than any site
Places == {Town} \cup Sites

ASSUME FrontierAssumption ==
    /\ IsFiniteSet(Sites) /\ Sites \subseteq Nat \ {Town} /\ Expanded \subseteq Sites
    /\ IsFiniteSet(Sacs) /\ Sacs # {}
    /\ {QueenHealth, SacHealth, SacWindow, ScannerValue, RestoreValue, ShipmentValue,
        RockValue} \subseteq Nat \ {0}
    /\ {MaxLate, MaxRocks} \subseteq Nat

VARIABLES
    campaign,       \* CooperativeCampaign.records
    changed,        \* its dirty keys
    field,          \* the ore rocks and shipments in the world
    cleared,        \* HiveEncounters.cleared
    lit,            \* GameEngine.commissioned, the furnaces of the frontier that burn
    active,         \* HiveEncounters.active
    disk,           \* what the next process would load
    late            \* ticks since the last frame that advanced the encounters

frontierVars == <<campaign, changed, field, cleared, lit, active, disk, late>>

NoDeadline == -1

\* `fell' is history: the ticks since each sac was destroyed, counted as far as a
\* property tells them apart.
Hives == [known : BOOLEAN, queen : 0..QueenHealth, cleared : BOOLEAN,
          sacs : [Sacs -> 0..SacHealth], deadline : NoDeadline..SacWindow, completed : BOOLEAN,
          restored : 0..RestoreValue, commissioned : BOOLEAN, fell : [Sacs -> 0..SacWindow + MaxLate]]
Ledgers == [available : Nat, next : Nat]
Campaigns == [supply : [Places -> Ledgers], delivered : 0..ScannerValue, scanned : BOOLEAN,
              hive : [Sites -> Hives]]

\* `yielded' and `destroyed' are history: the ore there ever was, and is no more.
Shipments == [source : Places, number : Nat, value : Nat]
Fields == [rocks : Nat, shipments : SUBSET Shipments, yielded : Nat, destroyed : Nat]

\* The keys of records: of the supply and the hive of a place, and of the project.
RecordKeys == [kind : {"supply", "hive"}, id : Places] \cup {[kind |-> "project", id |-> Town]}
SupplyKey(p) == [kind |-> "supply", id |-> p]
HiveKey(s) == [kind |-> "hive", id |-> s]
ProjectKey == [kind |-> "project", id |-> Town]

\* Type invariant: records, rocks and keys are of their kinds.
FrontierTypeOK ==
    /\ campaign \in Campaigns /\ field \in Fields
    /\ changed \subseteq RecordKeys
    /\ cleared \subseteq Sites /\ lit \subseteq Sites /\ active \subseteq Sites
    /\ disk \in [campaign : Campaigns, field : Fields]
    /\ late \in 0..MaxLate

Smaller(a, b) == IF a < b THEN a ELSE b

\* The hive that refresh() makes of a site.
NewHive ==
    [known |-> TRUE, queen |-> QueenHealth, cleared |-> FALSE,
     sacs |-> [i \in Sacs |-> SacHealth], deadline |-> NoDeadline, completed |-> FALSE,
     restored |-> 0, commissioned |-> FALSE, fell |-> [i \in Sacs |-> 0]]
NoHive == [NewHive EXCEPT !.known = FALSE]

-----------------------------------------------------------------------------
(* Hives.                                                                  *)

\* Mutant: the sacs of a cleared hive are left alone.
RefilledIfAlive(h) ==
    IF h.cleared \/ h.deadline # 0 THEN h
    ELSE [h EXCEPT !.sacs = [i \in Sacs |-> SacHealth], !.deadline = NoDeadline,
                   !.fell = [i \in Sacs |-> 0]]

\* advance(): sacs that did not all fall in time are whole again.
Refilled(h) ==
    IF h.deadline # 0 THEN h
    ELSE [h EXCEPT !.sacs = [i \in Sacs |-> SacHealth], !.deadline = NoDeadline,
                   !.fell = [i \in Sacs |-> 0]]

\* advanceCampaign(): once a second refresh() meets the hives near a pilot, known or
\* new; then advance() takes those that are active (in a frame without a refresh they
\* are what they were).
Advance(near) ==
    LET met == [s \in Sites |-> IF s \in near /\ ~campaign.hive[s].known THEN NewHive
                                ELSE campaign.hive[s]]
    IN  /\ near \cap Expanded # {} => campaign.scanned
        /\ campaign' = [campaign EXCEPT !.hive =
                          [s \in Sites |-> IF s \in near THEN Refilled(met[s]) ELSE met[s]]]
        /\ changed' = changed \cup {HiveKey(s) : s \in {t \in near :
                          ~campaign.hive[t].known \/ ~met[t].cleared \/ met[t].deadline = 0}}
        /\ active' = near
        /\ late' = 0
        /\ UNCHANGED <<field, cleared, lit, disk>>

\* hit() on a sac, by a laser in flight or by one that was just fired. The first sac to
\* fall sets the deadline; whether it has passed is for advance() to see.
HitSac(s, i) ==
    LET h == campaign.hive[s]
        sacs == [h.sacs EXCEPT ![i] = @ - 1]
        all == \A j \in Sacs : sacs[j] = 0
    IN  /\ s \in active
        /\ h.sacs[i] > 0 /\ ~h.completed
        /\ campaign' = [campaign EXCEPT !.hive[s] =
                          [h EXCEPT !.sacs = sacs, !.completed = all,
                                    !.deadline = IF all THEN NoDeadline
                                                 ELSE IF sacs[i] = 0 /\ @ = NoDeadline
                                                 THEN SacWindow ELSE @,
                                    !.fell[i] = 0]]
        /\ changed' = changed \cup {HiveKey(s)}
        /\ UNCHANGED <<field, cleared, lit, active, disk, late>>

\* hit() on a queen whose shield is open.
HitQueen(s) ==
    LET h == campaign.hive[s]
        dies == h.queen = 1
    IN  /\ s \in active /\ ~h.cleared
        /\ campaign' = [campaign EXCEPT !.hive[s] = [h EXCEPT !.queen = @ - 1, !.cleared = dies]]
        /\ cleared' = IF dies THEN cleared \cup {s} ELSE cleared
        /\ changed' = changed \cup {HiveKey(s)}
        /\ UNCHANGED <<field, lit, active, disk, late>>

-----------------------------------------------------------------------------
(* Ore.                                                                    *)

\* A rock with ore grows in the field.
Regrow ==
    /\ field.yielded < MaxRocks * RockValue
    /\ field' = [field EXCEPT !.rocks = @ + 1, !.yielded = @ + RockValue]
    /\ UNCHANGED <<campaign, changed, cleared, lit, active, disk, late>>

\* Rocks and shipments can be shot to pieces.
DestroyRock ==
    /\ field.rocks > 0
    /\ field' = [field EXCEPT !.rocks = @ - 1, !.destroyed = @ + RockValue]
    /\ UNCHANGED <<campaign, changed, cleared, lit, active, disk, late>>

DestroyShipment(m) ==
    /\ field' = [field EXCEPT !.shipments = @ \ {m}, !.destroyed = @ + m.value]
    /\ UNCHANGED <<campaign, changed, cleared, lit, active, disk, late>>

\* Furnaces and ruins that take a rock in: deliveryFurnaceAt(), ruinsNear().
Burning(p) == p = Town \/ p \in lit
Ruin(p) == p \in active /\ campaign.hive[p].cleared /\ ~campaign.hive[p].commissioned
Intakes == {p \in Places : Burning(p) \/ Ruin(p)}

\* canSupply(): ore is burnt; shipments go outward along the frontier, from a place
\* that burns.
CanBurn(p) == p \in Intakes /\ Burning(p)
CanSupply(m, p) == p \in Intakes \ {Town} /\ Burning(m.source) /\ m.source < p

\* Mutant: the scanner takes all of a rock.
ToScannerWhole(c, value, p) == IF p = Town /\ ~c.scanned THEN value ELSE 0

\* recordPhysicalDelivery(): the scanner, or the ruin, takes what it still needs; what
\* is left is supply of the place.
ToScanner(c, value, p) == IF p = Town THEN Smaller(value, ScannerValue - c.delivered) ELSE 0
ToRuin(c, value, p) ==
    IF p \in Sites /\ c.hive[p].known /\ c.hive[p].cleared /\ ~c.hive[p].commissioned
    THEN Smaller(value, RestoreValue - c.hive[p].restored) ELSE 0
Left(c, value, p) == value - ToScanner(c, value, p) - ToRuin(c, value, p)

\* deliverAsteroid() removes the rock and records the delivery.
Deliver(rest, value, p) ==
    LET delivered == campaign.delivered + ToScanner(campaign, value, p)
        restored == campaign.hive[p].restored + ToRuin(campaign, value, p)
        restores == p \in Sites /\ ToRuin(campaign, value, p) > 0
        done == restores /\ restored = RestoreValue
        left == Left(campaign, value, p)
    IN  /\ field' = rest
        /\ campaign' = [campaign EXCEPT
             !.delivered = delivered,
             !.scanned = @ \/ delivered = ScannerValue,
             !.hive = IF restores
                      THEN [@ EXCEPT ![p].restored = restored, ![p].commissioned = done] ELSE @,
             !.supply[p].available = @ + left]
        /\ lit' = IF done THEN lit \cup {p} ELSE lit
        /\ changed' = changed \cup (IF p = Town THEN {ProjectKey} ELSE {})
                              \cup (IF restores THEN {HiveKey(p)} ELSE {})
                              \cup (IF left > 0 THEN {SupplyKey(p)} ELSE {})
        /\ UNCHANGED <<cleared, active, disk, late>>

\* processFurnaceDeliveries() on one rock, towed or boosted.
DeliverRock(p) ==
    /\ field.rocks > 0 /\ CanBurn(p)
    /\ Deliver([field EXCEPT !.rocks = @ - 1], RockValue, p)

DeliverShipment(m, p) ==
    /\ CanSupply(m, p)
    /\ Deliver([field EXCEPT !.shipments = @ \ {m}], m.value, p)

\* Mutant: a shipment does not use up its number.
SameNumber(n) == n

\* The number of the shipment after.
NextNumber(n) == n + 1

\* withdrawSupply(): a hauler draws a shipment from a place that burns. A shipment of
\* the same name would be replaced.
Withdraw(p) ==
    LET ledger == campaign.supply[p]
        value == Smaller(ShipmentValue, ledger.available)
        others == {m \in field.shipments : ~(m.source = p /\ m.number = ledger.next)}
    IN  /\ Burning(p) /\ ledger.available > 0
        /\ field' = [field EXCEPT !.shipments =
                       others \cup {[source |-> p, number |-> ledger.next, value |-> value]}]
        /\ campaign' = [campaign EXCEPT !.supply[p] =
                          [available |-> ledger.available - value,
                           next |-> NextNumber(ledger.next)]]
        /\ changed' = changed \cup {SupplyKey(p)}
        /\ UNCHANGED <<cleared, lit, active, disk, late>>

-----------------------------------------------------------------------------
(* Time, the database and the process.                                     *)

\* A tick passes, for what is saved as well.
Aged(h) ==
    [h EXCEPT !.deadline = IF @ > 0 THEN @ - 1 ELSE @,
              !.fell = [i \in Sacs |-> IF h.sacs[i] > 0 \/ h.completed THEN 0
                                       ELSE Smaller(@[i] + 1, SacWindow + MaxLate)]]
AgedCampaign(c) == [c EXCEPT !.hive = [s \in Sites |-> Aged(@[s])]]

Elapse ==
    /\ late < MaxLate /\ late' = late + 1
    /\ campaign' = AgedCampaign(campaign)
    /\ disk' = [disk EXCEPT !.campaign = AgedCampaign(@)]
    /\ UNCHANGED <<changed, field, cleared, lit, active>>

\* CooperativeCampaign.checkpoint(): the records with these keys are written.
Checkpointed(keys) ==
    [supply |-> [p \in Places |-> IF SupplyKey(p) \in keys THEN campaign.supply[p]
                                  ELSE disk.campaign.supply[p]],
     delivered |-> IF ProjectKey \in keys THEN campaign.delivered ELSE disk.campaign.delivered,
     scanned |-> IF ProjectKey \in keys THEN campaign.scanned ELSE disk.campaign.scanned,
     hive |-> [s \in Sites |-> IF HiveKey(s) \in keys THEN campaign.hive[s]
                               ELSE disk.campaign.hive[s]]]

\* checkpointWorld(), committed: campaign and field in one batch.
WriteBatch ==
    /\ disk' = [campaign |-> Checkpointed(changed), field |-> field]
    /\ changed' = {}
    /\ UNCHANGED <<campaign, field, cleared, lit, active, late>>

\* The process dies; the next one loads the database, and the constructors of the
\* engine and of HiveEncounters find the cleared and the restored sites.
Restart ==
    /\ campaign' = disk.campaign
    /\ field' = disk.field
    /\ changed' = {}
    /\ cleared' = {s \in Sites : disk.campaign.hive[s].known /\ disk.campaign.hive[s].cleared}
    /\ lit' = {s \in Sites : disk.campaign.hive[s].known /\ disk.campaign.hive[s].commissioned}
    /\ active' = {}
    /\ UNCHANGED <<disk, late>>

-----------------------------------------------------------------------------
FrontierInit ==
    /\ campaign = [supply |-> [p \in Places |-> [available |-> 0, next |-> 0]],
                   delivered |-> 0, scanned |-> FALSE, hive |-> [s \in Sites |-> NoHive]]
    /\ changed = {}
    /\ field = [rocks |-> 0, shipments |-> {}, yielded |-> 0, destroyed |-> 0]
    /\ cleared = {} /\ lit = {} /\ active = {}
    /\ disk = [campaign |-> campaign, field |-> field]
    /\ late = 0

FrontierNext ==
    \/ \E near \in SUBSET Sites : Advance(near)
    \/ \E s \in Sites : HitQueen(s) \/ \E i \in Sacs : HitSac(s, i)
    \/ Regrow \/ DestroyRock
    \/ \E m \in field.shipments : DestroyShipment(m)
    \/ \E p \in Places : DeliverRock(p) \/ Withdraw(p)
    \/ \E m \in field.shipments, p \in Places : DeliverShipment(m, p)
    \/ Elapse \/ WriteBatch \/ Restart

FrontierSpec == FrontierInit /\ [][FrontierNext]_frontierVars

-----------------------------------------------------------------------------
(* Properties.                                                             *)

\* validCooperativeRecord() of a hive.
ValidHive(h) ==
    /\ h.cleared <=> h.queen = 0
    /\ h.restored <= RestoreValue
    /\ h.commissioned <=> h.restored = RestoreValue
    /\ h.restored > 0 => h.cleared
    /\ h.completed <=> \A i \in Sacs : h.sacs[i] = 0
    /\ h.deadline # NoDeadline <=> ~h.completed /\ \E i \in Sacs : h.sacs[i] = 0

ValidCampaign(c) ==
    /\ c.delivered <= ScannerValue
    /\ c.scanned <=> c.delivered = ScannerValue
    /\ \A s \in Sites : ValidHive(c.hive[s])
    /\ \A s \in Expanded : c.hive[s].known => c.scanned

\* Whatever is saved can be loaded: "Invalid progress must stop loading, never reset
\* it", so a record that fails validCooperativeRecord would end every later start. And
\* what is derived of the records agrees with them, restarts included.
SavedProgressLoads ==
    /\ ValidCampaign(disk.campaign) /\ ValidCampaign(campaign)
    /\ cleared = {s \in Sites : campaign.hive[s].cleared}
    /\ lit = {s \in Sites : campaign.hive[s].commissioned}

InShipments(f) == Total([m \in f.shipments |-> m.value])
InSupply(c) == Total([p \in Places |-> c.supply[p].available])
InRuins(c) == Total([s \in Sites |-> c.hive[s].restored])

OreOf(c, f) == f.rocks * RockValue + InShipments(f) + InSupply(c) + c.delivered + InRuins(c)

\* A unit of ore is in one place: a rock, a shipment, the supply of one furnace, the
\* scanner or one ruin, until it is destroyed; in memory, and in what a crash at any
\* moment leaves behind.
OreIsHeldOnce ==
    /\ OreOf(campaign, field) + field.destroyed = field.yielded
    /\ OreOf(disk.campaign, disk.field) + disk.field.destroyed = disk.field.yielded

\* While sacs of a hive still stand, a deadline that has not passed leaves each that fell
\* the rest of its window; and only a hive that somebody met has made progress.
HiveInOrder(h) ==
    /\ ~h.completed /\ h.deadline > 0
         => \A i \in Sacs : h.sacs[i] = 0 => h.fell[i] + h.deadline <= SacWindow
    /\ h.cleared \/ h.completed => h.known

\* When these ticks had still to pass, every fallen sac was within its window.
SacsInTime(h, ticks) ==
    ~h.completed => \A i \in Sacs : h.sacs[i] = 0 => h.fell[i] < SacWindow + ticks

\* A record that differs from the saved one has its key among the changed ones, and no
\* progress on the disk is ahead of memory.
DiskIsBehind ==
    /\ \A p \in Places : SupplyKey(p) \notin changed
                           => campaign.supply[p] = disk.campaign.supply[p]
    /\ ProjectKey \notin changed => /\ campaign.delivered = disk.campaign.delivered
                                    /\ campaign.scanned = disk.campaign.scanned
    /\ \A s \in Sites : HiveKey(s) \notin changed => campaign.hive[s] = disk.campaign.hive[s]
    /\ \A s \in Sites : disk.campaign.hive[s].completed => campaign.hive[s].completed

\* A hive that a laser can hit was met, and the last frame refilled its sacs if it had to.
ActiveAreCurrent ==
    \A s \in active : campaign.hive[s].known /\ SacsInTime(campaign.hive[s], late)

\* The inductive invariant.
FrontierInv ==
    /\ FrontierTypeOK
    /\ SavedProgressLoads
    /\ \A s \in Sites : HiveInOrder(campaign.hive[s]) /\ HiveInOrder(disk.campaign.hive[s])
    /\ DiskIsBehind
    /\ ActiveAreCurrent

\* No shipment has a number that its furnace has still to give.
NumbersAreGiven(c, f) ==
    /\ IsFiniteSet(f.shipments)
    /\ \A m \in f.shipments : m.number < c.supply[m.source].next

\* What the books of the ore rest on.
OreInv ==
    NumbersAreGiven(campaign, field) /\ NumbersAreGiven(disk.campaign, disk.field) /\ OreIsHeldOnce

\* The sacs of a hive count only if, at the last frame, each that had fallen was within its
\* window, whoever was near meanwhile and whatever process ran: hit() does not look at
\* the deadline, so a shot between two frames may complete the set late, but advance()
\* lets no late set through a frame.
LateSacsAreRefilled ==
    [][\A s \in Sites :
         ~campaign.hive[s].completed /\ campaign'.hive[s].completed
           => \A i \in Sacs : campaign'.hive[s].fell[i] < SacWindow + late]_frontierVars
=============================================================================
