----------------------------- MODULE CargoLedger -----------------------------
(* Where every point of the economy is.                                    *)
(*                                                                         *)
(* A point is loose in a pod, aboard a ship, in the row of a pilot who is  *)
(* away, or banked; what a pilot banked is also its score until it is      *)
(* spent in the store or on a furnace.  The engine moves points between    *)
(* these places and a batch per second carries what it marked as changed:  *)
(* the economy row (bank and pods), the world row (lit furnaces) and the   *)
(* rows of the pilots that changed.  Bots are not saved: what they carry   *)
(* is written as pods.                                                     *)
(*                                                                         *)
(* A point is an indivisible coin, so that "lost" and "doubled" can be     *)
(* told apart; the one the code splits off a pod or a hold is a set of     *)
(* coins.  Positions are left out: who reaches what is a choice.           *)
EXTENDS FiniteSets, Integers

CONSTANTS
    Coins,   \* the points there may ever be
    Pilots,  \* human players
    Bots,    \* server ships; also the ids of the pods that hold their cargo in a saved row
    Pods,    \* ids of point drops
    Lots,    \* civic lots, where furnaces can be built
    Holds,   \* cargo capacities, one per kit
    NoImage  \* no batch is in flight

ASSUME CargoAssumption ==
    /\ Holds \subseteq Nat
    /\ NoImage \notin [pods: [Pods \cup Bots -> SUBSET Coins], bank: SUBSET Coins,
                       share: SUBSET Coins, price: [Lots -> SUBSET Coins],
                       rows: [Pilots -> [cargo: SUBSET Coins, score: SUBSET Coins,
                                         spent: SUBSET Coins]]]
    /\ Pilots \cap Bots = {}
    /\ Pods \cap (Pilots \cup Bots) = {}

Crew == Pilots \cup Bots
Keys == Pods \cup Bots

VARIABLES
    live,      \* ships in the world (EntityManager)
    cargo,     \* per ship, the coins aboard
    hold,      \* per ship, its capacity
    score,     \* per pilot in the world, banked coins it has not spent
    spent,     \* per pilot in the world, coins paid in the store
    record,    \* per pilot, its row in memory (GameEngine.pilots)
    dirty,     \* pilots whose row is to be written
    pods,      \* per key, the coins of the drop; empty when there is none
    bank,      \* coins of the settlement
    share,     \* ghost: the coins of the bank that pilots brought in
    price,     \* per lot, the coins its furnace was built with
    moved,     \* pointRevision or the settlement is not the one last saved
    litMoved,  \* the lit furnaces are not the ones last saved
    botsSaved, \* the last batch held cargo of bots
    waiting,   \* a flush waits for the writer (flushWaitingForIdle)
    inflight,  \* what the database will hold once the batch in flight has landed
    db         \* what the database holds

ships   == <<live, cargo, hold, score, spent>>
rows    == <<record, dirty>>
town    == <<bank, share, price, litMoved>>
writer  == <<botsSaved, waiting, inflight, db>>
vars    == <<ships, rows, pods, moved, town, writer>>

-----------------------------------------------------------------------------
(* What there is, in memory and in a saved image.                          *)

Row == [cargo: SUBSET Coins, score: SUBSET Coins, spent: SUBSET Coins]
Image == [pods: [Keys -> SUBSET Coins], bank: SUBSET Coins, share: SUBSET Coins,
          price: [Lots -> SUBSET Coins], rows: [Pilots -> Row]]

Idle == inflight = NoImage
Paused == live \cap Pilots = {}

\* Frames and messages run one at a time, and a flush that waited for the writer
\* runs right after the commit's answer, before any of them.
Ready == ~(waiting /\ Idle)
Playing == Ready /\ ~Paused

\* snapshotPilot
Snapshot(p) == [cargo |-> cargo[p], score |-> score[p], spent |-> spent[p]]

\* What is true of a pilot: what its ship has, or its row while it is away.
Account(p) == IF p \in live THEN Snapshot(p) ELSE record[p]

\* LootManager.savedPoints and BotFleet.savedCargo: the pods of the economy row.
SavedPods ==
    [k \in Keys |-> IF k \in live THEN cargo[k] ELSE pods[k]]
BotCargo == UNION {cargo[b] : b \in Bots \cap live}

\* All of it, as one image.
Now == [pods |-> SavedPods, bank |-> bank, share |-> share, price |-> price,
        rows |-> [p \in Pilots |-> Account(p)]]

\* The image the next batch builds on.
Saved == IF Idle THEN db ELSE inflight

Mentioned(i) ==
    {x \in Coins : \/ x \in i.bank
                   \/ \E k \in Keys : x \in i.pods[k]
                   \/ \E l \in Lots : x \in i.price[l]
                   \/ \E p \in Pilots : x \in i.rows[p].cargo \cup i.rows[p].score
                                                \cup i.rows[p].spent}

\* Points nothing speaks of: the ones a new source can yield.
Unused == {x \in Coins : /\ x \notin Mentioned(Now) \cup Mentioned(db) \cup Mentioned(Saved)
                         /\ \A k \in Keys : x \notin pods[k]}

\* An id is drawn at random: nothing in memory or in a row has it.
Free(k) == pods[k] = {} /\ k \notin live /\ db.pods[k] = {} /\ Saved.pods[k] = {}

Room(c) == hold[c] - Cardinality(cargo[c])

\* canCollectLoot.  A ship that is down, waits for its respawn or has its overlay
\* open is one that reaches nothing for a while.
CanCollect(c) == c \in live /\ Room(c) > 0

\* fitCargo: what of S is kept in a hold of h coins.
Fitted(S, h) ==
    {T \in SUBSET S : IF Cardinality(S) <= h THEN T = S ELSE Cardinality(T) = h}

\* capturePilot: the row takes what the ship has.  Bots have no row.
Capture(c) ==
    IF c \in Pilots
    THEN /\ record' = [record EXCEPT ![c] = Snapshot(c)']
         /\ dirty' = dirty \cup {c}
    ELSE UNCHANGED rows

-----------------------------------------------------------------------------
(* The batch: checkpointWorld.                                             *)

\* Mutant: the bots' last saved cargo does not make the next batch carry the economy.
BatchForgettingBots(memory, changed, economyDue, litDue) ==
    LET economy == economyDue \/ BotCargo # {}
    IN [pods |-> IF economy THEN memory.pods ELSE Saved.pods,
        bank |-> IF economy THEN memory.bank ELSE Saved.bank,
        share |-> IF economy THEN memory.share ELSE Saved.share,
        price |-> IF litDue THEN memory.price ELSE Saved.price,
        rows |-> [p \in Pilots |-> IF p \in changed THEN memory.rows[p] ELSE Saved.rows[p]]]

\* What the database will hold: the parts marked as changed are memory's, the
\* others are as they were saved.
Batch(memory, changed, economyDue, litDue) ==
    LET economy == economyDue \/ BotCargo # {} \/ botsSaved
    IN [pods |-> IF economy THEN memory.pods ELSE Saved.pods,
        bank |-> IF economy THEN memory.bank ELSE Saved.bank,
        share |-> IF economy THEN memory.share ELSE Saved.share,
        price |-> IF litDue THEN memory.price ELSE Saved.price,
        rows |-> [p \in Pilots |-> IF p \in changed THEN memory.rows[p] ELSE Saved.rows[p]]]

Clean == moved' = FALSE /\ litMoved' = FALSE /\ dirty' = {}

\* Every pilot in the world is captured, then the batch leaves.
Flush ==
    /\ Idle
    /\ record' = [p \in Pilots |-> Account(p)]
    /\ inflight' = Batch(Now, dirty \cup (live \cap Pilots), moved, litMoved)
    /\ Clean
    /\ botsSaved' = (BotCargo # {})
    /\ waiting' = FALSE
    /\ UNCHANGED <<ships, pods, bank, share, price, db>>

\* Once a second, at the end of a frame, if the writer is idle.
PeriodicFlush == Playing /\ Flush

\* The flush a departure asked for while the writer was busy.
DeferredFlush == waiting /\ Flush

\* The worker's commit.
Land ==
    /\ ~Idle
    /\ db' = inflight
    /\ inflight' = NoImage
    /\ UNCHANGED <<ships, rows, pods, moved, town, botsSaved, waiting>>

-----------------------------------------------------------------------------
NoRow == [cargo |-> {}, score |-> {}, spent |-> {}]
Nothing == [pods |-> [k \in Keys |-> {}], bank |-> {}, share |-> {},
            price |-> [l \in Lots |-> {}], rows |-> [p \in Pilots |-> NoRow]]

Init ==
    /\ live = {}
    /\ cargo = [c \in Crew |-> {}]
    /\ \E h \in Holds : hold = [c \in Crew |-> h]
    /\ db = Nothing
    /\ score = [p \in Pilots |-> {}]
    /\ spent = [p \in Pilots |-> {}]
    /\ record = db.rows
    /\ dirty = {}
    /\ pods = db.pods
    /\ bank = {}
    /\ share = {}
    /\ price = db.price
    /\ moved = TRUE /\ litMoved = TRUE
    /\ botsSaved = FALSE
    /\ waiting = FALSE
    /\ inflight = NoImage

(* Coming and going.                                                       *)

\* A first join, or resumePilot of a pilot who is away: the ship takes what the
\* row holds, as far as its kit, the saved or a requested one, has room for it.
Join(p, h, kept) ==
    /\ Ready
    /\ p \notin live
    /\ kept \in Fitted(record[p].cargo, h)
    /\ live' = live \cup {p}
    /\ cargo' = [cargo EXCEPT ![p] = kept]
    /\ hold' = [hold EXCEPT ![p] = h]
    /\ score' = [score EXCEPT ![p] = record[p].score]
    /\ spent' = [spent EXCEPT ![p] = record[p].spent]
    /\ UNCHANGED <<pods, moved, town, writer>>
    /\ Capture(p)

\* resumePilot of a pilot whose ship is still there, in another kit.  The row is
\* marked for the client's release, but not captured.
SwitchKit(p, h, kept) ==
    /\ Ready
    /\ p \in live
    /\ h # hold[p]
    /\ kept \in Fitted(cargo[p], h)
    /\ cargo' = [cargo EXCEPT ![p] = kept]
    /\ hold' = [hold EXCEPT ![p] = h]
    /\ dirty' = dirty \cup {p}
    /\ UNCHANGED <<live, score, spent, record, pods, moved, town, writer>>

\* The ship is gone from memory, its row stays.
Emptied(c) ==
    /\ cargo' = [cargo EXCEPT ![c] = {}]
    /\ score' = [score EXCEPT ![c] = {}]
    /\ spent' = [spent EXCEPT ![c] = {}]
    /\ UNCHANGED hold

\* removePlayer of a pilot who leaves others behind.
Leave(p) ==
    /\ Ready
    /\ p \in live
    /\ live \cap Pilots # {p}
    /\ live' = live \ {p}
    /\ record' = [record EXCEPT ![p] = Snapshot(p)]
    /\ dirty' = dirty \cup {p}
    /\ Emptied(p)
    /\ UNCHANGED <<pods, moved, town, writer>>

\* Pods after every bot has spilled its hold; spill names the pod each one makes.
Spilled(spill) ==
    [k \in Keys |-> pods[k] \cup UNION {cargo[b] : b \in {a \in DOMAIN spill : spill[a] = k}}]
Laden == {b \in Bots \cap live : cargo[b] # {}}
Injective(f) == \A a, b \in DOMAIN f : f[a] = f[b] => a = b

\* removePlayer of the last pilot: the bots leave too, spilling their cargo, and
\* the paused world is flushed, at once or when the writer is idle.
LeaveLast(p, spill) ==
    LET left == Spilled(spill)
        memory == [Now EXCEPT !.pods = left]
    IN /\ Ready
       /\ live \cap Pilots = {p}
       /\ DOMAIN spill = Laden
       /\ Injective(spill)
       /\ live' = {}
       /\ cargo' = [c \in Crew |-> {}]
       /\ score' = [score EXCEPT ![p] = {}]
       /\ spent' = [spent EXCEPT ![p] = {}]
       /\ record' = [record EXCEPT ![p] = Snapshot(p)]
       /\ pods' = left
       /\ IF Idle
          THEN /\ inflight' = Batch(memory, dirty \cup {p}, moved \/ Laden # {}, litMoved)
               /\ Clean
               /\ botsSaved' = FALSE
               /\ UNCHANGED waiting
          ELSE /\ waiting' = TRUE
               /\ dirty' = dirty \cup {p}
               /\ moved' = (moved \/ Laden # {})
               /\ UNCHANGED <<inflight, botsSaved, litMoved>>
       /\ UNCHANGED <<hold, bank, share, price, db>>

\* BotFleet.advance: a bot under a fresh id.
BotArrives(b) ==
    /\ Playing
    /\ Free(b)
    /\ live' = live \cup {b}
    /\ UNCHANGED <<cargo, hold, score, spent, rows, pods, moved, town, writer>>

\* A bot too far from every pilot is removed and leaves its cargo as a pod.
BotLeaves(b, k) ==
    /\ Playing
    /\ b \in live
    /\ Free(k)
    /\ live' = live \ {b}
    /\ cargo' = [cargo EXCEPT ![b] = {}]
    /\ pods' = [pods EXCEPT ![k] = cargo[b]]
    /\ moved' = (moved \/ cargo[b] # {})
    /\ UNCHANGED <<hold, score, spent, rows, town, writer>>

(* Points in play.                                                         *)

\* A full glowtoy bursts into a pod.
FindCache(k, S) ==
    /\ Playing
    /\ Free(k)
    /\ S \subseteq Unused
    /\ pods' = [pods EXCEPT ![k] = S]
    /\ moved' = TRUE
    /\ UNCHANGED <<ships, rows, town, writer>>

\* A ship picks up a shard, a canister or a satellite.  What does not fit stays in
\* the shard, which is not saved, or becomes a pod at k (addCargo).
Gain(c, S, over, k) ==
    /\ Playing
    /\ CanCollect(c)
    /\ S \cup over \subseteq Unused
    /\ S \cap over = {}
    /\ Cardinality(S) <= Room(c)
    /\ over # {} => Cardinality(S) = Room(c) /\ Free(k)
    /\ cargo' = [cargo EXCEPT ![c] = @ \cup S]
    /\ pods' = IF over = {} THEN pods ELSE [pods EXCEPT ![k] = over]
    /\ moved' = (moved \/ over # {})
    /\ UNCHANGED <<live, hold, score, spent, town, writer>>
    /\ Capture(c)

\* Mutant: the pod a ship empties is not counted as a change of the pods.
CollectUnnoticed(c, k, S) ==
    /\ Playing
    /\ CanCollect(c)
    /\ S \in Fitted(pods[k], Room(c))
    /\ cargo' = [cargo EXCEPT ![c] = @ \cup S]
    /\ pods' = [pods EXCEPT ![k] = @ \ S]
    /\ UNCHANGED <<live, hold, score, spent, moved, town, writer>>
    /\ Capture(c)

\* Mutant: a ship that cannot take all of a pod leaves all of it.
CollectCopying(c, k, S) ==
    /\ Playing
    /\ CanCollect(c)
    /\ S \in Fitted(pods[k], Room(c))
    /\ cargo' = [cargo EXCEPT ![c] = @ \cup S]
    /\ pods' = [pods EXCEPT ![k] = IF S = @ THEN {} ELSE @]
    /\ moved' = TRUE
    /\ UNCHANGED <<live, hold, score, spent, town, writer>>
    /\ Capture(c)

\* collectOverlaps and collectLoot: the first ship in reach takes what it has room
\* for and leaves the rest.
Collect(c, k, S) ==
    /\ Playing
    /\ CanCollect(c)
    /\ S \in Fitted(pods[k], Room(c))
    /\ cargo' = [cargo EXCEPT ![c] = @ \cup S]
    /\ pods' = [pods EXCEPT ![k] = @ \ S]
    /\ moved' = TRUE
    /\ UNCHANGED <<live, hold, score, spent, town, writer>>
    /\ Capture(c)

\* expire: the frame removes a pod whose deadline, on the wall clock, has passed.
Expire(k) ==
    /\ Playing
    /\ pods[k] # {}
    /\ pods' = [pods EXCEPT ![k] = {}]
    /\ moved' = TRUE
    /\ UNCHANGED <<ships, rows, town, writer>>

\* handleShipDamage: the hit knocks cargo out, one pod per coin of spill.  A pilot
\* downed by it keeps the rest; a ship that is destroyed loses it (applyShipDeath).
Hit(c, spill, destroyed) ==
    LET S == DOMAIN spill
    IN /\ Playing
       /\ c \in live
       /\ S \subseteq cargo[c]
       /\ Injective(spill)
       /\ \A x \in S : Free(spill[x])
       /\ cargo' = [cargo EXCEPT ![c] = IF destroyed THEN {} ELSE @ \ S]
       /\ pods' = [k \in Keys |-> pods[k] \cup {x \in S : spill[x] = k}]
       /\ moved' = (moved \/ S # {})
       /\ UNCHANGED <<live, hold, score, spent, town, writer>>
       /\ Capture(c)

\* finishDowned: nobody came to a downed pilot, or it gave up.
Succumb(p) ==
    /\ Playing
    /\ p \in live
    /\ cargo' = [cargo EXCEPT ![p] = {}]
    /\ UNCHANGED <<live, hold, score, spent, pods, moved, town, writer>>
    /\ Capture(p)

(* The bank.                                                               *)

\* depositCargo: the next part of the cargo over a furnace's intake.
Deposit(c, x) ==
    /\ Playing
    /\ c \in live
    /\ x \in cargo[c]
    /\ cargo' = [cargo EXCEPT ![c] = @ \ {x}]
    /\ bank' = bank \cup {x}
    /\ moved' = TRUE
    /\ IF c \in Pilots
       THEN share' = share \cup {x} /\ score' = [score EXCEPT ![c] = @ \cup {x}]
       ELSE UNCHANGED <<share, score>>
    /\ UNCHANGED <<live, hold, spent, pods, price, litMoved, writer>>
    /\ Capture(c)

\* awardPilotPoints for a rock delivered to a furnace: the launcher or surveyor may
\* have left, and then its row is paid.
Award(p, x) ==
    /\ Playing
    /\ x \in Unused
    /\ bank' = bank \cup {x}
    /\ share' = share \cup {x}
    /\ moved' = TRUE
    /\ IF p \in live
       THEN /\ score' = [score EXCEPT ![p] = @ \cup {x}]
            /\ UNCHANGED <<live, cargo, hold, spent>>
            /\ Capture(p)
       ELSE /\ record' = [record EXCEPT ![p].score = @ \cup {x}]
            /\ dirty' = dirty \cup {p}
            /\ UNCHANGED ships
    /\ UNCHANGED <<pods, price, litMoved, writer>>

\* buyStoreItem
Buy(p, S) ==
    /\ Playing
    /\ p \in live
    /\ S \subseteq score[p]
    /\ score' = [score EXCEPT ![p] = @ \ S]
    /\ spent' = [spent EXCEPT ![p] = @ \cup S]
    /\ UNCHANGED <<live, cargo, hold, pods, moved, town, writer>>
    /\ Capture(p)

\* buildFurnace: the price leaves the score and the lot is lit.
Build(p, l, S) ==
    /\ Playing
    /\ p \in live
    /\ price[l] = {}
    /\ S # {} /\ S \subseteq score[p]
    /\ score' = [score EXCEPT ![p] = @ \ S]
    /\ price' = [price EXCEPT ![l] = S]
    /\ litMoved' = TRUE
    /\ UNCHANGED <<live, cargo, hold, spent, pods, moved, bank, share, writer>>
    /\ Capture(p)

\* The process dies and a new one loads the database; the batch in flight may have
\* landed.  Pods whose deadline passed meanwhile are not restored.
Crash(lapsed) ==
    /\ db' \in {db, Saved}
    /\ \A k \in lapsed : db'.pods[k] # {}
    /\ inflight' = NoImage
    /\ waiting' = FALSE
    /\ botsSaved' = FALSE
    /\ live' = {}
    /\ cargo' = [c \in Crew |-> {}]
    /\ UNCHANGED hold
    /\ score' = [p \in Pilots |-> {}]
    /\ spent' = [p \in Pilots |-> {}]
    /\ record' = db'.rows
    /\ dirty' = {}
    /\ pods' = [k \in Keys |-> IF k \in lapsed THEN {} ELSE db'.pods[k]]
    /\ bank' = db'.bank
    /\ share' = db'.share
    /\ price' = db'.price
    /\ moved' = TRUE /\ litMoved' = TRUE

Departure ==
    \E p \in Pilots :
        \/ Leave(p)
        \/ \E spill \in [Laden -> {k \in Pods : Free(k)}] : LeaveLast(p, spill)

Knock ==
    \E c \in Crew : \E S \in SUBSET cargo[c] : \E destroyed \in BOOLEAN :
        \E spill \in [S -> {k \in Pods : Free(k)}] : Hit(c, spill, destroyed)

Finding ==
    \E S \in SUBSET Unused :
        \/ \E k \in Pods : S # {} /\ FindCache(k, S)
        \/ \E c \in Crew, k \in Pods, over \in SUBSET S : S # {} /\ Gain(c, S \ over, over, k)

Next ==
    \/ PeriodicFlush \/ DeferredFlush \/ Land
    \/ \E p \in Pilots, h \in Holds :
           \/ \E kept \in SUBSET record[p].cargo : Join(p, h, kept)
           \/ \E kept \in SUBSET cargo[p] : SwitchKit(p, h, kept)
    \/ Departure
    \/ \E b \in Bots : BotArrives(b) \/ \E k \in Pods : BotLeaves(b, k)
    \/ Finding
    \/ \E c \in Crew, k \in Keys : \E S \in (SUBSET pods[k]) \ {{}} : Collect(c, k, S)
    \/ \E k \in Keys : Expire(k)
    \/ Knock
    \/ \E p \in Pilots : Succumb(p)
    \/ \E c \in Crew : \E x \in cargo[c] : Deposit(c, x)
    \/ \E p \in Pilots : \E x \in Unused : Award(p, x)
    \/ \E p \in Pilots : \E S \in (SUBSET score[p]) \ {{}} :
           Buy(p, S) \/ \E l \in Lots : Build(p, l, S)
    \/ \E lapsed \in SUBSET Keys : Crash(lapsed)

Spec == Init /\ [][Next]_vars

-----------------------------------------------------------------------------
(* Properties.                                                             *)

TypeOK ==
    /\ live \subseteq Crew
    /\ cargo \in [Crew -> SUBSET Coins]
    /\ hold \in [Crew -> Holds]
    /\ score \in [Pilots -> SUBSET Coins]
    /\ spent \in [Pilots -> SUBSET Coins]
    /\ record \in [Pilots -> Row]
    /\ dirty \subseteq Pilots
    /\ pods \in [Keys -> SUBSET Coins]
    /\ bank \subseteq Coins
    /\ share \subseteq Coins
    /\ price \in [Lots -> SUBSET Coins]
    /\ {moved, litMoved, botsSaved, waiting} \subseteq BOOLEAN
    /\ db \in Image
    /\ inflight \in Image \cup {NoImage}

\* In an image every point is in one place: one pod, one hold or the bank.
HeldOnce(i) ==
    /\ \A j, k \in Keys : j # k => i.pods[j] \cap i.pods[k] = {}
    /\ \A p, q \in Pilots : p # q => i.rows[p].cargo \cap i.rows[q].cargo = {}
    /\ \A k \in Keys, p \in Pilots : i.pods[k] \cap i.rows[p].cargo = {}
    /\ \A k \in Keys : i.pods[k] \cap i.bank = {}
    /\ \A p \in Pilots : i.rows[p].cargo \cap i.bank = {}

\* And every point the pilots banked is in one pilot's score, or was spent once.
Earned(i, p) == i.rows[p].score \cup i.rows[p].spent
BooksBalance(i) ==
    /\ i.share \subseteq i.bank
    /\ \A x \in Coins : x \in i.share
          <=> (\E p \in Pilots : x \in Earned(i, p)) \/ (\E l \in Lots : x \in i.price[l])
    /\ \A p, q \in Pilots : p # q => Earned(i, p) \cap Earned(i, q) = {}
    /\ \A p \in Pilots : i.rows[p].score \cap i.rows[p].spent = {}
    /\ \A p \in Pilots, l \in Lots : Earned(i, p) \cap i.price[l] = {}
    /\ \A l, m \in Lots : l # m => i.price[l] \cap i.price[m] = {}

\* A ship that is not there has nothing, and no pod has the id of a bot that is.
AwayIsEmpty ==
    /\ \A c \in Crew \ live : cargo[c] = {}
    /\ \A p \in Pilots \ live : score[p] = {} /\ spent[p] = {}
    /\ \A b \in Bots \cap live : pods[b] = {}

\* What is not marked as changed is saved.
MarksAreComplete ==
    /\ ~moved /\ ~botsSaved =>
          /\ Saved.bank = bank
          /\ Saved.share = share
          /\ \A k \in Keys : Saved.pods[k] = IF k \in live THEN {} ELSE pods[k]
    /\ ~litMoved => Saved.price = price
    /\ \A p \in Pilots \ (dirty \cup live) : Saved.rows[p] = record[p]

\* No pick-up, spill, deposit, purchase, hit, departure or kit change doubles a
\* point, and a pilot's score is what it banked and has not spent.
EveryPointOnce == HeldOnce(Now) /\ BooksBalance(Now)

\* A restart finds the same: whatever is in the database, or will be when the batch
\* in flight lands, holds every point once, although its parts are written by
\* different rules.
SavedPointsOnce ==
    /\ HeldOnce(db) /\ BooksBalance(db)
    /\ ~Idle => HeldOnce(inflight) /\ BooksBalance(inflight)

\* The inductive invariant.
IInv == TypeOK /\ AwayIsEmpty /\ EveryPointOnce /\ SavedPointsOnce /\ MarksAreComplete

\* A batch carries everything that is not yet saved: what the database will hold is
\* the world of that instant.
BatchIsTheWorld == [][Idle /\ inflight' # NoImage => inflight' = Now']_vars
=============================================================================
