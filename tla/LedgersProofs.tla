---------------------------- MODULE LedgersProofs ----------------------------
(***************************************************************************)
(* The two books of what pilots own.  In CargoLedger a point is in one     *)
(* place, in memory and in the database: IInv is inductive, and each       *)
(* action is shown to keep its five parts.  The images of the ledger are   *)
(* compared place by place: NowIs says what is at each place of memory,    *)
(* and an action's lemma says which coins may have come to a place; that   *)
(* no coin is then at two of them follows.                                 *)
(*                                                                         *)
(* In Frontier what is saved can be loaded, a batch carries the whole      *)
(* campaign, the sacs of a hive fall in one window, and each unit of ore   *)
(* is in one place: FrontierInv is inductive, and OreInv is relative to    *)
(* it.                                                                     *)
(***************************************************************************)
EXTENDS CargoLedger, Frontier, AmountsProofs

-----------------------------------------------------------------------------
(* Images.                                                                 *)

\* What memory holds, place by place.
NowIs ==
    /\ Now \in Image
    /\ \A k \in Keys : Now.pods[k] = IF k \in live THEN cargo[k] ELSE pods[k]
    /\ \A p \in Pilots :
          /\ Now.rows[p].cargo = IF p \in live THEN cargo[p] ELSE record[p].cargo
          /\ Now.rows[p].score = IF p \in live THEN score[p] ELSE record[p].score
          /\ Now.rows[p].spent = IF p \in live THEN spent[p] ELSE record[p].spent
    /\ Now.bank = bank /\ Now.share = share /\ Now.price = price

\* The image Now says at each place what the variables of that place say.
LEMMA NowTable == TypeOK => NowIs
<1> SUFFICES ASSUME TypeOK PROVE NowIs
  OBVIOUS
<1>1. SavedPods \in [Keys -> SUBSET Coins]
  BY DEF TypeOK, SavedPods, Keys, Crew
<1>2. \A p \in Pilots : Account(p) \in Row
  BY DEF TypeOK, Account, Snapshot, Row, Crew
<1>3. ASSUME NEW p \in Pilots
      PROVE  /\ Account(p).cargo = IF p \in live THEN cargo[p] ELSE record[p].cargo
             /\ Account(p).score = IF p \in live THEN score[p] ELSE record[p].score
             /\ Account(p).spent = IF p \in live THEN spent[p] ELSE record[p].spent
  <2>1. CASE p \in live
    BY <2>1 DEF Account, Snapshot
  <2>2. CASE p \notin live
    BY <2>2 DEF Account
  <2> QED BY <2>1, <2>2
<1>4. /\ Now \in Image
      /\ \A k \in Keys : Now.pods[k] = IF k \in live THEN cargo[k] ELSE pods[k]
      /\ \A p \in Pilots : Now.rows[p] = Account(p)
      /\ Now.bank = bank /\ Now.share = share /\ Now.price = price
  BY <1>1, <1>2 DEF Now, Image, TypeOK, SavedPods
<1> QED BY <1>3, <1>4 DEF NowIs

\* Coin x is in one place of image j at most.
Once(j, x) ==
    /\ \A k, m \in Keys : x \in j.pods[k] /\ x \in j.pods[m] => k = m
    /\ \A p, q \in Pilots : x \in j.rows[p].cargo /\ x \in j.rows[q].cargo => p = q
    /\ \A k \in Keys : x \in j.pods[k] => x \notin j.bank
    /\ \A p \in Pilots : x \in j.rows[p].cargo => x \notin j.bank
    /\ \A k \in Keys, p \in Pilots : ~(x \in j.pods[k] /\ x \in j.rows[p].cargo)

\* HeldOnce, coin by coin.
LEMMA HeldIsOnce ==
  ASSUME NEW i \in Image
  PROVE  HeldOnce(i) <=> \A x \in Coins : Once(i, x)
<1>1. ASSUME HeldOnce(i), NEW x \in Coins
      PROVE  Once(i, x)
  BY <1>1 DEF Once, HeldOnce
<1>2. ASSUME \A x \in Coins : Once(i, x)
      PROVE  HeldOnce(i)
  BY <1>2 DEF Once, HeldOnce, Image, Row
<1> QED BY <1>1, <1>2

\* The coins of N may have come to any place, but each to one; no other has come to any.
LEMMA HeldAfter ==
  ASSUME NEW i \in Image, NEW j \in Image, NEW N \in SUBSET Coins, HeldOnce(i),
         \A k \in Keys : \A x \in j.pods[k] \ N : x \in i.pods[k],
         \A p \in Pilots : \A x \in j.rows[p].cargo \ N : x \in i.rows[p].cargo,
         \A x \in j.bank \ N : x \in i.bank,
         \A x \in N : Once(j, x)
  PROVE  HeldOnce(j)
<1>1. ASSUME NEW x \in Coins, x \notin N
      PROVE  Once(j, x)
  BY <1>1, HeldIsOnce DEF Once
<1> QED BY <1>1, HeldIsOnce

\* Nothing has come to any place.
LEMMA HeldLess ==
  ASSUME NEW i \in Image, NEW j \in Image, HeldOnce(i),
         \A k \in Keys : \A x \in j.pods[k] : x \in i.pods[k],
         \A p \in Pilots : \A x \in j.rows[p].cargo : x \in i.rows[p].cargo,
         \A x \in j.bank : x \in i.bank
  PROVE  HeldOnce(j)
<1>1. ASSUME NEW x \in Coins
      PROVE  Once(j, x)
  BY HeldIsOnce DEF Once
<1> QED BY <1>1, HeldIsOnce

\* The books of an image depend on what was banked, the scores and the prices only.
LEMMA BooksSame ==
  ASSUME NEW i \in Image, NEW j \in Image, BooksBalance(i),
         j.share = i.share, j.share \subseteq j.bank, j.price = i.price,
         \A p \in Pilots : j.rows[p].score = i.rows[p].score
                           /\ j.rows[p].spent = i.rows[p].spent
  PROVE  BooksBalance(j)
<1>1. \A p \in Pilots : Earned(j, p) = Earned(i, p)
  BY DEF Earned
<1> QED BY <1>1 DEF BooksBalance

\* A coin nothing speaks of is nowhere in memory.
LEMMA UnusedIsNowhere ==
  ASSUME EveryPointOnce, NEW x \in Unused
  PROVE  /\ x \in Coins
         /\ x \notin Now.bank /\ x \notin Now.share
         /\ \A k \in Keys : x \notin Now.pods[k] /\ x \notin pods[k]
         /\ \A l \in Lots : x \notin Now.price[l]
         /\ \A p \in Pilots : /\ x \notin Now.rows[p].cargo
                              /\ x \notin Now.rows[p].score
                              /\ x \notin Now.rows[p].spent
<1>1. x \in Coins /\ x \notin Mentioned(Now) /\ \A k \in Keys : x \notin pods[k]
  BY DEF Unused
<1>2. x \notin Now.share
  BY <1>1 DEF Mentioned, EveryPointOnce, BooksBalance
<1> QED BY <1>1, <1>2 DEF Mentioned

\* What a ship carries is aboard no other, in no pod and not in the bank.
LEMMA AboardIsOnce ==
  ASSUME IInv, NowIs, NEW c \in live, NEW x \in cargo[c]
  PROVE  /\ x \in Coins /\ c \in Crew /\ x \notin Now.bank
         /\ \A k \in Keys : x \in Now.pods[k] => k = c
         /\ \A p \in Pilots : x \in Now.rows[p].cargo => p = c
<1>1. c \in Crew /\ cargo[c] \in SUBSET Coins /\ HeldOnce(Now)
  BY DEF IInv, TypeOK, EveryPointOnce
<1>2. CASE c \in Pilots
  <2>1. x \in Now.rows[c].cargo
    BY <1>2 DEF NowIs
  <2>2. \A k \in Keys : x \notin Now.pods[k]
    BY <1>1, <1>2, <2>1 DEF HeldOnce
  <2> QED BY <1>1, <1>2, <2>1, <2>2 DEF HeldOnce
<1>3. CASE c \in Bots
  <2>1. c \in Keys /\ x \in Now.pods[c]
    BY <1>3 DEF NowIs, Keys
  <2>2. \A p \in Pilots : x \notin Now.rows[p].cargo
    BY <1>1, <2>1 DEF HeldOnce
  <2> QED BY <1>1, <2>1, <2>2 DEF HeldOnce
<1> QED BY <1>1, <1>2, <1>3 DEF Crew

\* What is saved, or about to be, stays right as long as nothing is written.
LEMMA SavedStays ==
  ASSUME SavedPointsOnce, UNCHANGED <<db, inflight>>
  PROVE  SavedPointsOnce'
  BY DEF SavedPointsOnce, Idle

-----------------------------------------------------------------------------
(* Actions on points.                                                      *)

\* What a ship takes out of a pod is aboard, and no longer in the pod.
LEMMA CollectStep ==
  ASSUME IInv, NEW c \in Crew, NEW k \in Keys, NEW S \in SUBSET pods[k], Collect(c, k, S)
  PROVE  IInv'
<1>0. /\ cargo' = [cargo EXCEPT ![c] = @ \cup S]
      /\ pods' = [pods EXCEPT ![k] = @ \ S]
      /\ moved' = TRUE
      /\ c \in live
      /\ UNCHANGED <<live, score, spent, bank, share, price>>
  BY DEF Collect, CanCollect, town
<1>s. UNCHANGED <<db, inflight, botsSaved>> /\ Saved' = Saved /\ (litMoved => litMoved')
  BY DEF Collect, CanCollect, town, writer, Saved, Idle, IInv, TypeOK
<1>r. \A p \in Pilots \ live : record'[p] = record[p]
  BY DEF Collect, CanCollect, town, Capture, Snapshot, rows, IInv, TypeOK, Row
<1>d. \A p \in Pilots : p \notin dirty' \cup live' => p \notin dirty \cup live /\ record'[p] = record[p]
  BY CargoAssumption DEF Collect, CanCollect, town, Capture, rows, IInv, TypeOK
<1>1. TypeOK'
  BY DEF Collect, CanCollect, town, Capture, Snapshot, Row, ships, rows, town, writer, Crew, Keys, IInv, TypeOK
<1>2. AwayIsEmpty'
  BY <1>0, CargoAssumption DEF AwayIsEmpty, Crew, Keys, IInv, TypeOK
<1>3. NowIs /\ NowIs'
  BY <1>1, NowTable, PTL DEF IInv
<1>4. HeldOnce(Now)'
  <2>1. \A j \in Keys : \A x \in Now'.pods[j] \ S : x \in Now.pods[j]
    BY <1>0, <1>3, CargoAssumption DEF AwayIsEmpty, Crew, Keys, IInv, TypeOK, NowIs
  <2>2. \A p \in Pilots : \A x \in Now'.rows[p].cargo \ S : x \in Now.rows[p].cargo
    BY <1>0, <1>r, <1>3, CargoAssumption DEF AwayIsEmpty, Crew, Keys, IInv, TypeOK, NowIs
  <2>3. \A x \in Now'.bank \ S : x \in Now.bank
    BY <1>0, <1>3 DEF NowIs
  <2>4. \A x \in S : Once(Now', x)
    <3> SUFFICES ASSUME NEW x \in S PROVE Once(Now', x)
      OBVIOUS
    <3>1. \A j \in Keys : j # c => x \notin Now'.pods[j]
      BY <1>0, <1>r, <1>3, CargoAssumption DEF HeldOnce, EveryPointOnce, AwayIsEmpty, Crew, Keys, IInv, TypeOK, NowIs
    <3>2. \A p \in Pilots : p # c => x \notin Now'.rows[p].cargo
      BY <1>0, <1>r, <1>3, CargoAssumption DEF HeldOnce, EveryPointOnce, AwayIsEmpty, Crew, Keys, IInv, TypeOK, NowIs
    <3>3. x \notin Now'.bank
      BY <1>0, <1>r, <1>3, CargoAssumption DEF HeldOnce, EveryPointOnce, AwayIsEmpty, Crew, Keys, IInv, TypeOK, NowIs
    <3> QED BY <3>1, <3>2, <3>3, CargoAssumption DEF Once, Crew, Keys
  <2>5. S \in SUBSET Coins
    BY DEF IInv, TypeOK, Crew, Keys
  <2>6. Now \in Image /\ Now' \in Image /\ HeldOnce(Now)
    BY <1>3 DEF IInv, EveryPointOnce, NowIs
  <2> QED BY <2>1, <2>2, <2>3, <2>4, <2>5, <2>6, HeldAfter
<1>5. BooksBalance(Now)'
  <2>1. \A p \in Pilots : Now'.rows[p].score = Now.rows[p].score /\ Now'.rows[p].spent = Now.rows[p].spent
    BY <1>0, <1>r, <1>3, CargoAssumption DEF AwayIsEmpty, Crew, Keys, IInv, TypeOK, NowIs
  <2>2. Now'.share = Now.share /\ Now'.share \subseteq Now'.bank /\ Now'.price = Now.price
    BY <1>0, <1>3 DEF NowIs, IInv, EveryPointOnce, BooksBalance
  <2> QED BY <2>1, <2>2, <1>3, BooksSame DEF IInv, EveryPointOnce, NowIs
<1>6. MarksAreComplete'
  BY <1>0, <1>s, <1>d, CargoAssumption DEF MarksAreComplete, AwayIsEmpty, Crew, Keys, IInv, TypeOK
<1>7. SavedPointsOnce'
  BY <1>s, SavedStays DEF IInv
<1> QED BY <1>1, <1>2, <1>4, <1>5, <1>6, <1>7 DEF IInv, EveryPointOnce

\* A new pod holds points nothing spoke of.
LEMMA FindCacheStep ==
  ASSUME IInv, NEW k \in Pods, NEW S \in SUBSET Unused, FindCache(k, S)
  PROVE  IInv'
<1>0. /\ pods' = [pods EXCEPT ![k] = S]
      /\ moved' = TRUE
      /\ pods[k] = {}
      /\ k \notin live
      /\ UNCHANGED <<live, cargo, score, spent, bank, share, price>>
  BY DEF FindCache, Free, town, rows, ships
<1>s. UNCHANGED <<db, inflight, botsSaved>> /\ Saved' = Saved /\ (litMoved => litMoved')
  BY DEF FindCache, Free, town, rows, ships, town, writer, Saved, Idle, IInv, TypeOK
<1>r. \A p \in Pilots \ live : record'[p] = record[p]
  BY DEF FindCache, Free, town, rows, ships, Capture, Snapshot, rows, IInv, TypeOK, Row
<1>d. \A p \in Pilots : p \notin dirty' \cup live' => p \notin dirty \cup live /\ record'[p] = record[p]
  BY CargoAssumption DEF FindCache, Free, town, rows, ships, Capture, rows, IInv, TypeOK
<1>1. TypeOK'
  BY UnusedIsNowhere DEF FindCache, Free, town, rows, ships, Capture, Snapshot, Row, ships, rows, town, writer, Crew, Keys, IInv, TypeOK
<1>2. AwayIsEmpty'
  BY <1>0, CargoAssumption DEF AwayIsEmpty, Crew, Keys, IInv, TypeOK
<1>3. NowIs /\ NowIs'
  BY <1>1, NowTable, PTL DEF IInv
<1>4. HeldOnce(Now)'
  <2>1. \A j \in Keys : \A x \in Now'.pods[j] \ S : x \in Now.pods[j]
    BY <1>0, <1>3, CargoAssumption DEF AwayIsEmpty, Crew, Keys, IInv, TypeOK, NowIs
  <2>2. \A p \in Pilots : \A x \in Now'.rows[p].cargo \ S : x \in Now.rows[p].cargo
    BY <1>0, <1>r, <1>3, CargoAssumption DEF AwayIsEmpty, Crew, Keys, IInv, TypeOK, NowIs
  <2>3. \A x \in Now'.bank \ S : x \in Now.bank
    BY <1>0, <1>3 DEF NowIs
  <2>4. \A x \in S : Once(Now', x)
    <3> SUFFICES ASSUME NEW x \in S PROVE Once(Now', x)
      OBVIOUS
    <3>1. \A j \in Keys : j # k => x \notin Now'.pods[j]
      BY <1>0, <1>r, <1>3, UnusedIsNowhere, CargoAssumption DEF HeldOnce, EveryPointOnce, AwayIsEmpty, Crew, Keys, IInv, TypeOK, NowIs
    <3>2. \A p \in Pilots : x \notin Now'.rows[p].cargo
      BY <1>0, <1>r, <1>3, UnusedIsNowhere, CargoAssumption DEF HeldOnce, EveryPointOnce, AwayIsEmpty, Crew, Keys, IInv, TypeOK, NowIs
    <3>3. x \notin Now'.bank
      BY <1>0, <1>r, <1>3, UnusedIsNowhere, CargoAssumption DEF HeldOnce, EveryPointOnce, AwayIsEmpty, Crew, Keys, IInv, TypeOK, NowIs
    <3> QED BY <3>1, <3>2, <3>3, CargoAssumption DEF Once, Crew, Keys
  <2>5. S \in SUBSET Coins
    BY UnusedIsNowhere DEF IInv, TypeOK, Crew, Keys
  <2>6. Now \in Image /\ Now' \in Image /\ HeldOnce(Now)
    BY <1>3 DEF IInv, EveryPointOnce, NowIs
  <2> QED BY <2>1, <2>2, <2>3, <2>4, <2>5, <2>6, HeldAfter
<1>5. BooksBalance(Now)'
  <2>1. \A p \in Pilots : Now'.rows[p].score = Now.rows[p].score /\ Now'.rows[p].spent = Now.rows[p].spent
    BY <1>0, <1>r, <1>3, CargoAssumption DEF AwayIsEmpty, Crew, Keys, IInv, TypeOK, NowIs
  <2>2. Now'.share = Now.share /\ Now'.share \subseteq Now'.bank /\ Now'.price = Now.price
    BY <1>0, <1>3 DEF NowIs, IInv, EveryPointOnce, BooksBalance
  <2> QED BY <2>1, <2>2, <1>3, BooksSame DEF IInv, EveryPointOnce, NowIs
<1>6. MarksAreComplete'
  BY <1>0, <1>s, <1>d, CargoAssumption DEF MarksAreComplete, AwayIsEmpty, Crew, Keys, IInv, TypeOK
<1>7. SavedPointsOnce'
  BY <1>s, SavedStays DEF IInv
<1> QED BY <1>1, <1>2, <1>4, <1>5, <1>6, <1>7 DEF IInv, EveryPointOnce

\* A pod that expires is gone.
LEMMA ExpireStep ==
  ASSUME IInv, NEW k \in Keys, Expire(k)
  PROVE  IInv'
<1>0. /\ pods' = [pods EXCEPT ![k] = {}]
      /\ moved' = TRUE
      /\ UNCHANGED <<live, cargo, score, spent, bank, share, price>>
  BY DEF Expire, town, rows, ships
<1>s. UNCHANGED <<db, inflight, botsSaved>> /\ Saved' = Saved /\ (litMoved => litMoved')
  BY DEF Expire, town, rows, ships, town, writer, Saved, Idle, IInv, TypeOK
<1>r. \A p \in Pilots \ live : record'[p] = record[p]
  BY DEF Expire, town, rows, ships, Capture, Snapshot, rows, IInv, TypeOK, Row
<1>d. \A p \in Pilots : p \notin dirty' \cup live' => p \notin dirty \cup live /\ record'[p] = record[p]
  BY CargoAssumption DEF Expire, town, rows, ships, Capture, rows, IInv, TypeOK
<1>1. TypeOK'
  BY DEF Expire, town, rows, ships, Capture, Snapshot, Row, ships, rows, town, writer, Crew, Keys, IInv, TypeOK
<1>2. AwayIsEmpty'
  BY <1>0, CargoAssumption DEF AwayIsEmpty, Crew, Keys, IInv, TypeOK
<1>3. NowIs /\ NowIs'
  BY <1>1, NowTable, PTL DEF IInv
<1>4. HeldOnce(Now)'
  <2>1. \A j \in Keys : \A x \in Now'.pods[j] : x \in Now.pods[j]
    BY <1>0, <1>3, CargoAssumption DEF AwayIsEmpty, Crew, Keys, IInv, TypeOK, NowIs
  <2>2. \A p \in Pilots : \A x \in Now'.rows[p].cargo : x \in Now.rows[p].cargo
    BY <1>0, <1>r, <1>3, CargoAssumption DEF AwayIsEmpty, Crew, Keys, IInv, TypeOK, NowIs
  <2>3. \A x \in Now'.bank : x \in Now.bank
    BY <1>0, <1>3 DEF NowIs
  <2>4. Now \in Image /\ Now' \in Image /\ HeldOnce(Now)
    BY <1>3 DEF IInv, EveryPointOnce, NowIs
  <2> QED BY <2>1, <2>2, <2>3, <2>4, HeldLess
<1>5. BooksBalance(Now)'
  <2>1. \A p \in Pilots : Now'.rows[p].score = Now.rows[p].score /\ Now'.rows[p].spent = Now.rows[p].spent
    BY <1>0, <1>r, <1>3, CargoAssumption DEF AwayIsEmpty, Crew, Keys, IInv, TypeOK, NowIs
  <2>2. Now'.share = Now.share /\ Now'.share \subseteq Now'.bank /\ Now'.price = Now.price
    BY <1>0, <1>3 DEF NowIs, IInv, EveryPointOnce, BooksBalance
  <2> QED BY <2>1, <2>2, <1>3, BooksSame DEF IInv, EveryPointOnce, NowIs
<1>6. MarksAreComplete'
  BY <1>0, <1>s, <1>d, CargoAssumption DEF MarksAreComplete, AwayIsEmpty, Crew, Keys, IInv, TypeOK
<1>7. SavedPointsOnce'
  BY <1>s, SavedStays DEF IInv
<1> QED BY <1>1, <1>2, <1>4, <1>5, <1>6, <1>7 DEF IInv, EveryPointOnce

\* Points found go aboard, and what does not fit into a new pod.
LEMMA GainStep ==
  ASSUME IInv, NEW c \in Crew, NEW S \in SUBSET Unused, NEW over \in SUBSET Unused, NEW k \in Pods, Gain(c, S, over, k)
  PROVE  IInv'
<1>0. /\ cargo' = [cargo EXCEPT ![c] = @ \cup S]
      /\ pods' = IF over = {} THEN pods ELSE [pods EXCEPT ![k] = over]
      /\ over # {} => pods[k] = {} /\ k \notin live
      /\ S \cap over = {}
      /\ moved' = (moved \/ over # {})
      /\ c \in live
      /\ UNCHANGED <<live, score, spent, bank, share, price>>
  BY DEF Gain, CanCollect, Free, town
<1>s. UNCHANGED <<db, inflight, botsSaved>> /\ Saved' = Saved /\ (litMoved => litMoved')
  BY DEF Gain, CanCollect, Free, town, writer, Saved, Idle, IInv, TypeOK
<1>r. \A p \in Pilots \ live : record'[p] = record[p]
  BY DEF Gain, CanCollect, Free, town, Capture, Snapshot, rows, IInv, TypeOK, Row
<1>d. \A p \in Pilots : p \notin dirty' \cup live' => p \notin dirty \cup live /\ record'[p] = record[p]
  BY CargoAssumption DEF Gain, CanCollect, Free, town, Capture, rows, IInv, TypeOK
<1>1. TypeOK'
  BY UnusedIsNowhere DEF Gain, CanCollect, Free, town, Capture, Snapshot, Row, ships, rows, town, writer, Crew, Keys, IInv, TypeOK
<1>2. AwayIsEmpty'
  BY <1>0, CargoAssumption DEF AwayIsEmpty, Crew, Keys, IInv, TypeOK
<1>3. NowIs /\ NowIs'
  BY <1>1, NowTable, PTL DEF IInv
<1>4. HeldOnce(Now)'
  <2>1. \A j \in Keys : \A x \in Now'.pods[j] \ (S \cup over) : x \in Now.pods[j]
    BY <1>0, <1>3, CargoAssumption DEF AwayIsEmpty, Crew, Keys, IInv, TypeOK, NowIs
  <2>2. \A p \in Pilots : \A x \in Now'.rows[p].cargo \ (S \cup over) : x \in Now.rows[p].cargo
    BY <1>0, <1>r, <1>3, CargoAssumption DEF AwayIsEmpty, Crew, Keys, IInv, TypeOK, NowIs
  <2>3. \A x \in Now'.bank \ (S \cup over) : x \in Now.bank
    BY <1>0, <1>3 DEF NowIs
  <2>4. \A x \in (S \cup over) : Once(Now', x)
    <3> SUFFICES ASSUME NEW x \in (S \cup over) PROVE Once(Now', x)
      OBVIOUS
    <3>1. \A j \in Keys : x \in Now'.pods[j] => (j = c /\ x \in S) \/ (j = k /\ x \in over)
      BY <1>0, <1>r, <1>3, UnusedIsNowhere, CargoAssumption DEF HeldOnce, EveryPointOnce, AwayIsEmpty, Crew, Keys, IInv, TypeOK, NowIs
    <3>2. \A p \in Pilots : x \in Now'.rows[p].cargo => p = c /\ x \in S
      BY <1>0, <1>r, <1>3, UnusedIsNowhere, CargoAssumption DEF HeldOnce, EveryPointOnce, AwayIsEmpty, Crew, Keys, IInv, TypeOK, NowIs
    <3>3. x \notin Now'.bank
      BY <1>0, <1>r, <1>3, UnusedIsNowhere, CargoAssumption DEF HeldOnce, EveryPointOnce, AwayIsEmpty, Crew, Keys, IInv, TypeOK, NowIs
    <3> QED BY <3>1, <3>2, <3>3, <1>0, CargoAssumption DEF Once, Crew, Keys
  <2>5. (S \cup over) \in SUBSET Coins
    BY UnusedIsNowhere DEF IInv, TypeOK, Crew, Keys
  <2>6. Now \in Image /\ Now' \in Image /\ HeldOnce(Now)
    BY <1>3 DEF IInv, EveryPointOnce, NowIs
  <2> QED BY <2>1, <2>2, <2>3, <2>4, <2>5, <2>6, HeldAfter
<1>5. BooksBalance(Now)'
  <2>1. \A p \in Pilots : Now'.rows[p].score = Now.rows[p].score /\ Now'.rows[p].spent = Now.rows[p].spent
    BY <1>0, <1>r, <1>3, CargoAssumption DEF AwayIsEmpty, Crew, Keys, IInv, TypeOK, NowIs
  <2>2. Now'.share = Now.share /\ Now'.share \subseteq Now'.bank /\ Now'.price = Now.price
    BY <1>0, <1>3 DEF NowIs, IInv, EveryPointOnce, BooksBalance
  <2> QED BY <2>1, <2>2, <1>3, BooksSame DEF IInv, EveryPointOnce, NowIs
<1>6. MarksAreComplete'
  BY <1>0, <1>s, <1>d, CargoAssumption DEF MarksAreComplete, AwayIsEmpty, Crew, Keys, IInv, TypeOK
<1>7. SavedPointsOnce'
  BY <1>s, SavedStays DEF IInv
<1> QED BY <1>1, <1>2, <1>4, <1>5, <1>6, <1>7 DEF IInv, EveryPointOnce

\* What a hit knocks out of a ship is in pods, one coin in each.
LEMMA HitStep ==
  ASSUME IInv, NEW c \in Crew, NEW S \in SUBSET cargo[c], NEW spill \in [S -> Pods], NEW destroyed \in BOOLEAN, Hit(c, spill, destroyed)
  PROVE  IInv'
<1>0. /\ cargo' = [cargo EXCEPT ![c] = IF destroyed THEN {} ELSE @ \ S]
      /\ pods' = [k \in Keys |-> pods[k] \cup {x \in S : spill[x] = k}]
      /\ \A x \in S : pods[spill[x]] = {} /\ spill[x] \notin live
      /\ moved' = (moved \/ S # {})
      /\ c \in live
      /\ UNCHANGED <<live, score, spent, bank, share, price>>
  BY DEF Hit, Free, town
<1>s. UNCHANGED <<db, inflight, botsSaved>> /\ Saved' = Saved /\ (litMoved => litMoved')
  BY DEF Hit, Free, town, writer, Saved, Idle, IInv, TypeOK
<1>r. \A p \in Pilots \ live : record'[p] = record[p]
  BY DEF Hit, Free, town, Capture, Snapshot, rows, IInv, TypeOK, Row
<1>d. \A p \in Pilots : p \notin dirty' \cup live' => p \notin dirty \cup live /\ record'[p] = record[p]
  BY CargoAssumption DEF Hit, Free, town, Capture, rows, IInv, TypeOK
<1>f. /\ \A d \in Crew : \A x \in cargo'[d] : x \in cargo[d] /\ (d = c => x \notin S)
      /\ \A j \in Keys : \A x \in pods'[j] : x \in pods[j] \/ (x \in S /\ spill[x] = j)
  BY <1>0 DEF IInv, TypeOK, Crew
<1>1. TypeOK'
  BY DEF Hit, Free, town, Capture, Snapshot, Row, ships, rows, town, writer, Crew, Keys, IInv, TypeOK
<1>2. AwayIsEmpty'
  BY <1>0, CargoAssumption DEF AwayIsEmpty, Crew, Keys, IInv, TypeOK
<1>3. NowIs /\ NowIs'
  BY <1>1, NowTable, PTL DEF IInv
<1>4. HeldOnce(Now)'
  <2>1. \A k \in Keys : \A x \in Now'.pods[k] \ S : x \in Now.pods[k]
    BY <1>0, <1>3, <1>f, CargoAssumption DEF AwayIsEmpty, Crew, Keys, IInv, TypeOK, NowIs
  <2>2. \A p \in Pilots : \A x \in Now'.rows[p].cargo \ S : x \in Now.rows[p].cargo
    BY <1>0, <1>r, <1>3, <1>f, CargoAssumption DEF AwayIsEmpty, Crew, Keys, IInv, TypeOK, NowIs
  <2>3. \A x \in Now'.bank \ S : x \in Now.bank
    BY <1>0, <1>3 DEF NowIs
  <2>4. \A x \in S : Once(Now', x)
    <3> SUFFICES ASSUME NEW x \in S PROVE Once(Now', x)
      OBVIOUS
    <3>a. x \in cargo[c] /\ c \in live
      BY <1>0
    <3>b. \A j \in Keys : x \in Now.pods[j] => j = c
      <4>1. CASE c \in Pilots
        BY <4>1, <3>a, <1>3 DEF HeldOnce, EveryPointOnce, IInv, NowIs
      <4>2. CASE c \in Bots
        BY <4>2, <3>a, <1>3 DEF HeldOnce, EveryPointOnce, IInv, NowIs, Keys
      <4> QED BY <4>1, <4>2 DEF Crew
    <3>c. ASSUME NEW j \in Keys, x \in Now'.pods[j]
          PROVE  j # c /\ (x \in Now.pods[j] \/ j = spill[x])
      <4>0. Now'.pods[j] = (IF j \in live THEN cargo'[j] ELSE pods'[j])
            /\ Now.pods[j] = (IF j \in live THEN cargo[j] ELSE pods[j])
        BY <1>0, <1>3 DEF NowIs
      <4>1. CASE j \in live
        BY <4>1, <4>0, <3>c, <1>f DEF IInv, TypeOK
      <4>2. CASE j \notin live
        BY <4>2, <4>0, <3>a, <3>c, <1>f
      <4> QED BY <4>1, <4>2
    <3>0. \A j \in Keys : x \in Now'.pods[j] => j = spill[x]
      BY <3>b, <3>c
    <3>1. \A j \in Keys : x \in Now'.pods[j] => j = spill[x]
      BY <1>0, <1>r, <1>3, <1>f, <3>0, CargoAssumption DEF HeldOnce, EveryPointOnce, AwayIsEmpty, Crew, Keys, IInv, TypeOK, NowIs
    <3>2. \A p \in Pilots : x \notin Now'.rows[p].cargo
      BY <1>0, <1>r, <1>3, <1>f, <3>0, CargoAssumption DEF HeldOnce, EveryPointOnce, AwayIsEmpty, Crew, Keys, IInv, TypeOK, NowIs
    <3>3. x \notin Now'.bank
      BY <1>0, <1>r, <1>3, <1>f, <3>0, CargoAssumption DEF HeldOnce, EveryPointOnce, AwayIsEmpty, Crew, Keys, IInv, TypeOK, NowIs
    <3> QED BY <3>1, <3>2, <3>3, CargoAssumption DEF Once, Crew, Keys
  <2>5. S \in SUBSET Coins
    BY <1>f DEF IInv, TypeOK, Crew, Keys
  <2>6. Now \in Image /\ Now' \in Image /\ HeldOnce(Now)
    BY <1>3 DEF IInv, EveryPointOnce, NowIs
  <2> QED BY <2>1, <2>2, <2>3, <2>4, <2>5, <2>6, HeldAfter
<1>5. BooksBalance(Now)'
  <2>1. \A p \in Pilots : Now'.rows[p].score = Now.rows[p].score /\ Now'.rows[p].spent = Now.rows[p].spent
    BY <1>0, <1>r, <1>3, CargoAssumption DEF AwayIsEmpty, Crew, Keys, IInv, TypeOK, NowIs
  <2>2. Now'.share = Now.share /\ Now'.share \subseteq Now'.bank /\ Now'.price = Now.price
    BY <1>0, <1>3 DEF NowIs, IInv, EveryPointOnce, BooksBalance
  <2> QED BY <2>1, <2>2, <1>3, BooksSame DEF IInv, EveryPointOnce, NowIs
<1>6. MarksAreComplete'
  <2>1. MarksAreComplete
    BY DEF IInv
  <2>2. ASSUME ~moved', ~botsSaved'
        PROVE  /\ Saved'.bank = bank' /\ Saved'.share = share'
               /\ \A k \in Keys : Saved'.pods[k] = IF k \in live' THEN {} ELSE pods'[k]
    <3>1. ~moved /\ ~botsSaved /\ S = {}
      BY <1>0, <1>s, <2>2
    <3>2. \A k \in Keys : pods'[k] = pods[k]
      BY <1>0, <3>1
    <3> QED BY <1>0, <1>s, <2>1, <3>1, <3>2 DEF MarksAreComplete
  <2>3. ~litMoved' => Saved'.price = price'
    BY <1>0, <1>s, <2>1 DEF MarksAreComplete
  <2>4. \A p \in Pilots \ (dirty' \cup live') : Saved'.rows[p] = record'[p]
    BY <1>s, <1>d, <2>1 DEF MarksAreComplete
  <2> QED BY <2>2, <2>3, <2>4 DEF MarksAreComplete
<1>7. SavedPointsOnce'
  BY <1>s, SavedStays DEF IInv
<1> QED BY <1>1, <1>2, <1>4, <1>5, <1>6, <1>7 DEF IInv, EveryPointOnce

\* A downed pilot nobody comes to loses its cargo.
LEMMA SuccumbStep ==
  ASSUME IInv, NEW p \in Pilots, Succumb(p)
  PROVE  IInv'
<1>0. /\ cargo' = [cargo EXCEPT ![p] = {}]
      /\ p \in live
      /\ UNCHANGED <<live, score, spent, bank, share, price, pods, moved>>
  BY DEF Succumb, town
<1>s. UNCHANGED <<db, inflight, botsSaved>> /\ Saved' = Saved /\ (litMoved => litMoved')
  BY DEF Succumb, town, writer, Saved, Idle, IInv, TypeOK
<1>r. \A r \in Pilots \ live : record'[r] = record[r]
  BY DEF Succumb, town, Capture, Snapshot, rows, IInv, TypeOK, Row
<1>d. \A r \in Pilots : r \notin dirty' \cup live' => r \notin dirty \cup live /\ record'[r] = record[r]
  BY CargoAssumption DEF Succumb, town, Capture, rows, IInv, TypeOK
<1>1. TypeOK'
  BY DEF Succumb, town, Capture, Snapshot, Row, ships, rows, town, writer, Crew, Keys, IInv, TypeOK
<1>2. AwayIsEmpty'
  BY <1>0, CargoAssumption DEF AwayIsEmpty, Crew, Keys, IInv, TypeOK
<1>3. NowIs /\ NowIs'
  BY <1>1, NowTable, PTL DEF IInv
<1>4. HeldOnce(Now)'
  <2>1. \A k \in Keys : \A x \in Now'.pods[k] : x \in Now.pods[k]
    BY <1>0, <1>3, CargoAssumption DEF AwayIsEmpty, Crew, Keys, IInv, TypeOK, NowIs
  <2>2. \A r \in Pilots : \A x \in Now'.rows[r].cargo : x \in Now.rows[r].cargo
    BY <1>0, <1>r, <1>3, CargoAssumption DEF AwayIsEmpty, Crew, Keys, IInv, TypeOK, NowIs
  <2>3. \A x \in Now'.bank : x \in Now.bank
    BY <1>0, <1>3 DEF NowIs
  <2>4. Now \in Image /\ Now' \in Image /\ HeldOnce(Now)
    BY <1>3 DEF IInv, EveryPointOnce, NowIs
  <2> QED BY <2>1, <2>2, <2>3, <2>4, HeldLess
<1>5. BooksBalance(Now)'
  <2>1. \A r \in Pilots : Now'.rows[r].score = Now.rows[r].score /\ Now'.rows[r].spent = Now.rows[r].spent
    BY <1>0, <1>r, <1>3, CargoAssumption DEF AwayIsEmpty, Crew, Keys, IInv, TypeOK, NowIs
  <2>2. Now'.share = Now.share /\ Now'.share \subseteq Now'.bank /\ Now'.price = Now.price
    BY <1>0, <1>3 DEF NowIs, IInv, EveryPointOnce, BooksBalance
  <2> QED BY <2>1, <2>2, <1>3, BooksSame DEF IInv, EveryPointOnce, NowIs
<1>6. MarksAreComplete'
  BY <1>0, <1>s, <1>d, CargoAssumption DEF MarksAreComplete, AwayIsEmpty, Crew, Keys, IInv, TypeOK
<1>7. SavedPointsOnce'
  BY <1>s, SavedStays DEF IInv
<1> QED BY <1>1, <1>2, <1>4, <1>5, <1>6, <1>7 DEF IInv, EveryPointOnce

\* A pilot who comes back has what fits of what its row holds.
LEMMA JoinStep ==
  ASSUME IInv, NEW p \in Pilots, NEW h \in Holds, NEW kept \in SUBSET record[p].cargo, Join(p, h, kept)
  PROVE  IInv'
<1>0. /\ live' = live \cup {p}
      /\ cargo' = [cargo EXCEPT ![p] = kept]
      /\ score' = [score EXCEPT ![p] = record[p].score]
      /\ spent' = [spent EXCEPT ![p] = record[p].spent]
      /\ p \notin live
      /\ UNCHANGED <<bank, share, price, pods, moved>>
  BY DEF Join, town
<1>s. UNCHANGED <<db, inflight, botsSaved>> /\ Saved' = Saved /\ (litMoved => litMoved')
  BY DEF Join, town, writer, Saved, Idle, IInv, TypeOK
<1>r. \A q \in Pilots \ live' : record'[q] = record[q]
  BY DEF Join, town, Capture, Snapshot, rows, IInv, TypeOK, Row
<1>d. \A r \in Pilots : r \notin dirty' \cup live' => r \notin dirty \cup live /\ record'[r] = record[r]
  BY CargoAssumption DEF Join, town, Capture, rows, IInv, TypeOK
<1>1. TypeOK'
  BY DEF Join, town, Capture, Snapshot, Row, ships, rows, town, writer, Crew, Keys, IInv, TypeOK
<1>2. AwayIsEmpty'
  BY <1>0, CargoAssumption DEF AwayIsEmpty, Crew, Keys, IInv, TypeOK
<1>3. NowIs /\ NowIs'
  BY <1>1, NowTable, PTL DEF IInv
<1>4. HeldOnce(Now)'
  <2>1. \A k \in Keys : \A x \in Now'.pods[k] : x \in Now.pods[k]
    BY <1>0, <1>3, CargoAssumption DEF AwayIsEmpty, Crew, Keys, IInv, TypeOK, NowIs
  <2>2. \A r \in Pilots : \A x \in Now'.rows[r].cargo : x \in Now.rows[r].cargo
    BY <1>0, <1>r, <1>3, CargoAssumption DEF AwayIsEmpty, Crew, Keys, IInv, TypeOK, NowIs
  <2>3. \A x \in Now'.bank : x \in Now.bank
    BY <1>0, <1>3 DEF NowIs
  <2>4. Now \in Image /\ Now' \in Image /\ HeldOnce(Now)
    BY <1>3 DEF IInv, EveryPointOnce, NowIs
  <2> QED BY <2>1, <2>2, <2>3, <2>4, HeldLess
<1>5. BooksBalance(Now)'
  <2>1. \A r \in Pilots : Now'.rows[r].score = Now.rows[r].score /\ Now'.rows[r].spent = Now.rows[r].spent
    BY <1>0, <1>r, <1>3, CargoAssumption DEF AwayIsEmpty, Crew, Keys, IInv, TypeOK, NowIs
  <2>2. Now'.share = Now.share /\ Now'.share \subseteq Now'.bank /\ Now'.price = Now.price
    BY <1>0, <1>3 DEF NowIs, IInv, EveryPointOnce, BooksBalance
  <2> QED BY <2>1, <2>2, <1>3, BooksSame DEF IInv, EveryPointOnce, NowIs
<1>6. MarksAreComplete'
  BY <1>0, <1>s, <1>d, CargoAssumption DEF MarksAreComplete, AwayIsEmpty, Crew, Keys, IInv, TypeOK
<1>7. SavedPointsOnce'
  BY <1>s, SavedStays DEF IInv
<1> QED BY <1>1, <1>2, <1>4, <1>5, <1>6, <1>7 DEF IInv, EveryPointOnce

\* A smaller hold keeps what fits.
LEMMA SwitchKitStep ==
  ASSUME IInv, NEW p \in Pilots, NEW h \in Holds, NEW kept \in SUBSET cargo[p], SwitchKit(p, h, kept)
  PROVE  IInv'
<1>0. /\ cargo' = [cargo EXCEPT ![p] = kept]
      /\ p \in live
      /\ UNCHANGED <<live, score, spent, bank, share, price, pods, moved, record>>
  BY DEF SwitchKit, town
<1>s. UNCHANGED <<db, inflight, botsSaved>> /\ Saved' = Saved /\ (litMoved => litMoved')
  BY DEF SwitchKit, town, writer, Saved, Idle, IInv, TypeOK
<1>r. \A r \in Pilots \ live : record'[r] = record[r]
  BY DEF SwitchKit, town, Capture, Snapshot, rows, IInv, TypeOK, Row
<1>d. \A r \in Pilots : r \notin dirty' \cup live' => r \notin dirty \cup live /\ record'[r] = record[r]
  BY CargoAssumption DEF SwitchKit, town, Capture, rows, IInv, TypeOK
<1>1. TypeOK'
  BY DEF SwitchKit, town, Capture, Snapshot, Row, ships, rows, town, writer, Crew, Keys, IInv, TypeOK
<1>2. AwayIsEmpty'
  BY <1>0, CargoAssumption DEF AwayIsEmpty, Crew, Keys, IInv, TypeOK
<1>3. NowIs /\ NowIs'
  BY <1>1, NowTable, PTL DEF IInv
<1>4. HeldOnce(Now)'
  <2>1. \A k \in Keys : \A x \in Now'.pods[k] : x \in Now.pods[k]
    BY <1>0, <1>3, CargoAssumption DEF AwayIsEmpty, Crew, Keys, IInv, TypeOK, NowIs
  <2>2. \A r \in Pilots : \A x \in Now'.rows[r].cargo : x \in Now.rows[r].cargo
    BY <1>0, <1>r, <1>3, CargoAssumption DEF AwayIsEmpty, Crew, Keys, IInv, TypeOK, NowIs
  <2>3. \A x \in Now'.bank : x \in Now.bank
    BY <1>0, <1>3 DEF NowIs
  <2>4. Now \in Image /\ Now' \in Image /\ HeldOnce(Now)
    BY <1>3 DEF IInv, EveryPointOnce, NowIs
  <2> QED BY <2>1, <2>2, <2>3, <2>4, HeldLess
<1>5. BooksBalance(Now)'
  <2>1. \A r \in Pilots : Now'.rows[r].score = Now.rows[r].score /\ Now'.rows[r].spent = Now.rows[r].spent
    BY <1>0, <1>r, <1>3, CargoAssumption DEF AwayIsEmpty, Crew, Keys, IInv, TypeOK, NowIs
  <2>2. Now'.share = Now.share /\ Now'.share \subseteq Now'.bank /\ Now'.price = Now.price
    BY <1>0, <1>3 DEF NowIs, IInv, EveryPointOnce, BooksBalance
  <2> QED BY <2>1, <2>2, <1>3, BooksSame DEF IInv, EveryPointOnce, NowIs
<1>6. MarksAreComplete'
  BY <1>0, <1>s, <1>d, CargoAssumption DEF MarksAreComplete, AwayIsEmpty, Crew, Keys, IInv, TypeOK
<1>7. SavedPointsOnce'
  BY <1>s, SavedStays DEF IInv
<1> QED BY <1>1, <1>2, <1>4, <1>5, <1>6, <1>7 DEF IInv, EveryPointOnce

\* The row of a pilot who leaves has what its ship had.
LEMMA LeaveStep ==
  ASSUME IInv, NEW p \in Pilots, Leave(p)
  PROVE  IInv'
<1>0. /\ live' = live \ {p}
      /\ p \in live
      /\ cargo' = [cargo EXCEPT ![p] = {}]
      /\ score' = [score EXCEPT ![p] = {}]
      /\ spent' = [spent EXCEPT ![p] = {}]
      /\ UNCHANGED <<bank, share, price, pods, moved>>
  BY DEF Leave, Emptied, town
<1>s. UNCHANGED <<db, inflight, botsSaved>> /\ Saved' = Saved /\ (litMoved => litMoved')
  BY DEF Leave, Emptied, town, writer, Saved, Idle, IInv, TypeOK
<1>r. /\ \A q \in Pilots \ live : record'[q] = record[q]
      /\ record'[p].cargo = cargo[p] /\ record'[p].score = score[p] /\ record'[p].spent = spent[p]
  BY DEF Leave, Emptied, town, Capture, Snapshot, rows, IInv, TypeOK, Row
<1>d. \A r \in Pilots : r \notin dirty' \cup live' => r \notin dirty \cup live /\ record'[r] = record[r]
  BY CargoAssumption DEF Leave, Emptied, town, Capture, rows, IInv, TypeOK
<1>1. TypeOK'
  BY DEF Leave, Emptied, town, Capture, Snapshot, Row, ships, rows, town, writer, Crew, Keys, IInv, TypeOK
<1>2. AwayIsEmpty'
  BY <1>0, CargoAssumption DEF AwayIsEmpty, Crew, Keys, IInv, TypeOK
<1>3. NowIs /\ NowIs'
  BY <1>1, NowTable, PTL DEF IInv
<1>4. HeldOnce(Now)'
  <2>1. \A k \in Keys : \A x \in Now'.pods[k] : x \in Now.pods[k]
    BY <1>0, <1>3, CargoAssumption DEF AwayIsEmpty, Crew, Keys, IInv, TypeOK, NowIs
  <2>2. \A r \in Pilots : \A x \in Now'.rows[r].cargo : x \in Now.rows[r].cargo
    BY <1>0, <1>r, <1>3, CargoAssumption DEF AwayIsEmpty, Crew, Keys, IInv, TypeOK, NowIs
  <2>3. \A x \in Now'.bank : x \in Now.bank
    BY <1>0, <1>3 DEF NowIs
  <2>4. Now \in Image /\ Now' \in Image /\ HeldOnce(Now)
    BY <1>3 DEF IInv, EveryPointOnce, NowIs
  <2> QED BY <2>1, <2>2, <2>3, <2>4, HeldLess
<1>5. BooksBalance(Now)'
  <2>1. \A r \in Pilots : Now'.rows[r].score = Now.rows[r].score /\ Now'.rows[r].spent = Now.rows[r].spent
    BY <1>0, <1>r, <1>3, CargoAssumption DEF AwayIsEmpty, Crew, Keys, IInv, TypeOK, NowIs
  <2>2. Now'.share = Now.share /\ Now'.share \subseteq Now'.bank /\ Now'.price = Now.price
    BY <1>0, <1>3 DEF NowIs, IInv, EveryPointOnce, BooksBalance
  <2> QED BY <2>1, <2>2, <1>3, BooksSame DEF IInv, EveryPointOnce, NowIs
<1>6. MarksAreComplete'
  BY <1>0, <1>s, <1>d, CargoAssumption DEF MarksAreComplete, AwayIsEmpty, Crew, Keys, IInv, TypeOK
<1>7. SavedPointsOnce'
  BY <1>s, SavedStays DEF IInv
<1> QED BY <1>1, <1>2, <1>4, <1>5, <1>6, <1>7 DEF IInv, EveryPointOnce

\* A new bot has nothing.
LEMMA BotArrivesStep ==
  ASSUME IInv, NEW b \in Bots, BotArrives(b)
  PROVE  IInv'
<1>0. /\ live' = live \cup {b}
      /\ b \notin live
      /\ pods[b] = {}
      /\ UNCHANGED <<cargo, score, spent, bank, share, price, pods, moved, record>>
  BY DEF BotArrives, Free, town, rows
<1>s. UNCHANGED <<db, inflight, botsSaved>> /\ Saved' = Saved /\ (litMoved => litMoved')
  BY DEF BotArrives, Free, town, rows, town, writer, Saved, Idle, IInv, TypeOK
<1>r. \A p \in Pilots \ live : record'[p] = record[p]
  BY DEF BotArrives, Free, town, rows, Capture, Snapshot, rows, IInv, TypeOK, Row
<1>d. \A p \in Pilots : p \notin dirty' \cup live' => p \notin dirty \cup live /\ record'[p] = record[p]
  BY CargoAssumption DEF BotArrives, Free, town, rows, Capture, rows, IInv, TypeOK
<1>1. TypeOK'
  BY DEF BotArrives, Free, town, rows, Capture, Snapshot, Row, ships, rows, town, writer, Crew, Keys, IInv, TypeOK
<1>2. AwayIsEmpty'
  BY <1>0, CargoAssumption DEF AwayIsEmpty, Crew, Keys, IInv, TypeOK
<1>3. NowIs /\ NowIs'
  BY <1>1, NowTable, PTL DEF IInv
<1>4. HeldOnce(Now)'
  <2>1. \A k \in Keys : \A x \in Now'.pods[k] : x \in Now.pods[k]
    BY <1>0, <1>3, CargoAssumption DEF AwayIsEmpty, Crew, Keys, IInv, TypeOK, NowIs
  <2>2. \A p \in Pilots : \A x \in Now'.rows[p].cargo : x \in Now.rows[p].cargo
    BY <1>0, <1>r, <1>3, CargoAssumption DEF AwayIsEmpty, Crew, Keys, IInv, TypeOK, NowIs
  <2>3. \A x \in Now'.bank : x \in Now.bank
    BY <1>0, <1>3 DEF NowIs
  <2>4. Now \in Image /\ Now' \in Image /\ HeldOnce(Now)
    BY <1>3 DEF IInv, EveryPointOnce, NowIs
  <2> QED BY <2>1, <2>2, <2>3, <2>4, HeldLess
<1>5. BooksBalance(Now)'
  <2>1. \A p \in Pilots : Now'.rows[p].score = Now.rows[p].score /\ Now'.rows[p].spent = Now.rows[p].spent
    BY <1>0, <1>r, <1>3, CargoAssumption DEF AwayIsEmpty, Crew, Keys, IInv, TypeOK, NowIs
  <2>2. Now'.share = Now.share /\ Now'.share \subseteq Now'.bank /\ Now'.price = Now.price
    BY <1>0, <1>3 DEF NowIs, IInv, EveryPointOnce, BooksBalance
  <2> QED BY <2>1, <2>2, <1>3, BooksSame DEF IInv, EveryPointOnce, NowIs
<1>6. MarksAreComplete'
  BY <1>0, <1>s, <1>d, CargoAssumption DEF MarksAreComplete, AwayIsEmpty, Crew, Keys, IInv, TypeOK
<1>7. SavedPointsOnce'
  BY <1>s, SavedStays DEF IInv
<1> QED BY <1>1, <1>2, <1>4, <1>5, <1>6, <1>7 DEF IInv, EveryPointOnce

\* A bot that leaves puts its cargo in a pod.
LEMMA BotLeavesStep ==
  ASSUME IInv, NEW b \in Bots, NEW k \in Pods, BotLeaves(b, k)
  PROVE  IInv'
<1>0. /\ live' = live \ {b}
      /\ b \in live
      /\ cargo' = [cargo EXCEPT ![b] = {}]
      /\ pods[k] = {}
      /\ k \notin live
      /\ pods' = [pods EXCEPT ![k] = cargo[b]]
      /\ moved' = (moved \/ cargo[b] # {})
      /\ UNCHANGED <<score, spent, bank, share, price, record>>
  BY DEF BotLeaves, Free, town, rows
<1>s. UNCHANGED <<db, inflight, botsSaved>> /\ Saved' = Saved /\ (litMoved => litMoved')
  BY DEF BotLeaves, Free, town, rows, town, writer, Saved, Idle, IInv, TypeOK
<1>r. \A p \in Pilots \ live : record'[p] = record[p]
  BY DEF BotLeaves, Free, town, rows, Capture, Snapshot, rows, IInv, TypeOK, Row
<1>d. \A p \in Pilots : p \notin dirty' \cup live' => p \notin dirty \cup live /\ record'[p] = record[p]
  BY CargoAssumption DEF BotLeaves, Free, town, rows, Capture, rows, IInv, TypeOK
<1>1. TypeOK'
  BY DEF BotLeaves, Free, town, rows, Capture, Snapshot, Row, ships, rows, town, writer, Crew, Keys, IInv, TypeOK
<1>2. AwayIsEmpty'
  BY <1>0, CargoAssumption DEF AwayIsEmpty, Crew, Keys, IInv, TypeOK
<1>3. NowIs /\ NowIs'
  BY <1>1, NowTable, PTL DEF IInv
<1>4. HeldOnce(Now)'
  <2>1. \A j \in Keys : \A x \in Now'.pods[j] \ cargo[b] : x \in Now.pods[j]
    BY <1>0, <1>3, CargoAssumption DEF AwayIsEmpty, Crew, Keys, IInv, TypeOK, NowIs
  <2>2. \A p \in Pilots : \A x \in Now'.rows[p].cargo \ cargo[b] : x \in Now.rows[p].cargo
    BY <1>0, <1>r, <1>3, CargoAssumption DEF AwayIsEmpty, Crew, Keys, IInv, TypeOK, NowIs
  <2>3. \A x \in Now'.bank \ cargo[b] : x \in Now.bank
    BY <1>0, <1>3 DEF NowIs
  <2>4. \A x \in cargo[b] : Once(Now', x)
    <3> SUFFICES ASSUME NEW x \in cargo[b] PROVE Once(Now', x)
      OBVIOUS
    <3>0. /\ \A j \in Keys : x \in Now.pods[j] => j = b
          /\ \A p \in Pilots : x \in Now.rows[p].cargo => p = b
          /\ x \notin Now.bank
          /\ cargo \in [Crew -> SUBSET Coins] /\ pods \in [Keys -> SUBSET Coins]
      BY <1>0, <1>3, AboardIsOnce DEF IInv, TypeOK
    <3>1. ASSUME NEW j \in Keys, j # k PROVE x \notin Now'.pods[j]
      <4>1. CASE j = b
        <5>1. pods'[b] = pods[b] /\ pods[b] = {}
          BY <1>0, <3>0, <3>1, <4>1 DEF IInv, AwayIsEmpty
        <5> QED BY <1>0, <1>3, <4>1, <5>1 DEF NowIs
      <4>2. CASE j # b
        <5>1. x \notin Now.pods[j]
          BY <3>0, <4>2
        <5> QED BY <1>0, <1>3, <3>0, <3>1, <4>2, <5>1 DEF NowIs, Keys, Crew
      <4> QED BY <4>1, <4>2
    <3>2. ASSUME NEW p \in Pilots PROVE x \notin Now'.rows[p].cargo
      <4>1. p # b
        BY CargoAssumption
      <4>2. x \notin Now.rows[p].cargo
        BY <3>0, <4>1
      <4> QED BY <1>0, <1>3, <3>0, <4>1, <4>2 DEF NowIs, Crew
    <3>3. x \notin Now'.bank
      BY <1>0, <1>3, <3>0 DEF NowIs
    <3> QED BY <3>1, <3>2, <3>3, CargoAssumption DEF Once, Crew, Keys
  <2>5. cargo[b] \in SUBSET Coins
    BY DEF IInv, TypeOK, Crew, Keys
  <2>6. Now \in Image /\ Now' \in Image /\ HeldOnce(Now)
    BY <1>3 DEF IInv, EveryPointOnce, NowIs
  <2> QED BY <2>1, <2>2, <2>3, <2>4, <2>5, <2>6, HeldAfter
<1>5. BooksBalance(Now)'
  <2>1. \A p \in Pilots : Now'.rows[p].score = Now.rows[p].score /\ Now'.rows[p].spent = Now.rows[p].spent
    BY <1>0, <1>r, <1>3, CargoAssumption DEF AwayIsEmpty, Crew, Keys, IInv, TypeOK, NowIs
  <2>2. Now'.share = Now.share /\ Now'.share \subseteq Now'.bank /\ Now'.price = Now.price
    BY <1>0, <1>3 DEF NowIs, IInv, EveryPointOnce, BooksBalance
  <2> QED BY <2>1, <2>2, <1>3, BooksSame DEF IInv, EveryPointOnce, NowIs
<1>6. MarksAreComplete'
  BY <1>0, <1>s, <1>d, CargoAssumption DEF MarksAreComplete, AwayIsEmpty, Crew, Keys, IInv, TypeOK
<1>7. SavedPointsOnce'
  BY <1>s, SavedStays DEF IInv
<1> QED BY <1>1, <1>2, <1>4, <1>5, <1>6, <1>7 DEF IInv, EveryPointOnce

\* A purchase moves points from the score to the spent ones.
LEMMA BuyStep ==
  ASSUME IInv, NEW p \in Pilots, NEW S \in SUBSET score[p], Buy(p, S)
  PROVE  IInv'
<1>0. /\ p \in live
      /\ score' = [score EXCEPT ![p] = @ \ S]
      /\ spent' = [spent EXCEPT ![p] = @ \cup S]
      /\ UNCHANGED <<live, cargo, bank, share, price, pods, moved>>
  BY DEF Buy, town
<1>s. UNCHANGED <<db, inflight, botsSaved>> /\ Saved' = Saved /\ (litMoved => litMoved')
  BY DEF Buy, town, writer, Saved, Idle, IInv, TypeOK
<1>r. \A r \in Pilots \ live : record'[r] = record[r]
  BY DEF Buy, town, Capture, Snapshot, rows, IInv, TypeOK, Row
<1>d. \A r \in Pilots : r \notin dirty' \cup live' => r \notin dirty \cup live /\ record'[r] = record[r]
  BY CargoAssumption DEF Buy, town, Capture, rows, IInv, TypeOK
<1>1. TypeOK'
  <2>1. score' \in [Pilots -> SUBSET Coins] /\ spent' \in [Pilots -> SUBSET Coins]
    BY <1>0 DEF IInv, TypeOK
  <2>2. record' \in [Pilots -> Row] /\ dirty' \subseteq Pilots
    BY <2>1, <1>0 DEF Buy, Capture, Snapshot, Row, Crew, IInv, TypeOK
  <2> QED
    BY <2>1, <2>2 DEF Buy, town, writer, IInv, TypeOK
<1>2. AwayIsEmpty'
  BY <1>0, CargoAssumption DEF AwayIsEmpty, Crew, Keys, IInv, TypeOK
<1>3. NowIs /\ NowIs'
  BY <1>1, NowTable, PTL DEF IInv
<1>4. HeldOnce(Now)'
  <2>1. \A k \in Keys : \A x \in Now'.pods[k] : x \in Now.pods[k]
    BY <1>0, <1>3, CargoAssumption DEF AwayIsEmpty, Crew, Keys, IInv, TypeOK, NowIs
  <2>2. \A r \in Pilots : \A x \in Now'.rows[r].cargo : x \in Now.rows[r].cargo
    BY <1>0, <1>r, <1>3, CargoAssumption DEF AwayIsEmpty, Crew, Keys, IInv, TypeOK, NowIs
  <2>3. \A x \in Now'.bank : x \in Now.bank
    BY <1>0, <1>3 DEF NowIs
  <2>4. Now \in Image /\ Now' \in Image /\ HeldOnce(Now)
    BY <1>3 DEF IInv, EveryPointOnce, NowIs
  <2> QED BY <2>1, <2>2, <2>3, <2>4, HeldLess
<1>5. BooksBalance(Now)'
  <2>1. /\ \A q \in Pilots \ {p} : Now'.rows[q].score = Now.rows[q].score
        /\ Now.rows[p].score = score[p] /\ Now'.rows[p].score = score[p] \ S
    BY <1>0, <1>r, <1>3 DEF NowIs, IInv, TypeOK, Crew
  <2>2. /\ \A q \in Pilots \ {p} : Now'.rows[q].spent = Now.rows[q].spent
        /\ Now.rows[p].spent = spent[p] /\ Now'.rows[p].spent = spent[p] \cup S
    BY <1>0, <1>r, <1>3 DEF NowIs, IInv, TypeOK, Crew
  <2>3. /\ Now'.share = share' /\ Now'.bank = bank' /\ Now'.price = price'
        /\ Now.share = share /\ Now.bank = bank /\ Now.price = price
    BY <1>3 DEF NowIs
  <2>4. \A q \in Pilots \ {p} : Earned(Now', q) = Earned(Now, q)
    BY <2>1, <2>2 DEF Earned
  <2>5. Earned(Now', p) = Earned(Now, p)
    BY <1>0, <2>1, <2>2, <2>3 DEF IInv, TypeOK, EveryPointOnce, BooksBalance, Earned
  <2>6. Now'.share \subseteq Now'.bank
    BY <1>0, <2>1, <2>2, <2>3, <2>4, <2>5 DEF IInv, TypeOK, EveryPointOnce, BooksBalance
  <2>7. ASSUME NEW y \in Coins
        PROVE  y \in Now'.share <=> \/ \E q \in Pilots : y \in Earned(Now', q)
                                  \/ \E m \in Lots : y \in Now'.price[m]
    BY <1>0, <2>1, <2>2, <2>3, <2>4, <2>5 DEF IInv, TypeOK, EveryPointOnce, BooksBalance
  <2>8. \A q, r \in Pilots : q # r => Earned(Now', q) \cap Earned(Now', r) = {}
    BY <1>0, <2>1, <2>2, <2>3, <2>4, <2>5 DEF IInv, TypeOK, EveryPointOnce, BooksBalance
  <2>9. \A q \in Pilots : Now'.rows[q].score \cap Now'.rows[q].spent = {}
    BY <1>0, <2>1, <2>2, <2>3, <2>4, <2>5 DEF IInv, TypeOK, EveryPointOnce, BooksBalance
  <2>10. \A q \in Pilots, m \in Lots : Earned(Now', q) \cap Now'.price[m] = {}
    BY <1>0, <2>1, <2>2, <2>3, <2>4, <2>5 DEF IInv, TypeOK, EveryPointOnce, BooksBalance
  <2>11. \A m, n \in Lots : m # n => Now'.price[m] \cap Now'.price[n] = {}
    BY <1>0, <2>1, <2>2, <2>3, <2>4, <2>5 DEF IInv, TypeOK, EveryPointOnce, BooksBalance
  <2> QED BY <2>6, <2>7, <2>8, <2>9, <2>10, <2>11 DEF BooksBalance
<1>6. MarksAreComplete'
  BY <1>0, <1>s, <1>d, CargoAssumption DEF MarksAreComplete, AwayIsEmpty, Crew, Keys, IInv, TypeOK
<1>7. SavedPointsOnce'
  BY <1>s, SavedStays DEF IInv
<1> QED BY <1>1, <1>2, <1>4, <1>5, <1>6, <1>7 DEF IInv, EveryPointOnce

\* A furnace costs points of the score.
LEMMA BuildStep ==
  ASSUME IInv, NEW p \in Pilots, NEW l \in Lots, NEW S \in SUBSET score[p], Build(p, l, S)
  PROVE  IInv'
<1>0. /\ p \in live
      /\ price[l] = {}
      /\ score' = [score EXCEPT ![p] = @ \ S]
      /\ price' = [price EXCEPT ![l] = S]
      /\ litMoved' = TRUE
      /\ UNCHANGED <<live, cargo, spent, bank, share, pods, moved>>
  BY DEF Build
<1>s. UNCHANGED <<db, inflight, botsSaved>> /\ Saved' = Saved /\ (litMoved => litMoved')
  BY DEF Build, town, writer, Saved, Idle, IInv, TypeOK
<1>r. \A r \in Pilots \ live : record'[r] = record[r]
  BY DEF Build, Capture, Snapshot, rows, IInv, TypeOK, Row
<1>d. \A r \in Pilots : r \notin dirty' \cup live' => r \notin dirty \cup live /\ record'[r] = record[r]
  BY CargoAssumption DEF Build, Capture, rows, IInv, TypeOK
<1>1. TypeOK'
  BY DEF Build, Capture, Snapshot, Row, ships, rows, town, writer, Crew, Keys, IInv, TypeOK
<1>2. AwayIsEmpty'
  BY <1>0, CargoAssumption DEF AwayIsEmpty, Crew, Keys, IInv, TypeOK
<1>3. NowIs /\ NowIs'
  BY <1>1, NowTable, PTL DEF IInv
<1>4. HeldOnce(Now)'
  <2>1. \A k \in Keys : \A x \in Now'.pods[k] : x \in Now.pods[k]
    BY <1>0, <1>3, CargoAssumption DEF AwayIsEmpty, Crew, Keys, IInv, TypeOK, NowIs
  <2>2. \A r \in Pilots : \A x \in Now'.rows[r].cargo : x \in Now.rows[r].cargo
    BY <1>0, <1>r, <1>3, CargoAssumption DEF AwayIsEmpty, Crew, Keys, IInv, TypeOK, NowIs
  <2>3. \A x \in Now'.bank : x \in Now.bank
    BY <1>0, <1>3 DEF NowIs
  <2>4. Now \in Image /\ Now' \in Image /\ HeldOnce(Now)
    BY <1>3 DEF IInv, EveryPointOnce, NowIs
  <2> QED BY <2>1, <2>2, <2>3, <2>4, HeldLess
<1>5. BooksBalance(Now)'
  <2>1. /\ \A q \in Pilots \ {p} : Now'.rows[q].score = Now.rows[q].score
        /\ Now.rows[p].score = score[p] /\ Now'.rows[p].score = score[p] \ S
    BY <1>0, <1>r, <1>3 DEF NowIs, IInv, TypeOK, Crew
  <2>2. /\ \A q \in Pilots \ {p} : Now'.rows[q].spent = Now.rows[q].spent
        /\ Now'.rows[p].spent = Now.rows[p].spent
    BY <1>0, <1>r, <1>3 DEF NowIs, IInv, TypeOK, Crew
  <2>3. /\ Now'.share = share' /\ Now'.bank = bank' /\ Now'.price = price'
        /\ Now.share = share /\ Now.bank = bank /\ Now.price = price
    BY <1>3 DEF NowIs
  <2>4. \A q \in Pilots \ {p} : Earned(Now', q) = Earned(Now, q)
    BY <2>1, <2>2 DEF Earned
  <2>5. /\ \A y \in Earned(Now', p) : y \in Earned(Now, p) /\ y \notin S
        /\ \A y \in Earned(Now, p) \ S : y \in Earned(Now', p)
        /\ \A y \in S : y \in Earned(Now, p)
        /\ Now'.price[l] = S /\ \A m \in Lots \ {l} : Now'.price[m] = Now.price[m]
    BY <1>0, <2>1, <2>2, <2>3 DEF IInv, TypeOK, EveryPointOnce, BooksBalance, Earned
  <2>6. Now'.share \subseteq Now'.bank
    BY <1>0, <2>1, <2>2, <2>3, <2>4, <2>5 DEF IInv, TypeOK, EveryPointOnce, BooksBalance
  <2>7. ASSUME NEW y \in Coins
        PROVE  y \in Now'.share <=> \/ \E q \in Pilots : y \in Earned(Now', q)
                                  \/ \E m \in Lots : y \in Now'.price[m]
    BY <1>0, <2>1, <2>2, <2>3, <2>4, <2>5 DEF IInv, TypeOK, EveryPointOnce, BooksBalance
  <2>8. \A q, r \in Pilots : q # r => Earned(Now', q) \cap Earned(Now', r) = {}
    BY <1>0, <2>1, <2>2, <2>3, <2>4, <2>5 DEF IInv, TypeOK, EveryPointOnce, BooksBalance
  <2>9. \A q \in Pilots : Now'.rows[q].score \cap Now'.rows[q].spent = {}
    BY <1>0, <2>1, <2>2, <2>3, <2>4, <2>5 DEF IInv, TypeOK, EveryPointOnce, BooksBalance
  <2>10. \A q \in Pilots, m \in Lots : Earned(Now', q) \cap Now'.price[m] = {}
    BY <1>0, <2>1, <2>2, <2>3, <2>4, <2>5 DEF IInv, TypeOK, EveryPointOnce, BooksBalance
  <2>11. \A m, n \in Lots : m # n => Now'.price[m] \cap Now'.price[n] = {}
    BY <1>0, <2>1, <2>2, <2>3, <2>4, <2>5 DEF IInv, TypeOK, EveryPointOnce, BooksBalance
  <2> QED BY <2>6, <2>7, <2>8, <2>9, <2>10, <2>11 DEF BooksBalance
<1>6. MarksAreComplete'
  BY <1>0, <1>s, <1>d, CargoAssumption DEF MarksAreComplete, AwayIsEmpty, Crew, Keys, IInv, TypeOK
<1>7. SavedPointsOnce'
  BY <1>s, SavedStays DEF IInv
<1> QED BY <1>1, <1>2, <1>4, <1>5, <1>6, <1>7 DEF IInv, EveryPointOnce

\* A deposited point is in the bank, and its pilot's.
LEMMA DepositStep ==
  ASSUME IInv, NEW c \in Crew, NEW x \in cargo[c], Deposit(c, x)
  PROVE  IInv'
<1>0. /\ c \in live
      /\ cargo' = [cargo EXCEPT ![c] = @ \ {x}]
      /\ bank' = bank \cup {x}
      /\ moved' = TRUE
      /\ c \in Pilots => share' = share \cup {x} /\ score' = [score EXCEPT ![c] = @ \cup {x}]
      /\ c \notin Pilots => UNCHANGED <<share, score>>
      /\ UNCHANGED <<live, spent, price, pods>>
  BY DEF Deposit
<1>s. UNCHANGED <<db, inflight, botsSaved>> /\ Saved' = Saved /\ (litMoved => litMoved')
  BY DEF Deposit, town, writer, Saved, Idle, IInv, TypeOK
<1>r. \A p \in Pilots \ live : record'[p] = record[p]
  BY DEF Deposit, Capture, Snapshot, rows, IInv, TypeOK, Row
<1>d. \A p \in Pilots : p \notin dirty' \cup live' => p \notin dirty \cup live /\ record'[p] = record[p]
  BY CargoAssumption DEF Deposit, Capture, rows, IInv, TypeOK
<1>1. TypeOK'
  BY DEF Deposit, Capture, Snapshot, Row, ships, rows, town, writer, Crew, Keys, IInv, TypeOK
<1>2. AwayIsEmpty'
  BY <1>0, CargoAssumption DEF AwayIsEmpty, Crew, Keys, IInv, TypeOK
<1>3. NowIs /\ NowIs'
  BY <1>1, NowTable, PTL DEF IInv
<1>4. HeldOnce(Now)'
  <2>1. \A k \in Keys : \A y \in Now'.pods[k] \ {x} : y \in Now.pods[k]
    BY <1>0, <1>3, CargoAssumption DEF AwayIsEmpty, Crew, Keys, IInv, TypeOK, NowIs
  <2>2. \A p \in Pilots : \A y \in Now'.rows[p].cargo \ {x} : y \in Now.rows[p].cargo
    BY <1>0, <1>r, <1>3, CargoAssumption DEF AwayIsEmpty, Crew, Keys, IInv, TypeOK, NowIs
  <2>3. \A y \in Now'.bank \ {x} : y \in Now.bank
    BY <1>0, <1>3 DEF NowIs
  <2>4. \A y \in {x} : Once(Now', y)
    <3> SUFFICES ASSUME NEW y \in {x} PROVE Once(Now', y)
      OBVIOUS
    <3>0. /\ \A k \in Keys : x \in Now.pods[k] => k = c
          /\ \A p \in Pilots : x \in Now.rows[p].cargo => p = c
          /\ cargo \in [Crew -> SUBSET Coins] /\ c \in live
      BY <1>0, <1>3, AboardIsOnce DEF IInv, TypeOK
    <3>1. ASSUME NEW k \in Keys PROVE x \notin Now'.pods[k]
      <4>1. CASE k = c
        BY <1>0, <1>3, <3>0, <4>1 DEF NowIs
      <4>2. CASE k # c
        <5>1. x \notin Now.pods[k]
          BY <3>0, <4>2
        <5> QED BY <2>1, <5>1, <4>2, <1>0, <1>3, <3>0 DEF NowIs
      <4> QED BY <4>1, <4>2
    <3>2. ASSUME NEW p \in Pilots PROVE x \notin Now'.rows[p].cargo
      <4>1. CASE p = c
        BY <1>0, <1>3, <3>0, <4>1 DEF NowIs
      <4>2. CASE p # c
        <5>1. x \notin Now.rows[p].cargo
          BY <3>0, <4>2
        <5> QED BY <5>1, <4>2, <1>0, <1>r, <1>3, <3>0 DEF NowIs, Crew
      <4> QED BY <4>1, <4>2
    <3>3. x \in Now'.bank
      BY <1>0, <1>3 DEF NowIs
    <3> QED BY <3>1, <3>2, <3>3, CargoAssumption DEF Once, Crew, Keys
  <2>5. {x} \in SUBSET Coins
    BY DEF IInv, TypeOK, Crew, Keys
  <2>6. Now \in Image /\ Now' \in Image /\ HeldOnce(Now)
    BY <1>3 DEF IInv, EveryPointOnce, NowIs
  <2> QED BY <2>1, <2>2, <2>3, <2>4, <2>5, <2>6, HeldAfter
<1>5. BooksBalance(Now)'
  <2>0. x \in Coins /\ x \notin Now.bank /\ x \notin Now.share
    BY <1>0, <1>3 DEF NowIs, IInv, TypeOK, Crew, Keys, EveryPointOnce, HeldOnce, BooksBalance
  <2>1. /\ \A q \in Pilots \ {c} : Now'.rows[q].score = Now.rows[q].score
        /\ c \in Pilots => Now.rows[c].score = score[c] /\ Now'.rows[c].score = score[c] \cup {x}
    BY <1>0, <1>r, <1>3 DEF NowIs, IInv, TypeOK, Crew
  <2>2. /\ \A q \in Pilots \ {c} : Now'.rows[q].spent = Now.rows[q].spent
        /\ c \in Pilots => Now'.rows[c].spent = Now.rows[c].spent
    BY <1>0, <1>r, <1>3 DEF NowIs, IInv, TypeOK, Crew
  <2>3. /\ Now'.share = share' /\ Now'.bank = bank' /\ Now'.price = price'
        /\ Now.share = share /\ Now.bank = bank /\ Now.price = price
    BY <1>3 DEF NowIs
  <2>4. \A q \in Pilots \ {c} : Earned(Now', q) = Earned(Now, q)
    BY <2>1, <2>2 DEF Earned
  <2>5. c \in Pilots => Earned(Now', c) = Earned(Now, c) \cup {x} /\ x \notin Now.rows[c].spent
    BY <1>0, <2>1, <2>2, <2>3, <2>0 DEF IInv, TypeOK, EveryPointOnce, BooksBalance, Earned
  <2>6. Now'.share \subseteq Now'.bank
    BY <1>0, <2>1, <2>2, <2>3, <2>4, <2>5, <2>0 DEF IInv, TypeOK, EveryPointOnce, BooksBalance
  <2>7. ASSUME NEW y \in Coins
        PROVE  y \in Now'.share <=> \/ \E q \in Pilots : y \in Earned(Now', q)
                                  \/ \E m \in Lots : y \in Now'.price[m]
    BY <1>0, <2>1, <2>2, <2>3, <2>4, <2>5, <2>0 DEF IInv, TypeOK, EveryPointOnce, BooksBalance
  <2>8. \A q, r \in Pilots : q # r => Earned(Now', q) \cap Earned(Now', r) = {}
    BY <1>0, <2>1, <2>2, <2>3, <2>4, <2>5, <2>0 DEF IInv, TypeOK, EveryPointOnce, BooksBalance
  <2>9. \A q \in Pilots : Now'.rows[q].score \cap Now'.rows[q].spent = {}
    BY <1>0, <2>1, <2>2, <2>3, <2>4, <2>5, <2>0 DEF IInv, TypeOK, EveryPointOnce, BooksBalance
  <2>10. \A q \in Pilots, m \in Lots : Earned(Now', q) \cap Now'.price[m] = {}
    BY <1>0, <2>1, <2>2, <2>3, <2>4, <2>5, <2>0 DEF IInv, TypeOK, EveryPointOnce, BooksBalance
  <2>11. \A m, n \in Lots : m # n => Now'.price[m] \cap Now'.price[n] = {}
    BY <1>0, <2>1, <2>2, <2>3, <2>4, <2>5, <2>0 DEF IInv, TypeOK, EveryPointOnce, BooksBalance
  <2> QED BY <2>6, <2>7, <2>8, <2>9, <2>10, <2>11 DEF BooksBalance
<1>6. MarksAreComplete'
  BY <1>0, <1>s, <1>d, CargoAssumption DEF MarksAreComplete, AwayIsEmpty, Crew, Keys, IInv, TypeOK
<1>7. SavedPointsOnce'
  BY <1>s, SavedStays DEF IInv
<1> QED BY <1>1, <1>2, <1>4, <1>5, <1>6, <1>7 DEF IInv, EveryPointOnce

\* A reward is in the bank, and its pilot's, aboard or away.
LEMMA AwardStep ==
  ASSUME IInv, NEW p \in Pilots, NEW x \in Unused, Award(p, x)
  PROVE  IInv'
<1>0. /\ bank' = bank \cup {x}
      /\ share' = share \cup {x}
      /\ moved' = TRUE
      /\ p \in live => score' = [score EXCEPT ![p] = @ \cup {x}]
      /\ p \notin live => UNCHANGED score
      /\ UNCHANGED <<live, cargo, spent, price, pods>>
  BY DEF Award, ships
<1>s. UNCHANGED <<db, inflight, botsSaved>> /\ Saved' = Saved /\ (litMoved => litMoved')
  BY DEF Award, ships, town, writer, Saved, Idle, IInv, TypeOK
<1>r. /\ \A q \in Pilots \ (live \cup {p}) : record'[q] = record[q]
      /\ p \notin live => /\ record'[p].cargo = record[p].cargo /\ record'[p].spent = record[p].spent
                        /\ record'[p].score = record[p].score \cup {x}
  BY DEF Award, ships, Capture, Snapshot, rows, IInv, TypeOK, Row
<1>d. \A r \in Pilots : r \notin dirty' \cup live' => r \notin dirty \cup live /\ record'[r] = record[r]
  BY CargoAssumption DEF Award, ships, Capture, rows, IInv, TypeOK
<1>1. TypeOK'
  <2>1. x \in Coins
    BY UnusedIsNowhere DEF IInv
  <2>2. score' \in [Pilots -> SUBSET Coins]
    BY <1>0, <2>1 DEF IInv, TypeOK
  <2>3. record' \in [Pilots -> Row]
    <3>1. CASE p \in live
      BY <3>1, <2>1, <2>2 DEF Award, Capture, Snapshot, Row, Crew, IInv, TypeOK
    <3>2. CASE p \notin live
      BY <3>2, <2>1 DEF Award, Row, IInv, TypeOK
    <3> QED BY <3>1, <3>2
  <2> QED
    BY <2>1, <2>2, <2>3 DEF Award, Capture, ships, rows, writer, IInv, TypeOK
<1>2. AwayIsEmpty'
  BY <1>0, CargoAssumption DEF AwayIsEmpty, Crew, Keys, IInv, TypeOK
<1>3. NowIs /\ NowIs'
  BY <1>1, NowTable, PTL DEF IInv
<1>4. HeldOnce(Now)'
  <2>1. \A k \in Keys : \A y \in Now'.pods[k] \ {x} : y \in Now.pods[k]
    BY <1>0, <1>3, CargoAssumption DEF AwayIsEmpty, Crew, Keys, IInv, TypeOK, NowIs
  <2>2. \A r \in Pilots : \A y \in Now'.rows[r].cargo \ {x} : y \in Now.rows[r].cargo
    BY <1>0, <1>r, <1>3, CargoAssumption DEF AwayIsEmpty, Crew, Keys, IInv, TypeOK, NowIs
  <2>3. \A y \in Now'.bank \ {x} : y \in Now.bank
    BY <1>0, <1>3 DEF NowIs
  <2>4. \A y \in {x} : Once(Now', y)
    <3> SUFFICES ASSUME NEW y \in {x} PROVE Once(Now', y)
      OBVIOUS
    <3>1. \A k \in Keys : x \notin Now'.pods[k]
      BY <1>0, <1>r, <1>3, UnusedIsNowhere, CargoAssumption DEF HeldOnce, EveryPointOnce, AwayIsEmpty, Crew, Keys, IInv, TypeOK, NowIs
    <3>2. \A q \in Pilots : x \notin Now'.rows[q].cargo
      BY <1>0, <1>r, <1>3, UnusedIsNowhere, CargoAssumption DEF HeldOnce, EveryPointOnce, AwayIsEmpty, Crew, Keys, IInv, TypeOK, NowIs
    <3>3. x \in Now'.bank
      BY <1>0, <1>r, <1>3, UnusedIsNowhere, CargoAssumption DEF HeldOnce, EveryPointOnce, AwayIsEmpty, Crew, Keys, IInv, TypeOK, NowIs
    <3> QED BY <3>1, <3>2, <3>3, CargoAssumption DEF Once, Crew, Keys
  <2>5. {x} \in SUBSET Coins
    BY UnusedIsNowhere DEF IInv, TypeOK, Crew, Keys
  <2>6. Now \in Image /\ Now' \in Image /\ HeldOnce(Now)
    BY <1>3 DEF IInv, EveryPointOnce, NowIs
  <2> QED BY <2>1, <2>2, <2>3, <2>4, <2>5, <2>6, HeldAfter
<1>5. BooksBalance(Now)'
  <2>1. /\ \A q \in Pilots \ {p} : Now'.rows[q].score = Now.rows[q].score
        /\ Now'.rows[p].score = Now.rows[p].score \cup {x}
    BY <1>0, <1>r, <1>3 DEF NowIs, IInv, TypeOK, Crew
  <2>2. /\ \A q \in Pilots \ {p} : Now'.rows[q].spent = Now.rows[q].spent
        /\ Now'.rows[p].spent = Now.rows[p].spent
    BY <1>0, <1>r, <1>3 DEF NowIs, IInv, TypeOK, Crew
  <2>3. /\ Now'.share = share' /\ Now'.bank = bank' /\ Now'.price = price'
        /\ Now.share = share /\ Now.bank = bank /\ Now.price = price
    BY <1>3 DEF NowIs
  <2>4. \A q \in Pilots \ {p} : Earned(Now', q) = Earned(Now, q)
    BY <2>1, <2>2 DEF Earned
  <2>5. Earned(Now', p) = Earned(Now, p) \cup {x}
    BY <1>0, <2>1, <2>2, <2>3, UnusedIsNowhere DEF IInv, TypeOK, EveryPointOnce, BooksBalance, Earned
  <2>6. Now'.share \subseteq Now'.bank
    BY <1>0, <2>1, <2>2, <2>3, <2>4, <2>5, UnusedIsNowhere DEF IInv, TypeOK, EveryPointOnce, BooksBalance
  <2>7. ASSUME NEW y \in Coins
        PROVE  y \in Now'.share <=> \/ \E q \in Pilots : y \in Earned(Now', q)
                                  \/ \E m \in Lots : y \in Now'.price[m]
    BY <1>0, <2>1, <2>2, <2>3, <2>4, <2>5, UnusedIsNowhere DEF IInv, TypeOK, EveryPointOnce, BooksBalance
  <2>8. \A q, r \in Pilots : q # r => Earned(Now', q) \cap Earned(Now', r) = {}
    BY <1>0, <2>1, <2>2, <2>3, <2>4, <2>5, UnusedIsNowhere DEF IInv, TypeOK, EveryPointOnce, BooksBalance
  <2>9. \A q \in Pilots : Now'.rows[q].score \cap Now'.rows[q].spent = {}
    BY <1>0, <2>1, <2>2, <2>3, <2>4, <2>5, UnusedIsNowhere DEF IInv, TypeOK, EveryPointOnce, BooksBalance
  <2>10. \A q \in Pilots, m \in Lots : Earned(Now', q) \cap Now'.price[m] = {}
    BY <1>0, <2>1, <2>2, <2>3, <2>4, <2>5, UnusedIsNowhere DEF IInv, TypeOK, EveryPointOnce, BooksBalance
  <2>11. \A m, n \in Lots : m # n => Now'.price[m] \cap Now'.price[n] = {}
    BY <1>0, <2>1, <2>2, <2>3, <2>4, <2>5, UnusedIsNowhere DEF IInv, TypeOK, EveryPointOnce, BooksBalance
  <2> QED BY <2>6, <2>7, <2>8, <2>9, <2>10, <2>11 DEF BooksBalance
<1>6. MarksAreComplete'
  BY <1>0, <1>s, <1>d, CargoAssumption DEF MarksAreComplete, AwayIsEmpty, Crew, Keys, IInv, TypeOK
<1>7. SavedPointsOnce'
  BY <1>s, SavedStays DEF IInv
<1> QED BY <1>1, <1>2, <1>4, <1>5, <1>6, <1>7 DEF IInv, EveryPointOnce

-----------------------------------------------------------------------------
(* Batches.                                                                *)

\* Images are equal when they are equal at each place.
LEMMA SameImage ==
  ASSUME NEW i \in Image, NEW j \in Image,
         \A k \in Keys : i.pods[k] = j.pods[k],
         i.bank = j.bank, i.share = j.share, i.price = j.price,
         \A p \in Pilots : i.rows[p] = j.rows[p]
  PROVE  i = j
<1>1. i.pods = j.pods /\ i.rows = j.rows
  BY DEF Image
<1> QED BY <1>1 DEF Image

\* What is saved, or about to be, is an image.
LEMMA SavedType == TypeOK => Saved \in Image
  BY CargoAssumption DEF TypeOK, Saved, Idle

\* The parts that were not written since are right in the database, so the batch that
\* leaves them out is memory as well.
LEMMA BatchIsNow ==
  ASSUME IInv
  PROVE  Batch(Now, dirty \cup (live \cap Pilots), moved, litMoved) = Now
<1> DEFINE touched == dirty \cup (live \cap Pilots)
           B == Batch(Now, touched, moved, litMoved)
           economy == moved \/ BotCargo # {} \/ botsSaved
<1>1. NowIs /\ Saved \in Image
  BY NowTable, SavedType DEF IInv
<1>2. /\ B.pods = IF economy THEN Now.pods ELSE Saved.pods
      /\ B.bank = IF economy THEN Now.bank ELSE Saved.bank
      /\ B.share = IF economy THEN Now.share ELSE Saved.share
      /\ B.price = IF litMoved THEN Now.price ELSE Saved.price
      /\ \A p \in Pilots : B.rows[p] = IF p \in touched THEN Now.rows[p] ELSE Saved.rows[p]
  BY DEF Batch
<1>3. B \in Image
  BY <1>1 DEF Batch, NowIs, Image
<1> HIDE DEF B
<1>4. \A k \in Keys : B.pods[k] = Now.pods[k]
  <2>1. CASE economy
    BY <2>1, <1>2
  <2>2. CASE ~economy
    <3>1. \A k \in Keys : Saved.pods[k] = IF k \in live THEN {} ELSE pods[k]
      BY <2>2 DEF IInv, MarksAreComplete, TypeOK
    <3>2. \A k \in Keys : k \in live => k \in Bots
      BY CargoAssumption DEF IInv, TypeOK, Crew, Keys
    <3>3. \A b \in Bots \cap live : cargo[b] = {}
      BY <2>2 DEF BotCargo
    <3> QED BY <2>2, <1>1, <1>2, <3>1, <3>2, <3>3 DEF NowIs
  <2> QED BY <2>1, <2>2
<1>5. B.bank = Now.bank /\ B.share = Now.share /\ B.price = Now.price
  BY <1>1, <1>2 DEF NowIs, IInv, MarksAreComplete, TypeOK
<1>6. \A p \in Pilots : B.rows[p] = Now.rows[p]
  <2>1. \A p \in Pilots \ live : Now.rows[p] = record[p]
    BY DEF Now, Account
  <2> QED BY <1>2, <2>1 DEF IInv, MarksAreComplete
<1>7. B = Now
  BY <1>1, <1>3, <1>4, <1>5, <1>6, SameImage DEF NowIs
<1> QED BY <1>7 DEF B

\* A flush hands over memory as it is.
LEMMA FlushStep ==
  ASSUME IInv, Flush
  PROVE  IInv' /\ inflight' = Now'
<1>0. /\ record' = [p \in Pilots |-> Account(p)]
      /\ UNCHANGED <<live, cargo, hold, score, spent, pods, bank, share, price, db>>
      /\ moved' = FALSE /\ litMoved' = FALSE /\ dirty' = {} /\ waiting' = FALSE
      /\ botsSaved' = (BotCargo # {})
  BY DEF Flush, Clean, ships
<1>1. Now' = Now
  <2>1. SavedPods' = SavedPods
    BY <1>0 DEF SavedPods
  <2>2. \A p \in Pilots : Account(p)' = Account(p)
    BY <1>0 DEF Account, Snapshot
  <2> QED BY <1>0, <2>1, <2>2 DEF Now
<1>2. inflight' = Now
  BY BatchIsNow DEF Flush
<1>3. Now \in Image
  BY NowTable DEF IInv, NowIs
<1>4. TypeOK'
  BY <1>0, <1>1, <1>2, <1>3 DEF IInv, TypeOK, Now, Image
<1>5. AwayIsEmpty'
  BY <1>0 DEF IInv, AwayIsEmpty
<1>6. Now # NoImage
  BY <1>3, CargoAssumption DEF Image, Row, Keys
<1>7. Saved' = Now'
  BY <1>1, <1>2, <1>6 DEF Saved, Idle
<1>8. EveryPointOnce' /\ SavedPointsOnce'
  BY <1>0, <1>1, <1>2 DEF IInv, EveryPointOnce, SavedPointsOnce
<1>9. NowIs'
  BY <1>4, NowTable, PTL
<1>10. MarksAreComplete'
  <2>1. ASSUME ~botsSaved', NEW k \in Keys, k \in live
        PROVE  cargo[k] = {}
    <3>1. k \in Bots
      BY <2>1, CargoAssumption DEF IInv, TypeOK, Crew, Keys
    <3>2. BotCargo = {}
      BY <2>1, <1>0
    <3> QED BY <2>1, <3>1, <3>2 DEF BotCargo
  <2>2. ~botsSaved' => \A k \in Keys : Saved'.pods[k] = IF k \in live' THEN {} ELSE pods'[k]
    BY <2>1, <1>0, <1>7, <1>9 DEF NowIs
  <2>3. Saved'.bank = bank' /\ Saved'.share = share' /\ Saved'.price = price'
    BY <1>7, <1>9 DEF NowIs
  <2>4. \A p \in Pilots \ live' : Saved'.rows[p] = record'[p]
    BY <1>7 DEF Now, Account
  <2> QED BY <2>2, <2>3, <2>4 DEF MarksAreComplete
<1> QED BY <1>1, <1>2, <1>4, <1>5, <1>8, <1>10 DEF IInv

\* The points of the bots are in the pods they spill when the last pilot leaves.
LEMMA LeaveLastStep ==
  ASSUME IInv, NEW p \in Pilots, NEW spill \in [Laden -> Pods],
         \A b \in Laden : Free(spill[b]), LeaveLast(p, spill)
  PROVE  IInv' /\ (Idle => inflight' = Now')
<1> DEFINE left == Spilled(spill)
           memory == [Now EXCEPT !.pods = left]
<1>0. /\ live \cap Pilots = {p} /\ live' = {} /\ cargo' = [c \in Crew |-> {}]
      /\ score' = [score EXCEPT ![p] = {}] /\ spent' = [spent EXCEPT ![p] = {}]
      /\ record' = [record EXCEPT ![p] = Snapshot(p)]
      /\ pods' = left
      /\ UNCHANGED <<hold, bank, share, price, db>>
      /\ Injective(spill)
  BY DEF LeaveLast
<1>1. NowIs
  BY NowTable DEF IInv
<1>2. /\ Laden \subseteq Bots \cap live
      /\ \A b \in Bots \cap live : b \notin Laden => cargo[b] = {}
      /\ \A b \in Laden : pods[spill[b]] = {} /\ spill[b] \notin live
      /\ Laden = {} <=> BotCargo = {}
  BY DEF Laden, Free, BotCargo
<1>3. /\ left \in [Keys -> SUBSET Coins]
      /\ \A k \in Keys : \A x \in left[k] : x \in pods[k] \/ \E b \in Laden : spill[b] = k /\ x \in cargo[b]
      /\ Laden = {} => \A k \in Keys : left[k] = pods[k]
  <2>1. \A k \in Keys : left[k] = pods[k] \cup UNION {cargo[b] : b \in {a \in Laden : spill[a] = k}}
    BY DEF Spilled
  <2>2. \A b \in Laden : cargo[b] \subseteq Coins
    BY <1>2 DEF IInv, TypeOK, Crew
  <2>3. left = [k \in Keys |-> left[k]]
    BY DEF Spilled
  <2>4. \A k \in Keys : left[k] \subseteq Coins
    BY <2>1, <2>2 DEF IInv, TypeOK
  <2>5. Laden = {} => \A k \in Keys : left[k] = pods[k]
    BY <2>1
  <2> HIDE DEF left
  <2> QED BY <2>1, <2>3, <2>4, <2>5
<1> HIDE DEF left
<1>r. /\ \A q \in Pilots : record'[q] = Account(q)
      /\ record' \in [Pilots -> Row]
  BY <1>0 DEF Account, Snapshot, Row, IInv, TypeOK, Crew
<1>4. /\ inflight' \in {inflight, Batch(memory, dirty \cup {p}, moved \/ Laden # {}, litMoved)}
      /\ Idle => inflight' = Batch(memory, dirty \cup {p}, moved \/ Laden # {}, litMoved)
      /\ ~Idle => inflight' = inflight
  BY DEF LeaveLast, left
<1>5. /\ memory \in Image /\ memory.pods = left
      /\ memory.bank = Now.bank /\ memory.share = Now.share
      /\ memory.price = Now.price /\ memory.rows = Now.rows
  BY <1>1, <1>3 DEF NowIs, Image
<1>6. Now' = memory
  <2>1. SavedPods' = left
    BY <1>0, <1>3 DEF SavedPods
  <2>2. \A q \in Pilots : Account(q)' = Account(q)
    <3>1. \A q \in Pilots : Account(q)' = record'[q]
      BY <1>0 DEF Account
    <3> QED BY <3>1, <1>r, Zenon
  <2>3. /\ Now' = [pods |-> left, bank |-> bank, share |-> share, price |-> price,
                   rows |-> [q \in Pilots |-> Account(q)]]
        /\ Now = [pods |-> SavedPods, bank |-> bank, share |-> share, price |-> price,
                  rows |-> [q \in Pilots |-> Account(q)]]
    BY <1>0, <2>1, <2>2 DEF Now
  <2> QED BY <2>3
<1>7. HeldOnce(memory)
  <2> DEFINE spilled == UNION {cargo[b] : b \in Laden}
  <2>1. \A k \in Keys : \A x \in left[k] \ spilled : x \in Now.pods[k]
    <3>1. \A k \in Keys \cap live : k \in Bots
      BY CargoAssumption DEF IInv, TypeOK, Crew, Keys
    <3>2. \A k \in Keys \cap live : pods[k] = {}
      BY <3>1 DEF IInv, AwayIsEmpty
    <3>3. \A k \in Keys : \A x \in left[k] \ spilled : x \in pods[k]
      BY <1>3
    <3> QED BY <3>2, <3>3, <1>1 DEF NowIs
  <2>2. spilled \in SUBSET Coins
    BY <1>2 DEF IInv, TypeOK, Crew
  <2>3. ASSUME NEW x \in spilled
        PROVE  Once(memory, x)
    <3>1. PICK b \in Laden : x \in cargo[b]
      OBVIOUS
    <3>2. x \in Now.pods[b] /\ b \in Keys
      BY <3>1, <1>1, <1>2 DEF NowIs, Keys
    <3>3. /\ \A k \in Keys : x \in Now.pods[k] => k = b
          /\ \A q \in Pilots : x \notin Now.rows[q].cargo
          /\ x \notin Now.bank
      BY <3>2 DEF IInv, EveryPointOnce, HeldOnce
    <3>4. \A a \in Laden : x \in cargo[a] => a = b
      BY <3>3, <1>1, <1>2 DEF NowIs, Keys
    <3>5. \A k \in Keys : x \notin pods[k]
      <4>1. \A k \in Keys \cap live : pods[k] = {}
        BY CargoAssumption DEF IInv, TypeOK, AwayIsEmpty, Crew, Keys
      <4>2. \A k \in Keys \ live : x \in pods[k] => k = b
        BY <3>3, <1>1 DEF NowIs
      <4> QED BY <4>1, <4>2, <1>2
    <3>6. \A k \in Keys : x \in left[k] => k = spill[b]
      BY <1>3, <3>4, <3>5
    <3> QED BY <3>3, <3>6, <1>5 DEF Once
  <2> HIDE DEF spilled, memory
  <2> QED BY <2>1, <2>2, <2>3, <1>1, <1>5, HeldAfter DEF IInv, EveryPointOnce, NowIs
<1>8. BooksBalance(memory)
  BY <1>1, <1>5, BooksSame DEF IInv, EveryPointOnce, BooksBalance, NowIs
<1>9. EveryPointOnce'
  BY <1>6, <1>7, <1>8 DEF EveryPointOnce
<1>10. Idle => inflight' = memory
  <2> SUFFICES ASSUME Idle PROVE inflight' = memory
    OBVIOUS
  <2> DEFINE B == Batch(memory, dirty \cup {p}, moved \/ Laden # {}, litMoved)
             economy == moved \/ Laden # {} \/ BotCargo # {} \/ botsSaved
  <2>1. Saved \in Image
    BY SavedType DEF IInv
  <2>2. /\ B.pods = IF economy THEN memory.pods ELSE Saved.pods
        /\ B.bank = IF economy THEN memory.bank ELSE Saved.bank
        /\ B.share = IF economy THEN memory.share ELSE Saved.share
        /\ B.price = IF litMoved THEN memory.price ELSE Saved.price
        /\ \A q \in Pilots : B.rows[q] = IF q \in dirty \cup {p} THEN memory.rows[q] ELSE Saved.rows[q]
    BY DEF Batch
  <2> HIDE DEF memory
  <2>3. B \in Image
    BY <2>1, <1>5 DEF Batch, Image
  <2> HIDE DEF B
  <2>4. \A k \in Keys : B.pods[k] = memory.pods[k]
    <3>1. CASE economy
      BY <3>1, <2>2
    <3>2. CASE ~economy
      <4>1. \A k \in Keys : Saved.pods[k] = IF k \in live THEN {} ELSE pods[k]
        BY <3>2 DEF IInv, MarksAreComplete, TypeOK
      <4>2. \A k \in Keys \cap live : pods[k] = {}
        BY CargoAssumption DEF IInv, TypeOK, AwayIsEmpty, Crew, Keys
      <4>3. \A k \in Keys : left[k] = pods[k]
        BY <3>2, <1>3
      <4> QED BY <3>2, <2>2, <1>5, <4>1, <4>2, <4>3
    <3> QED BY <3>1, <3>2
  <2>5. B.bank = memory.bank /\ B.share = memory.share /\ B.price = memory.price
    BY <1>1, <1>5, <2>2 DEF NowIs, IInv, MarksAreComplete, TypeOK
  <2>6. \A q \in Pilots : B.rows[q] = memory.rows[q]
    <3>1. \A q \in Pilots \ {p} : Now.rows[q] = record[q] /\ q \notin live
      BY <1>0 DEF Now, Account
    <3> QED BY <1>5, <2>2, <3>1 DEF IInv, MarksAreComplete
  <2>7. B = memory
    BY <1>5, <2>3, <2>4, <2>5, <2>6, SameImage
  <2> QED BY <1>4, <2>7 DEF B
<1>11. TypeOK'
  <2>1. inflight' \in Image \cup {NoImage}
    BY <1>4, <1>5, <1>10 DEF IInv, TypeOK
  <2>2. {moved', litMoved', botsSaved', waiting'} \subseteq BOOLEAN /\ dirty' \subseteq Pilots
    BY DEF LeaveLast, Clean, IInv, TypeOK
  <2> QED BY <2>1, <2>2, <1>0, <1>3, <1>r DEF IInv, TypeOK
<1>12. AwayIsEmpty'
  BY <1>0 DEF IInv, TypeOK, AwayIsEmpty
<1>13. SavedPointsOnce'
  BY <1>0, <1>4, <1>7, <1>8, <1>10 DEF IInv, SavedPointsOnce, Idle
<1>14. MarksAreComplete'
  <2>0. NowIs'
    BY <1>11, NowTable, PTL
  <2>1. CASE Idle
    <3>1. Saved' = Now'
      BY <2>1, <1>5, <1>6, <1>10, CargoAssumption DEF Saved, Idle, Image, Row, Keys
    <3>2. \A k \in Keys : Saved'.pods[k] = pods'[k]
      BY <3>1, <2>0, <1>0 DEF NowIs
    <3>3. Saved'.bank = bank' /\ Saved'.share = share' /\ Saved'.price = price'
      BY <3>1, <2>0 DEF NowIs
    <3>4. \A q \in Pilots : Saved'.rows[q] = record'[q]
      BY <3>1, <1>0 DEF Now, Account
    <3> QED BY <3>2, <3>3, <3>4, <1>0 DEF MarksAreComplete
  <2>2. CASE ~Idle
    <3>1. /\ Saved' = Saved
          /\ dirty' = dirty \cup {p} /\ moved' = (moved \/ Laden # {})
          /\ litMoved' = litMoved /\ botsSaved' = botsSaved
      BY <2>2, <1>4 DEF LeaveLast, Saved, Idle
    <3>2. ~moved' => \A k \in Keys : left[k] = pods[k] /\ ~moved
      BY <3>1, <1>3 DEF IInv, TypeOK
    <3>3. \A k \in Keys \cap live : pods[k] = {}
      BY CargoAssumption DEF IInv, TypeOK, AwayIsEmpty, Crew, Keys
    <3>4. \A q \in Pilots \ (dirty' \cup live') : q \notin dirty \cup live /\ record'[q] = record[q]
      BY <3>1, <1>0 DEF IInv, TypeOK
    <3> QED BY <3>1, <3>2, <3>3, <3>4, <1>0 DEF IInv, MarksAreComplete
  <2> QED BY <2>1, <2>2
<1> QED BY <1>6, <1>9, <1>10, <1>11, <1>12, <1>13, <1>14 DEF IInv

-----------------------------------------------------------------------------
(* The database.                                                           *)

\* What lands is what was handed over.
LEMMA LandStep ==
  ASSUME IInv, Land
  PROVE  IInv'
<1>0. /\ db' = inflight /\ inflight' = NoImage /\ ~Idle
      /\ UNCHANGED <<live, cargo, hold, score, spent, record, dirty, pods, moved,
                     bank, share, price, litMoved, botsSaved, waiting>>
  BY DEF Land, ships, rows, town
<1>1. TypeOK'
  BY <1>0 DEF IInv, TypeOK, Idle
<1>2. Now' = Now
  BY <1>0 DEF Now, SavedPods, Account, Snapshot
<1>3. Saved' = Saved
  BY <1>0 DEF Saved, Idle
<1>4. AwayIsEmpty' /\ EveryPointOnce'
  BY <1>0, <1>2 DEF IInv, AwayIsEmpty, EveryPointOnce
<1>5. SavedPointsOnce'
  BY <1>0 DEF IInv, SavedPointsOnce, Idle
<1>6. MarksAreComplete'
  BY <1>0, <1>3 DEF IInv, MarksAreComplete
<1> QED BY <1>1, <1>4, <1>5, <1>6 DEF IInv

\* A restart finds what was saved, less the pods that have expired.
LEMMA CrashStep ==
  ASSUME IInv, NEW lapsed \in SUBSET Keys, Crash(lapsed)
  PROVE  IInv'
<1>0. /\ db' \in {db, Saved} /\ inflight' = NoImage /\ waiting' = FALSE /\ botsSaved' = FALSE
      /\ live' = {} /\ cargo' = [c \in Crew |-> {}] /\ hold' = hold
      /\ score' = [p \in Pilots |-> {}] /\ spent' = [p \in Pilots |-> {}]
      /\ record' = db'.rows /\ dirty' = {}
      /\ pods' = [k \in Keys |-> IF k \in lapsed THEN {} ELSE db'.pods[k]]
      /\ bank' = db'.bank /\ share' = db'.share /\ price' = db'.price
      /\ moved' = TRUE /\ litMoved' = TRUE
  BY DEF Crash
<1>1. db' \in Image /\ HeldOnce(db') /\ BooksBalance(db')
  BY <1>0, SavedType DEF IInv, TypeOK, SavedPointsOnce, Saved, Idle
<1>2. TypeOK'
  BY <1>0, <1>1 DEF IInv, TypeOK, Image
<1>3. NowIs'
  BY <1>2, NowTable, PTL
<1>4. AwayIsEmpty'
  BY <1>0 DEF AwayIsEmpty
<1>5. /\ \A k \in Keys : \A x \in Now'.pods[k] : x \in db'.pods[k]
      /\ \A p \in Pilots : /\ Now'.rows[p].cargo = db'.rows[p].cargo
                           /\ Now'.rows[p].score = db'.rows[p].score
                           /\ Now'.rows[p].spent = db'.rows[p].spent
      /\ Now'.bank = db'.bank /\ Now'.share = db'.share /\ Now'.price = db'.price
  BY <1>0, <1>3 DEF NowIs
<1>6. HeldOnce(Now')
  BY <1>1, <1>3, <1>5, HeldLess DEF NowIs
<1>7. BooksBalance(Now')
  BY <1>1, <1>3, <1>5, BooksSame DEF NowIs, BooksBalance
<1>8. SavedPointsOnce'
  BY <1>0, <1>1 DEF SavedPointsOnce, Idle
<1>9. MarksAreComplete'
  BY <1>0 DEF MarksAreComplete, Saved, Idle
<1> QED BY <1>2, <1>4, <1>6, <1>7, <1>8, <1>9 DEF IInv, EveryPointOnce

-----------------------------------------------------------------------------
(* The theorems.                                                           *)

\* A new world holds nothing.
LEMMA InitStep == Init => IInv
<1> SUFFICES ASSUME Init PROVE IInv
  OBVIOUS
<1>0. Nothing \in Image
  BY DEF Nothing, Image, Row, NoRow, Keys
<1>1. TypeOK
  BY <1>0 DEF Init, TypeOK, Image
<1>2. NowIs
  BY <1>1, NowTable
<1>3. HeldOnce(Nothing) /\ BooksBalance(Nothing)
  BY DEF Nothing, NoRow, HeldOnce, BooksBalance, Earned
<1>4. /\ \A k \in Keys : Now.pods[k] = {}
      /\ \A p \in Pilots : Now.rows[p].cargo = {} /\ Now.rows[p].score = {} /\ Now.rows[p].spent = {}
      /\ Now.bank = {} /\ Now.share = {} /\ \A l \in Lots : Now.price[l] = {}
  BY <1>2 DEF NowIs, Init, Nothing, NoRow
<1>5. EveryPointOnce
  BY <1>4 DEF EveryPointOnce, HeldOnce, BooksBalance, Earned
<1>6. SavedPointsOnce
  BY <1>3 DEF Init, SavedPointsOnce, Idle
<1>7. AwayIsEmpty /\ MarksAreComplete
  BY DEF Init, AwayIsEmpty, MarksAreComplete, Saved, Idle, Crew
<1> QED BY <1>1, <1>5, <1>6, <1>7 DEF IInv

\* Nothing that is left unchanged matters to the invariant.
LEMMA StutterStep == IInv /\ UNCHANGED vars => IInv'
<1> SUFFICES ASSUME IInv, UNCHANGED vars PROVE IInv'
  OBVIOUS
<1>0. UNCHANGED <<live, cargo, hold, score, spent, record, dirty, pods, moved, bank, share, price,
                  litMoved, botsSaved, waiting, inflight, db>>
  BY DEF vars, ships, rows, town, writer
<1>1. Now' = Now /\ Saved' = Saved
  BY <1>0 DEF Now, SavedPods, Account, Snapshot, Saved, Idle
<1>2. TypeOK' /\ AwayIsEmpty'
  BY <1>0 DEF IInv, TypeOK, AwayIsEmpty
<1>3. EveryPointOnce' /\ SavedPointsOnce'
  BY <1>0, <1>1 DEF IInv, EveryPointOnce, SavedPointsOnce, Idle
<1>4. MarksAreComplete'
  BY <1>0, <1>1 DEF IInv, MarksAreComplete
<1> QED BY <1>2, <1>3, <1>4 DEF IInv

\* Action by action.
LEMMA NextStep == IInv /\ Next => IInv'
<1> SUFFICES ASSUME IInv, Next PROVE IInv'
  OBVIOUS
<1>1. CASE PeriodicFlush \/ DeferredFlush
  BY <1>1, FlushStep DEF PeriodicFlush, DeferredFlush
<1>2. CASE Land
  BY <1>2, LandStep
<1>3. CASE \E p \in Pilots, h \in Holds :
              \/ \E kept \in SUBSET record[p].cargo : Join(p, h, kept)
              \/ \E kept \in SUBSET cargo[p] : SwitchKit(p, h, kept)
  BY <1>3, JoinStep, SwitchKitStep
<1>4. CASE Departure
  <2>1. CASE \E p \in Pilots : Leave(p)
    BY <2>1, LeaveStep
  <2>2. CASE \E p \in Pilots : \E spill \in [Laden -> {k \in Pods : Free(k)}] : LeaveLast(p, spill)
    <3>1. PICK p \in Pilots, spill \in [Laden -> {k \in Pods : Free(k)}] : LeaveLast(p, spill)
      BY <2>2
    <3>2. spill \in [Laden -> Pods] /\ \A b \in Laden : Free(spill[b])
      OBVIOUS
    <3> QED BY <3>1, <3>2, LeaveLastStep
  <2> QED BY <1>4, <2>1, <2>2 DEF Departure
<1>5. CASE \E b \in Bots : BotArrives(b) \/ \E k \in Pods : BotLeaves(b, k)
  BY <1>5, BotArrivesStep, BotLeavesStep
<1>6. CASE Finding
  <2>1. CASE \E S \in SUBSET Unused, k \in Pods : FindCache(k, S)
    BY <2>1, FindCacheStep
  <2>2. CASE \E S \in SUBSET Unused : \E c \in Crew, k \in Pods, over \in SUBSET S : Gain(c, S \ over, over, k)
    <3>0. PICK S \in SUBSET Unused :
             \E c \in Crew, k \in Pods, over \in SUBSET S : Gain(c, S \ over, over, k)
      BY <2>2
    <3>1. PICK c \in Crew, k \in Pods, over \in SUBSET S : Gain(c, S \ over, over, k)
      BY <3>0
    <3>2. S \ over \in SUBSET Unused /\ over \in SUBSET Unused
      OBVIOUS
    <3> QED BY <3>1, <3>2, GainStep
  <2> QED BY <1>6, <2>1, <2>2 DEF Finding
<1>7. CASE \E c \in Crew, k \in Keys : \E S \in (SUBSET pods[k]) \ {{}} : Collect(c, k, S)
  BY <1>7, CollectStep
<1>8. CASE \E k \in Keys : Expire(k)
  BY <1>8, ExpireStep
<1>9. CASE Knock
  <2>a. PICK c \in Crew : \E S \in SUBSET cargo[c] : \E destroyed \in BOOLEAN :
               \E spill \in [S -> {k \in Pods : Free(k)}] : Hit(c, spill, destroyed)
    BY <1>9 DEF Knock
  <2>b. PICK S \in SUBSET cargo[c] : \E destroyed \in BOOLEAN :
               \E spill \in [S -> {k \in Pods : Free(k)}] : Hit(c, spill, destroyed)
    BY <2>a
  <2>1. PICK destroyed \in BOOLEAN, spill \in [S -> {k \in Pods : Free(k)}] : Hit(c, spill, destroyed)
    BY <2>b
  <2>2. spill \in [S -> Pods]
    OBVIOUS
  <2> QED BY <2>1, <2>2, HitStep
<1>10. CASE \E p \in Pilots : Succumb(p)
  BY <1>10, SuccumbStep
<1>11. CASE \E c \in Crew : \E x \in cargo[c] : Deposit(c, x)
  BY <1>11, DepositStep
<1>12. CASE \E p \in Pilots : \E x \in Unused : Award(p, x)
  BY <1>12, AwardStep
<1>13. CASE \E p \in Pilots : \E S \in (SUBSET score[p]) \ {{}} :
               Buy(p, S) \/ \E l \in Lots : Build(p, l, S)
  BY <1>13, BuyStep, BuildStep
<1>14. CASE \E lapsed \in SUBSET Keys : Crash(lapsed)
  BY <1>14, CrashStep
<1> QED
  BY <1>1, <1>2, <1>3, <1>4, <1>5, <1>6, <1>7, <1>8, <1>9, <1>10, <1>11, <1>12, <1>13, <1>14 DEF Next

\* The invariant holds in every state, whatever pilots, bots, pods and points there are.
THEOREM LedgerIsInductive == Spec => []IInv
<1>1. Init => IInv
  BY InitStep
<1>2. IInv /\ [Next]_vars => IInv'
  BY NextStep, StutterStep
<1> QED BY <1>1, <1>2, PTL DEF Spec

\* Nothing ever doubles or mislays a point in memory: pick-ups, spills, deposits,
\* purchases, hits, departures, kit changes (EveryPointOnce).
THEOREM PointsAreHeldOnce == Spec => []EveryPointOnce
<1>1. IInv => EveryPointOnce
  BY DEF IInv
<1> QED BY <1>1, LedgerIsInductive, PTL

\* Nor does a crash at any time: what is in the database, or on its way there, has
\* each point once (SavedPointsOnce).
THEOREM SavedPointsAreHeldOnce == Spec => []SavedPointsOnce
<1>1. IInv => SavedPointsOnce
  BY DEF IInv
<1> QED BY <1>1, LedgerIsInductive, PTL

\* Only flushes and the last departure hand a batch to the writer.
LEMMA BatchesOnly ==
  ASSUME Next
  PROVE  \/ PeriodicFlush \/ DeferredFlush
         \/ \E p \in Pilots : \E spill \in [Laden -> {k \in Pods : Free(k)}] : LeaveLast(p, spill)
         \/ inflight' \in {inflight, NoImage}
<1>1. \A p, h, kept : Join(p, h, kept) \/ SwitchKit(p, h, kept) => inflight' = inflight
  BY DEF Join, SwitchKit, writer
<1>2. \A c, k, S : Collect(c, k, S) => inflight' = inflight
  BY DEF Collect, writer
<1>3. /\ \A b : BotArrives(b) => inflight' = inflight
      /\ \A b, k : BotLeaves(b, k) => inflight' = inflight
  BY DEF BotArrives, BotLeaves, writer
<1>4. /\ \A k, S : FindCache(k, S) => inflight' = inflight
      /\ \A c, S, over, k : Gain(c, S, over, k) => inflight' = inflight
      /\ \A k : Expire(k) => inflight' = inflight
  BY DEF FindCache, Gain, Expire, writer
<1>5. /\ \A c, spill, destroyed : Hit(c, spill, destroyed) => inflight' = inflight
      /\ \A c, x : Deposit(c, x) => inflight' = inflight
  BY DEF Hit, Deposit, writer
<1>6. /\ \A p : Leave(p) \/ Succumb(p) => inflight' = inflight
      /\ \A p, x : Award(p, x) => inflight' = inflight
      /\ \A p, S : Buy(p, S) => inflight' = inflight
      /\ \A p, l, S : Build(p, l, S) => inflight' = inflight
  BY DEF Leave, Succumb, Award, Buy, Build, writer
<1>7. Land => inflight' = NoImage
  BY DEF Land
<1>8. \A lapsed : Crash(lapsed) => inflight' = NoImage
  BY DEF Crash
<1>9. CASE Departure
  BY <1>9, <1>6 DEF Departure
<1>10. CASE Finding
  BY <1>10, <1>4 DEF Finding
<1>11. CASE Knock
  BY <1>11, <1>5 DEF Knock
<1>12. CASE \E p \in Pilots, h \in Holds :
               \/ \E kept \in SUBSET record[p].cargo : Join(p, h, kept)
               \/ \E kept \in SUBSET cargo[p] : SwitchKit(p, h, kept)
  BY <1>12, <1>1
<1>13. CASE \E b \in Bots : BotArrives(b) \/ \E k \in Pods : BotLeaves(b, k)
  BY <1>13, <1>3
<1>14. CASE \E c \in Crew, k \in Keys : \E S \in (SUBSET pods[k]) \ {{}} : Collect(c, k, S)
  BY <1>14, <1>2
<1>15. CASE \E p \in Pilots : Succumb(p) \/ (\E x \in Unused : Award(p, x))
                            \/ \E S \in (SUBSET score[p]) \ {{}} : Buy(p, S) \/ \E l \in Lots : Build(p, l, S)
  BY <1>15, <1>6
<1>16. CASE \/ \E k \in Keys : Expire(k)
            \/ \E c \in Crew : \E x \in cargo[c] : Deposit(c, x)
  BY <1>16, <1>4, <1>5
<1> QED BY <1>7, <1>8, <1>9, <1>10, <1>11, <1>12, <1>13, <1>14, <1>15, <1>16 DEF Next

\* A batch, although it leaves out the parts that are not marked as changed, makes the
\* database the world of the instant it was taken (BatchIsTheWorld).
THEOREM BatchesAreTheWorld == Spec => BatchIsTheWorld
<1>1. IInv /\ Next /\ Idle /\ inflight' # NoImage => inflight' = Now'
  <2> SUFFICES ASSUME IInv, Next, Idle, inflight' # NoImage PROVE inflight' = Now'
    OBVIOUS
  <2>1. CASE PeriodicFlush \/ DeferredFlush
    BY <2>1, FlushStep DEF PeriodicFlush, DeferredFlush
  <2>2. CASE \E p \in Pilots : \E spill \in [Laden -> {k \in Pods : Free(k)}] : LeaveLast(p, spill)
    <3>1. PICK p \in Pilots, spill \in [Laden -> {k \in Pods : Free(k)}] : LeaveLast(p, spill)
      BY <2>2
    <3>2. spill \in [Laden -> Pods] /\ \A b \in Laden : Free(spill[b])
      OBVIOUS
    <3> QED BY <3>1, <3>2, LeaveLastStep
  <2>3. CASE inflight' \in {inflight, NoImage}
    BY <2>3 DEF Idle
  <2> QED BY <2>1, <2>2, <2>3, BatchesOnly
<1>2. [IInv /\ IInv' /\ [Next]_vars]_vars => [Idle /\ inflight' # NoImage => inflight' = Now']_vars
  BY <1>1
<1> QED BY <1>2, LedgerIsInductive, PTL DEF Spec, BatchIsTheWorld

-----------------------------------------------------------------------------
\* A hive, and a campaign, as the inductive invariant knows them.
HiveFine(h) == h \in Hives /\ ValidHive(h) /\ HiveInOrder(h)
CampaignFine(c) == c \in Campaigns /\ ValidCampaign(c) /\ \A s \in Sites : HiveInOrder(c.hive[s])

-----------------------------------------------------------------------------
(* One hive.                                                               *)

LEMMA PricesAre ==
  /\ QueenHealth \in Nat \ {0} /\ SacHealth \in Nat \ {0} /\ SacWindow \in Nat \ {0}
  /\ ScannerValue \in Nat \ {0} /\ RestoreValue \in Nat \ {0} /\ ShipmentValue \in Nat \ {0}
  /\ RockValue \in Nat \ {0} /\ MaxLate \in Nat
BY FrontierAssumption

LEMMA FreshHive ==
  /\ HiveFine(NewHive) /\ NewHive.known /\ NewHive.deadline # 0 /\ ~NewHive.cleared
  /\ ~NewHive.commissioned /\ ~NewHive.completed
  /\ HiveFine(NoHive) /\ ~NoHive.known /\ ~NoHive.cleared /\ ~NoHive.commissioned
<1>1. /\ [i \in Sacs |-> SacHealth] \in [Sacs -> 0 .. SacHealth]
      /\ [i \in Sacs |-> 0] \in [Sacs -> 0 .. SacWindow + MaxLate]
      /\ QueenHealth \in 0 .. QueenHealth /\ 0 \in 0 .. RestoreValue
      /\ NoDeadline \in NoDeadline .. SacWindow
  BY PricesAre DEF NoDeadline
<1>2. NewHive \in Hives
  BY <1>1 DEF NewHive, Hives
<1>3. NoHive \in Hives
  BY <1>2 DEF NoHive, Hives
<1> QED BY <1>2, <1>3, PricesAre, FrontierAssumption
    DEF HiveFine, ValidHive, HiveInOrder, NewHive, NoHive, NoDeadline

LEMMA RefilledHive ==
  ASSUME NEW h, HiveFine(h)
  PROVE  /\ HiveFine(Refilled(h))
         /\ SacsInTime(Refilled(h), 0)
         /\ Refilled(h).known = h.known /\ Refilled(h).cleared = h.cleared
         /\ Refilled(h).commissioned = h.commissioned
         /\ Refilled(h).completed = h.completed
         /\ h.deadline # 0 => Refilled(h) = h
<1>1. CASE h.deadline # 0
  <2>1. Refilled(h) = h
    BY <1>1 DEF Refilled
  <2>2. SacsInTime(h, 0)
    <3>1. ASSUME ~h.completed, NEW i \in Sacs, h.sacs[i] = 0 PROVE h.fell[i] < SacWindow
      <4>1. h.deadline \in NoDeadline .. SacWindow /\ h.deadline # NoDeadline
        BY <3>1 DEF HiveFine, Hives, ValidHive
      <4>2. h.deadline > 0
        BY <1>1, <4>1, PricesAre DEF NoDeadline
      <4>3. h.fell[i] + h.deadline <= SacWindow
        BY <3>1, <4>2 DEF HiveFine, HiveInOrder
      <4>4. h.fell[i] \in Nat
        BY PricesAre DEF HiveFine, Hives
      <4> QED BY <4>1, <4>2, <4>3, <4>4, PricesAre DEF NoDeadline
    <3> QED BY <3>1, PricesAre DEF SacsInTime
  <2> QED BY <1>1, <2>1, <2>2
<1>2. CASE h.deadline = 0
  <2>1. /\ Refilled(h) \in Hives
        /\ Refilled(h).sacs = [i \in Sacs |-> SacHealth] /\ Refilled(h).deadline = NoDeadline
        /\ Refilled(h).known = h.known /\ Refilled(h).cleared = h.cleared
        /\ Refilled(h).queen = h.queen /\ Refilled(h).restored = h.restored
        /\ Refilled(h).commissioned = h.commissioned
        /\ Refilled(h).completed = h.completed
    <3>1. /\ [i \in Sacs |-> SacHealth] \in [Sacs -> 0 .. SacHealth]
          /\ [i \in Sacs |-> 0] \in [Sacs -> 0 .. SacWindow + MaxLate]
          /\ NoDeadline \in NoDeadline .. SacWindow
      BY PricesAre DEF NoDeadline
    <3> QED BY <1>2, <3>1 DEF Refilled, HiveFine, Hives
  <2>2. ~h.completed
    BY <1>2 DEF HiveFine, ValidHive, NoDeadline
  <2>3. SacsInTime(Refilled(h), 0)
    BY <2>1, PricesAre DEF SacsInTime
  <2> QED BY <1>2, <2>1, <2>2, <2>3, PricesAre, FrontierAssumption
      DEF HiveFine, ValidHive, HiveInOrder, NoDeadline
<1> QED BY <1>1, <1>2

\* What HitSac, HitQueen and Deliver make of a hive.
Struck(h, i) == [h.sacs EXCEPT ![i] = @ - 1]
AllDown(h, i) == \A j \in Sacs : Struck(h, i)[j] = 0
AfterSac(h, i) ==
    [h EXCEPT !.sacs = Struck(h, i), !.completed = AllDown(h, i),
              !.deadline = IF AllDown(h, i) THEN NoDeadline
                           ELSE IF Struck(h, i)[i] = 0 /\ @ = NoDeadline THEN SacWindow ELSE @,
              !.fell[i] = 0]
AfterQueen(h) == [h EXCEPT !.queen = @ - 1, !.cleared = (h.queen = 1)]
Fed(h, taken) ==
    [h EXCEPT !.restored = @ + taken, !.commissioned = (h.restored + taken = RestoreValue)]

\* The sac that falls first sets the deadline, which no later one moves.
LEMMA SacHit ==
  ASSUME NEW h, HiveFine(h), h.known, NEW i \in Sacs, h.sacs[i] > 0, ~h.completed,
         NEW ticks \in Nat, SacsInTime(h, ticks)
  PROVE  LET g == AfterSac(h, i) IN
         /\ HiveFine(g)
         /\ g.known = h.known /\ g.cleared = h.cleared /\ g.commissioned = h.commissioned
         /\ SacsInTime(g, ticks)
         /\ g.completed => \A j \in Sacs : g.fell[j] < SacWindow + ticks
<1> DEFINE g == AfterSac(h, i)
           sacs == Struck(h, i)
<1>1. /\ h.sacs \in [Sacs -> 0 .. SacHealth] /\ h.fell \in [Sacs -> 0 .. SacWindow + MaxLate]
      /\ h.deadline \in NoDeadline .. SacWindow /\ h.deadline \in Int
      /\ \A j \in Sacs : h.sacs[j] \in 0 .. SacHealth /\ h.fell[j] \in 0 .. SacWindow + MaxLate
  BY PricesAre DEF HiveFine, Hives, NoDeadline
<1>2. sacs \in [Sacs -> 0 .. SacHealth] /\ sacs[i] = h.sacs[i] - 1
      /\ \A j \in Sacs : j # i => sacs[j] = h.sacs[j]
  BY <1>1, PricesAre DEF Struck
<1>3. PICK all \in BOOLEAN : all = AllDown(h, i)
  BY AllDown(h, i) \in BOOLEAN DEF AllDown
<1> DEFINE d == IF all THEN NoDeadline
                ELSE IF sacs[i] = 0 /\ h.deadline = NoDeadline THEN SacWindow ELSE h.deadline
           f == [h.fell EXCEPT ![i] = 0]
<1>11. g = [h EXCEPT !.sacs = sacs, !.completed = all, !.deadline = d, !.fell = f]
  BY <1>3 DEF AfterSac, HiveFine, Hives
<1>12. all <=> \A j \in Sacs : sacs[j] = 0
  BY <1>3 DEF AllDown
<1> HIDE DEF g, sacs
<1>4. /\ g.sacs = sacs /\ g.completed = all /\ g.deadline = d /\ g.fell = f
      /\ g.known = h.known /\ g.cleared = h.cleared /\ g.commissioned = h.commissioned
      /\ g.queen = h.queen /\ g.restored = h.restored
  BY <1>11 DEF HiveFine, Hives
<1>5. d \in NoDeadline .. SacWindow /\ f \in [Sacs -> 0 .. SacWindow + MaxLate]
      /\ f[i] = 0 /\ \A j \in Sacs : j # i => f[j] = h.fell[j]
  BY <1>1, PricesAre DEF NoDeadline
<1> HIDE DEF d, f
<1>6. g \in Hives
  BY <1>2, <1>5, <1>11 DEF HiveFine, Hives
<1>7. ValidHive(g)
  <2>1. d # NoDeadline <=> ~all /\ \E j \in Sacs : sacs[j] = 0
    <3>1. h.deadline # NoDeadline <=> \E j \in Sacs : h.sacs[j] = 0
      BY DEF HiveFine, ValidHive
    <3> QED BY <1>1, <1>2, <1>12, <3>1, PricesAre DEF d, NoDeadline
  <2> QED BY <1>4, <1>12, <2>1 DEF HiveFine, ValidHive
<1>8. \A j \in Sacs : j # i /\ sacs[j] = 0 =>
        /\ h.deadline # NoDeadline
        /\ h.deadline > 0 => h.fell[j] + h.deadline <= SacWindow
        /\ h.fell[j] < SacWindow + ticks
  BY <1>1, <1>2, PricesAre DEF HiveFine, HiveInOrder, ValidHive, SacsInTime
<1>9. HiveInOrder(g)
  <2>1. ASSUME ~all, d > 0, NEW j \in Sacs, sacs[j] = 0 PROVE f[j] + d <= SacWindow
    <3>1. CASE j = i
      BY <1>5, <3>1, PricesAre DEF NoDeadline
    <3>2. CASE j # i
      BY <1>1, <1>5, <1>8, <2>1, <3>2 DEF d, NoDeadline
    <3> QED BY <3>1, <3>2
  <2> QED BY <1>4, <2>1 DEF HiveInOrder, HiveFine
<1>10. \A j \in Sacs : sacs[j] = 0 => g.fell[j] < SacWindow + ticks
  BY <1>1, <1>4, <1>5, <1>8, PricesAre
<1>13. SacsInTime(g, ticks) /\ (g.completed => \A j \in Sacs : g.fell[j] < SacWindow + ticks)
  BY <1>4, <1>10, <1>12 DEF SacsInTime
<1> QED BY <1>4, <1>6, <1>7, <1>9, <1>13 DEF HiveFine, g

LEMMA QueenHit ==
  ASSUME NEW h, HiveFine(h), h.known, ~h.cleared
  PROVE  LET g == AfterQueen(h) IN
         /\ HiveFine(g) /\ g.known /\ (g.cleared <=> h.queen = 1)
         /\ g.commissioned = h.commissioned /\ g.completed = h.completed
         /\ \A ticks : SacsInTime(h, ticks) => SacsInTime(g, ticks)
<1> DEFINE g == AfterQueen(h)
<1>1. h.queen \in 0 .. QueenHealth /\ h.queen # 0
  BY DEF HiveFine, Hives, ValidHive
<1>2. PICK dies \in BOOLEAN : dies = (h.queen = 1)
  OBVIOUS
<1>3. h.queen - 1 \in 0 .. QueenHealth /\ (dies <=> h.queen - 1 = 0)
  <2>1. h.queen - 1 \in 0 .. QueenHealth /\ (h.queen = 1 <=> h.queen - 1 = 0)
    BY <1>1, PricesAre
  <2> QED BY <1>2, <2>1, Zenon
<1>4. g = [h EXCEPT !.queen = @ - 1, !.cleared = dies]
  BY <1>2 DEF AfterQueen
<1> HIDE DEF g
<1>5. /\ g \in Hives /\ g.queen = h.queen - 1 /\ g.cleared = dies
      /\ g.known = h.known /\ g.sacs = h.sacs /\ g.deadline = h.deadline
      /\ g.completed = h.completed /\ g.restored = h.restored
      /\ g.commissioned = h.commissioned /\ g.fell = h.fell
  BY <1>3, <1>4 DEF HiveFine, Hives
<1>6. h.restored = 0 /\ ~h.commissioned
  BY PricesAre DEF HiveFine, Hives, ValidHive
<1>7. ValidHive(g)
  BY <1>3, <1>5, <1>6, PricesAre DEF HiveFine, ValidHive
<1>8. HiveFine(g)
  BY <1>5, <1>7 DEF HiveFine, HiveInOrder
<1>9. \A ticks : SacsInTime(h, ticks) => SacsInTime(g, ticks)
  BY <1>5 DEF SacsInTime
<1> QED BY <1>2, <1>5, <1>8, <1>9 DEF g

\* A ruin takes no more than it needs, and burns once it has it all.
LEMMA RuinFed ==
  ASSUME NEW h, HiveFine(h), h.known, h.cleared, ~h.commissioned,
         NEW value \in Nat \ {0}
  PROVE  LET taken == Smaller(value, RestoreValue - h.restored)
             g == Fed(h, taken)
         IN  /\ HiveFine(g) /\ g.known /\ g.cleared
             /\ g.commissioned <=> h.restored + taken = RestoreValue
             /\ g.completed = h.completed
             /\ \A ticks : SacsInTime(h, ticks) => SacsInTime(g, ticks)
<1> DEFINE taken == Smaller(value, RestoreValue - h.restored)
           g == Fed(h, taken)
           restored == h.restored + taken
<1>1. h.restored \in 0 .. RestoreValue /\ h.restored # RestoreValue
  BY DEF HiveFine, Hives, ValidHive
<1>2. restored \in 0 .. RestoreValue /\ restored > 0
  BY <1>1, PricesAre DEF Smaller
<1>3. PICK burns \in BOOLEAN : burns = (restored = RestoreValue)
  OBVIOUS
<1>4. g = [h EXCEPT !.restored = restored, !.commissioned = burns]
  BY <1>3 DEF Fed
<1> HIDE DEF g, restored, taken
<1>5. /\ g \in Hives /\ g.restored = restored /\ g.commissioned = burns
      /\ g.queen = h.queen /\ g.cleared = h.cleared
      /\ g.known = h.known /\ g.sacs = h.sacs /\ g.deadline = h.deadline
      /\ g.completed = h.completed /\ g.fell = h.fell
  BY <1>2, <1>4 DEF HiveFine, Hives
<1>6. ValidHive(g)
  <2>1. restored > 0 /\ restored <= RestoreValue /\ h.cleared
    BY <1>2, PricesAre
  <2>2. g.commissioned <=> g.restored = RestoreValue
    BY <1>3, <1>5, Zenon
  <2> QED BY <1>5, <2>1, <2>2 DEF HiveFine, ValidHive
<1>7. HiveFine(g)
  BY <1>5, <1>6 DEF HiveFine, HiveInOrder
<1>8. \A ticks : SacsInTime(h, ticks) => SacsInTime(g, ticks)
  BY <1>5 DEF SacsInTime
<1> QED BY <1>3, <1>5, <1>7, <1>8 DEF g, restored, taken

LEMMA AgedHive ==
  ASSUME NEW h, HiveFine(h)
  PROVE  /\ HiveFine(Aged(h))
         /\ Aged(h).known = h.known /\ Aged(h).cleared = h.cleared
         /\ Aged(h).commissioned = h.commissioned /\ Aged(h).completed = h.completed
         /\ \A ticks \in Nat : SacsInTime(h, ticks) => SacsInTime(Aged(h), ticks + 1)
<1>1. /\ h.sacs \in [Sacs -> 0 .. SacHealth] /\ h.fell \in [Sacs -> 0 .. SacWindow + MaxLate]
      /\ h.deadline \in NoDeadline .. SacWindow /\ h.deadline \in Int
      /\ \A j \in Sacs : h.sacs[j] \in 0 .. SacHealth /\ h.fell[j] \in 0 .. SacWindow + MaxLate
  BY PricesAre DEF HiveFine, Hives, NoDeadline
<1>2. DEFINE d == IF h.deadline > 0 THEN h.deadline - 1 ELSE h.deadline
             f == [i \in Sacs |-> IF h.sacs[i] > 0 \/ h.completed THEN 0
                                  ELSE Smaller(h.fell[i] + 1, SacWindow + MaxLate)]
<1>3. d \in NoDeadline .. SacWindow /\ (d # NoDeadline <=> h.deadline # NoDeadline)
  BY <1>1, PricesAre DEF NoDeadline
<1>4. f \in [Sacs -> 0 .. SacWindow + MaxLate]
  BY <1>1, PricesAre DEF Smaller
<1>5. Aged(h) = [h EXCEPT !.deadline = d, !.fell = f]
  BY DEF Aged, HiveFine, Hives
<1>6. /\ Aged(h).deadline = d /\ Aged(h).fell = f
      /\ Aged(h).known = h.known /\ Aged(h).cleared = h.cleared
      /\ Aged(h).commissioned = h.commissioned /\ Aged(h).completed = h.completed
      /\ Aged(h).sacs = h.sacs /\ Aged(h).queen = h.queen /\ Aged(h).restored = h.restored
  BY <1>5 DEF HiveFine, Hives
<1>7. Aged(h) \in Hives
  <2> HIDE DEF d, f
  <2> QED BY <1>3, <1>4, <1>5 DEF HiveFine, Hives
<1>8. ValidHive(Aged(h))
  BY <1>3, <1>6 DEF HiveFine, ValidHive
<1>10. \A i \in Sacs : h.sacs[i] = 0 /\ ~h.completed => f[i] <= h.fell[i] + 1 /\ f[i] \in Nat
  BY <1>1, PricesAre DEF Smaller
<1>9. HiveInOrder(Aged(h))
  <2>1. ASSUME ~h.completed, d > 0, NEW i \in Sacs, h.sacs[i] = 0
        PROVE  f[i] + d <= SacWindow
    <3>1. h.deadline > 0 /\ d = h.deadline - 1
      BY <1>1, <2>1, PricesAre DEF NoDeadline
    <3>2. h.fell[i] + h.deadline <= SacWindow
      BY <2>1, <3>1 DEF HiveFine, HiveInOrder
    <3> QED BY <1>1, <1>10, <2>1, <3>1, <3>2, PricesAre DEF NoDeadline
  <2> HIDE DEF d, f
  <2> QED BY <1>6, <2>1 DEF HiveInOrder, HiveFine
<1>11. ASSUME NEW ticks \in Nat, SacsInTime(h, ticks)
       PROVE  SacsInTime(Aged(h), ticks + 1)
  <2>1. ASSUME ~h.completed, NEW i \in Sacs, h.sacs[i] = 0
        PROVE  f[i] < SacWindow + (ticks + 1)
    BY <1>1, <1>10, <1>11, <2>1, PricesAre DEF SacsInTime
  <2> HIDE DEF f
  <2> QED BY <1>6, <2>1 DEF SacsInTime
<1> QED BY <1>6, <1>7, <1>8, <1>9, <1>11 DEF HiveFine

-----------------------------------------------------------------------------
(* The records in memory and on the disk.                                  *)

LEMMA RecordKeysDiffer ==
  /\ \A s, t \in Sites : HiveKey(s) = HiveKey(t) => s = t
  /\ \A p, q \in Places : SupplyKey(p) = SupplyKey(q) => p = q
  /\ \A s \in Sites : HiveKey(s) \in RecordKeys
  /\ \A p \in Places : SupplyKey(p) \in RecordKeys
  /\ ProjectKey \in RecordKeys
BY DEF HiveKey, SupplyKey, ProjectKey, RecordKeys, Places

\* What the inductive invariant says besides the two campaigns.
RestFine ==
    /\ field \in Fields /\ disk \in [campaign : Campaigns, field : Fields]
    /\ changed \subseteq RecordKeys
    /\ active \subseteq Sites /\ late \in 0 .. MaxLate
    /\ cleared = {s \in Sites : campaign.hive[s].cleared}
    /\ lit = {s \in Sites : campaign.hive[s].commissioned}
    /\ DiskIsBehind
    /\ ActiveAreCurrent

\* Now, and after a step.
LEMMA FrontierParts ==
  /\ FrontierInv <=> CampaignFine(campaign) /\ CampaignFine(disk.campaign) /\ RestFine
  /\ FrontierInv' <=> CampaignFine(campaign)' /\ CampaignFine(disk.campaign)' /\ RestFine'
BY DEF FrontierInv, CampaignFine, RestFine, FrontierTypeOK, SavedProgressLoads

LEMMA TheHives ==
  ASSUME NEW c, CampaignFine(c), NEW s \in Sites
  PROVE  /\ HiveFine(c.hive[s])
         /\ c.hive \in [Sites -> Hives]
         /\ ~c.hive[s].known => /\ ~c.hive[s].cleared /\ ~c.hive[s].commissioned
                                /\ ~c.hive[s].completed
<1>1. c.hive \in [Sites -> Hives] /\ HiveFine(c.hive[s])
  BY DEF CampaignFine, Campaigns, ValidCampaign, HiveFine
<1> QED BY <1>1, PricesAre DEF HiveFine, HiveInOrder, ValidHive

LEMMA TheCampaign ==
  ASSUME NEW S \in [Places -> Ledgers], NEW d \in 0 .. ScannerValue, NEW b \in BOOLEAN,
         NEW X \in [Sites -> Hives],
         NEW c, c = [supply |-> S, delivered |-> d, scanned |-> b, hive |-> X],
         b <=> d = ScannerValue,
         \A s \in Sites : HiveFine(X[s]),
         \A s \in Expanded : X[s].known => b
  PROVE  CampaignFine(c)
<1>1. c \in Campaigns
  BY DEF Campaigns
<1>2. c.delivered = d /\ c.scanned = b /\ c.hive = X
  OBVIOUS
<1> QED BY <1>1, <1>2, PricesAre DEF CampaignFine, ValidCampaign, HiveFine

\* A step of the game: whatever it changes in the campaign has its key marked.
LEMMA ProgressInv ==
  ASSUME FrontierInv,
         NEW S \in [Places -> Ledgers], NEW d \in 0 .. ScannerValue, NEW b \in BOOLEAN,
         NEW X \in [Sites -> Hives],
         campaign' = [supply |-> S, delivered |-> d, scanned |-> b, hive |-> X],
         b <=> d = ScannerValue, campaign.scanned => b,
         \A s \in Sites : HiveFine(X[s]),
         \A s \in Expanded : X[s].known => b,
         \A s \in Sites : campaign.hive[s].completed => X[s].completed,
         changed \subseteq changed', changed' \subseteq RecordKeys,
         \A p \in Places : SupplyKey(p) \notin changed' => S[p] = campaign.supply[p],
         ProjectKey \notin changed' => d = campaign.delivered /\ b = campaign.scanned,
         \A s \in Sites : HiveKey(s) \notin changed' => X[s] = campaign.hive[s],
         cleared' = {s \in Sites : X[s].cleared}, lit' = {s \in Sites : X[s].commissioned},
         active' \subseteq Sites, late' \in 0 .. MaxLate,
         \A s \in active' : X[s].known /\ SacsInTime(X[s], late'),
         field' \in Fields, disk' = disk
  PROVE  FrontierInv'
<1>1. CampaignFine(campaign') /\ CampaignFine(disk.campaign')
  BY TheCampaign, FrontierParts
<1>2. /\ campaign'.supply = S /\ campaign'.delivered = d /\ campaign'.scanned = b
      /\ campaign'.hive = X
  OBVIOUS
<1>3. DiskIsBehind'
  BY <1>2 DEF FrontierInv, DiskIsBehind
<1>4. ActiveAreCurrent'
  BY <1>2 DEF ActiveAreCurrent
<1>5. RestFine'
  BY <1>2, <1>3, <1>4 DEF RestFine, FrontierInv, FrontierTypeOK
<1> QED BY <1>1, <1>5, FrontierParts

LEMMA CampaignIs ==
  ASSUME FrontierInv
  PROVE  /\ campaign = [supply |-> campaign.supply, delivered |-> campaign.delivered,
                        scanned |-> campaign.scanned, hive |-> campaign.hive]
         /\ campaign.supply \in [Places -> Ledgers]
         /\ campaign.delivered \in 0 .. ScannerValue
         /\ campaign.scanned \in BOOLEAN
         /\ campaign.hive \in [Sites -> Hives]
         /\ campaign.scanned <=> campaign.delivered = ScannerValue
         /\ \A s \in Expanded : campaign.hive[s].known => campaign.scanned
         /\ \A s \in Sites : HiveFine(campaign.hive[s])
         /\ \A s \in active : s \in Sites /\ campaign.hive[s].known
                              /\ SacsInTime(campaign.hive[s], late)
BY FrontierParts, TheHives DEF CampaignFine, Campaigns, ValidCampaign, FrontierInv, ActiveAreCurrent,
                       FrontierTypeOK

LEMMA AdvanceInv ==
  ASSUME FrontierInv, NEW near \in SUBSET Sites, Advance(near)
  PROVE  /\ FrontierInv'
         /\ \A s \in Sites : campaign'.hive[s].completed => campaign.hive[s].completed
<1> DEFINE met == [s \in Sites |-> IF s \in near /\ ~campaign.hive[s].known THEN NewHive
                                   ELSE campaign.hive[s]]
           X == [s \in Sites |-> IF s \in near THEN Refilled(met[s]) ELSE met[s]]
           marked == {HiveKey(s) : s \in {t \in near :
                        ~campaign.hive[t].known \/ ~met[t].cleared \/ met[t].deadline = 0}}
<1>1. \A s \in Sites :
         /\ HiveFine(met[s])
         /\ met[s].cleared = campaign.hive[s].cleared
         /\ met[s].commissioned = campaign.hive[s].commissioned
         /\ met[s].completed = campaign.hive[s].completed
         /\ s \in near => met[s].known
         /\ s \notin near \/ campaign.hive[s].known => met[s] = campaign.hive[s]
  <2> SUFFICES ASSUME NEW s \in Sites
               PROVE  /\ HiveFine(met[s])
                      /\ met[s].cleared = campaign.hive[s].cleared
                      /\ met[s].commissioned = campaign.hive[s].commissioned
                      /\ met[s].completed = campaign.hive[s].completed
                      /\ s \in near => met[s].known
                      /\ s \notin near \/ campaign.hive[s].known => met[s] = campaign.hive[s]
    OBVIOUS
  <2>1. /\ HiveFine(campaign.hive[s])
        /\ ~campaign.hive[s].known => /\ ~campaign.hive[s].cleared
                                      /\ ~campaign.hive[s].commissioned
                                      /\ ~campaign.hive[s].completed
    BY FrontierParts, TheHives
  <2>2. CASE s \in near /\ ~campaign.hive[s].known
    <3>1. met[s] = NewHive
      BY <2>2
    <3>2. /\ NewHive.cleared = FALSE /\ NewHive.commissioned = FALSE /\ NewHive.completed = FALSE
      BY DEF NewHive
    <3>3. /\ campaign.hive[s].cleared = FALSE /\ campaign.hive[s].commissioned = FALSE
          /\ campaign.hive[s].completed = FALSE
      BY <2>1, <2>2 DEF HiveFine, Hives
    <3> QED BY <2>2, <3>1, <3>2, <3>3, FreshHive
  <2>3. CASE ~(s \in near /\ ~campaign.hive[s].known)
    BY <2>1, <2>3
  <2> QED BY <2>2, <2>3
<1> HIDE DEF met
<1>2. \A s \in Sites :
         /\ HiveFine(X[s])
         /\ X[s].cleared = campaign.hive[s].cleared
         /\ X[s].commissioned = campaign.hive[s].commissioned
         /\ X[s].completed = campaign.hive[s].completed
         /\ s \in near => X[s].known /\ SacsInTime(X[s], 0)
         /\ s \notin near => X[s] = campaign.hive[s]
         /\ campaign.hive[s].known /\ met[s].deadline # 0 => X[s] = campaign.hive[s]
  BY <1>1, RefilledHive
<1>3. X \in [Sites -> Hives]
  BY <1>2 DEF HiveFine
<1>4. /\ near \cap Expanded # {} => campaign.scanned
      /\ campaign' = [campaign EXCEPT !.hive = X]
      /\ changed' = changed \cup marked
      /\ active' = near /\ late' = 0
      /\ UNCHANGED <<field, cleared, lit, disk>>
  BY DEF Advance, met
<1> HIDE DEF X
<1>5. campaign' = [supply |-> campaign.supply, delivered |-> campaign.delivered,
                   scanned |-> campaign.scanned, hive |-> X]
  BY <1>3, <1>4, CampaignIs
<1>6. \A s \in Expanded : X[s].known => campaign.scanned
  BY <1>2, <1>4, CampaignIs, FrontierAssumption
<1>7. changed' \subseteq RecordKeys /\ changed \subseteq changed'
  BY <1>4, RecordKeysDiffer DEF FrontierInv, FrontierTypeOK
<1>8. \A s \in Sites : HiveKey(s) \notin changed' => X[s] = campaign.hive[s]
  BY <1>2, <1>4
<1>9. cleared' = {s \in Sites : X[s].cleared} /\ lit' = {s \in Sites : X[s].commissioned}
  BY <1>2, <1>4 DEF FrontierInv, SavedProgressLoads
<1>10. /\ \A s \in Sites : HiveFine(X[s]) /\ (campaign.hive[s].completed => X[s].completed)
       /\ \A s \in active' : X[s].known /\ SacsInTime(X[s], late')
       /\ active' \subseteq Sites /\ late' \in 0 .. MaxLate /\ field' \in Fields
  BY <1>2, <1>4, PricesAre DEF FrontierInv, FrontierTypeOK
<1>11. FrontierInv'
  BY <1>3, <1>4, <1>5, <1>6, <1>7, <1>8, <1>9, <1>10, CampaignIs, ProgressInv
<1> QED BY <1>2, <1>5, <1>11

\* A laser changes one hive.
LEMMA OneHiveInv ==
  ASSUME FrontierInv, NEW s \in active, NEW g, HiveFine(g), g.known,
         SacsInTime(g, late), g.commissioned = campaign.hive[s].commissioned,
         campaign.hive[s].completed => g.completed,
         campaign' = [campaign EXCEPT !.hive[s] = g],
         cleared' = IF g.cleared THEN cleared \cup {s} ELSE cleared,
         campaign.hive[s].cleared => g.cleared,
         changed' = changed \cup {HiveKey(s)},
         UNCHANGED <<field, lit, active, disk, late>>
  PROVE  FrontierInv'
<1> DEFINE X == [campaign.hive EXCEPT ![s] = g]
<1>1. s \in Sites /\ campaign.hive[s].known
  BY CampaignIs
<1>2. /\ campaign.hive \in [Sites -> Hives] /\ X \in [Sites -> Hives]
      /\ X[s] = g /\ \A t \in Sites : t # s => X[t] = campaign.hive[t]
  BY <1>1, CampaignIs DEF HiveFine
<1>3. campaign' = [campaign EXCEPT !.hive = X]
  BY <1>1, <1>2, CampaignIs
<1> HIDE DEF X
<1>4. campaign' = [supply |-> campaign.supply, delivered |-> campaign.delivered,
                   scanned |-> campaign.scanned, hive |-> X]
  BY <1>3, CampaignIs
<1>5. /\ \A t \in Sites : HiveFine(X[t])
      /\ \A t \in Expanded : X[t].known => campaign.scanned
      /\ \A t \in Sites : campaign.hive[t].completed => X[t].completed
  BY <1>1, <1>2, CampaignIs, FrontierAssumption
<1>6. /\ changed \subseteq changed' /\ changed' \subseteq RecordKeys
      /\ \A t \in Sites : HiveKey(t) \notin changed' => X[t] = campaign.hive[t]
  BY <1>1, <1>2, RecordKeysDiffer DEF FrontierInv, FrontierTypeOK
<1>7. cleared' = {t \in Sites : X[t].cleared} /\ lit' = {t \in Sites : X[t].commissioned}
  BY <1>1, <1>2 DEF FrontierInv, SavedProgressLoads
<1>8. /\ \A t \in active' : X[t].known /\ SacsInTime(X[t], late')
      /\ active' \subseteq Sites /\ late' \in 0 .. MaxLate /\ field' \in Fields
  BY <1>1, <1>2, CampaignIs DEF FrontierInv, FrontierTypeOK
<1> QED BY <1>2, <1>4, <1>5, <1>6, <1>7, <1>8, CampaignIs, ProgressInv

LEMMA HitSacInv ==
  ASSUME FrontierInv, NEW s \in Sites, NEW i \in Sacs, HitSac(s, i)
  PROVE  /\ FrontierInv'
         /\ \A t \in Sites : ~campaign.hive[t].completed /\ campaign'.hive[t].completed
              => \A j \in Sacs : campaign'.hive[t].fell[j] < SacWindow + late
<1> DEFINE h == campaign.hive[s]
           g == AfterSac(h, i)
<1>1. /\ s \in active /\ h.sacs[i] > 0 /\ ~h.completed
      /\ campaign' = [campaign EXCEPT !.hive[s] = g]
      /\ changed' = changed \cup {HiveKey(s)}
      /\ UNCHANGED <<field, cleared, lit, active, disk, late>>
  BY DEF HitSac, AfterSac, AllDown, Struck
<1>2. HiveFine(h) /\ h.known /\ SacsInTime(h, late)
  BY <1>1, CampaignIs
<1>3. late \in Nat
  BY PricesAre DEF FrontierInv, FrontierTypeOK
<1> HIDE DEF h
<1>4. /\ HiveFine(g)
      /\ g.known = h.known /\ g.cleared = h.cleared /\ g.commissioned = h.commissioned
      /\ SacsInTime(g, late)
      /\ g.completed => \A j \in Sacs : g.fell[j] < SacWindow + late
  BY <1>1, <1>2, <1>3, SacHit
<1> HIDE DEF g
<1>5. cleared' = IF g.cleared THEN cleared \cup {s} ELSE cleared
  BY <1>1, <1>4 DEF FrontierInv, SavedProgressLoads, h
<1>6. FrontierInv'
  BY <1>1, <1>2, <1>4, <1>5, OneHiveInv DEF h
<1>7. \A t \in Sites : campaign'.hive[t] = IF t = s THEN g ELSE campaign.hive[t]
  BY <1>1, CampaignIs
<1> QED BY <1>4, <1>6, <1>7

LEMMA HitQueenInv ==
  ASSUME FrontierInv, NEW s \in Sites, HitQueen(s)
  PROVE  /\ FrontierInv'
         /\ \A t \in Sites : campaign'.hive[t].completed => campaign.hive[t].completed
<1> DEFINE h == campaign.hive[s]
           g == AfterQueen(h)
<1>1. /\ s \in active /\ ~h.cleared
      /\ campaign' = [campaign EXCEPT !.hive[s] = g]
      /\ cleared' = IF h.queen = 1 THEN cleared \cup {s} ELSE cleared
      /\ changed' = changed \cup {HiveKey(s)}
      /\ UNCHANGED <<field, lit, active, disk, late>>
  BY DEF HitQueen, AfterQueen
<1>2. HiveFine(h) /\ h.known /\ SacsInTime(h, late)
  BY <1>1, CampaignIs
<1> HIDE DEF h
<1>4. /\ HiveFine(g) /\ g.known /\ (g.cleared <=> h.queen = 1)
      /\ g.commissioned = h.commissioned /\ g.completed = h.completed
      /\ SacsInTime(g, late)
  BY <1>1, <1>2, QueenHit
<1> HIDE DEF g
<1>5. FrontierInv'
  BY <1>1, <1>2, <1>4, OneHiveInv DEF h
<1>6. \A t \in Sites : campaign'.hive[t] = IF t = s THEN g ELSE campaign.hive[t]
  BY <1>1, CampaignIs
<1> QED BY <1>4, <1>5, <1>6 DEF h

LEMMA WithdrawInv ==
  ASSUME FrontierInv, NEW p \in Places, Withdraw(p)
  PROVE  FrontierInv' /\ campaign'.hive = campaign.hive
<1> DEFINE ledger == campaign.supply[p]
           value == Smaller(ShipmentValue, ledger.available)
           others == {m \in field.shipments : ~(m.source = p /\ m.number = ledger.next)}
           new == [source |-> p, number |-> ledger.next, value |-> value]
           left == [available |-> ledger.available - value, next |-> NextNumber(ledger.next)]
           S == [campaign.supply EXCEPT ![p] = left]
<1>1. ledger \in Ledgers /\ ledger.available \in Nat /\ ledger.next \in Nat
  BY CampaignIs DEF Ledgers
<1>2. value \in Nat /\ value <= ledger.available
  BY <1>1, PricesAre DEF Smaller
<1>3. new \in Shipments /\ left \in Ledgers /\ S \in [Places -> Ledgers]
  BY <1>1, <1>2, CampaignIs DEF Shipments, Ledgers, NextNumber
<1>4. /\ field' = [field EXCEPT !.shipments = others \cup {new}]
      /\ campaign' = [campaign EXCEPT !.supply[p] = left]
      /\ changed' = changed \cup {SupplyKey(p)}
      /\ UNCHANGED <<cleared, lit, active, disk, late>>
  BY DEF Withdraw
<1>5. field' \in Fields
  <2>1. others \cup {new} \subseteq Shipments
    BY <1>3 DEF FrontierInv, FrontierTypeOK, Fields
  <2> HIDE DEF others, new
  <2> QED BY <1>4, <2>1 DEF FrontierInv, FrontierTypeOK, Fields
<1> HIDE DEF left
<1>6. campaign' = [supply |-> S, delivered |-> campaign.delivered,
                   scanned |-> campaign.scanned, hive |-> campaign.hive]
  BY <1>4, CampaignIs
<1>7. /\ changed \subseteq changed' /\ changed' \subseteq RecordKeys
      /\ \A q \in Places : SupplyKey(q) \notin changed' => S[q] = campaign.supply[q]
  BY <1>4, CampaignIs, RecordKeysDiffer DEF FrontierInv, FrontierTypeOK
<1> HIDE DEF S
<1>8. /\ cleared' = {s \in Sites : campaign.hive[s].cleared}
      /\ lit' = {s \in Sites : campaign.hive[s].commissioned}
      /\ active' \subseteq Sites /\ late' \in 0 .. MaxLate /\ disk' = disk
      /\ \A s \in active' : campaign.hive[s].known
                            /\ SacsInTime(campaign.hive[s], late')
  BY <1>4, CampaignIs DEF FrontierInv, FrontierTypeOK, SavedProgressLoads
<1>9. FrontierInv'
  BY <1>3, <1>5, <1>6, <1>7, <1>8, CampaignIs, ProgressInv
<1> QED BY <1>6, <1>9

\* What a delivery gives to the scanner and to a ruin is at most what it brings.
LEMMA Shares ==
  ASSUME FrontierInv, NEW value \in Nat, NEW p \in Places
  PROVE  /\ ToScanner(campaign, value, p) \in Nat /\ ToRuin(campaign, value, p) \in Nat
         /\ Left(campaign, value, p) \in Nat
         /\ campaign.delivered + ToScanner(campaign, value, p) \in 0 .. ScannerValue
         /\ p # Town => ToScanner(campaign, value, p) = 0
         /\ p \notin Sites => ToRuin(campaign, value, p) = 0
         /\ ToRuin(campaign, value, p) > 0 =>
              /\ campaign.hive[p].known /\ campaign.hive[p].cleared
              /\ ~campaign.hive[p].commissioned /\ value \in Nat \ {0}
              /\ ToRuin(campaign, value, p) = Smaller(value, RestoreValue - campaign.hive[p].restored)
<1>1. campaign.delivered \in 0 .. ScannerValue
  BY CampaignIs
<1>2. p \in Sites => campaign.hive[p].restored \in 0 .. RestoreValue
  BY CampaignIs DEF HiveFine, Hives
<1>3. p \in Sites => p # Town
  BY FrontierAssumption
<1>4. /\ ToScanner(campaign, value, p) \in Nat /\ ToScanner(campaign, value, p) <= value
      /\ campaign.delivered + ToScanner(campaign, value, p) \in 0 .. ScannerValue
  BY <1>1, PricesAre DEF ToScanner, Smaller
<1>5. ToRuin(campaign, value, p) \in Nat /\ ToRuin(campaign, value, p) <= value
  BY <1>2, PricesAre DEF ToRuin, Smaller
<1>6. ToScanner(campaign, value, p) = 0 \/ ToRuin(campaign, value, p) = 0
  BY <1>3 DEF ToScanner, ToRuin
<1>7. Left(campaign, value, p) \in Nat
  BY <1>4, <1>5, <1>6 DEF Left
<1> QED BY <1>2, <1>4, <1>5, <1>7, PricesAre DEF ToScanner, ToRuin, Smaller

LEMMA DeliverInv ==
  ASSUME FrontierInv, NEW value \in Nat, NEW p \in Places, NEW rest \in Fields,
         Deliver(rest, value, p)
  PROVE  /\ FrontierInv'
         /\ \A s \in Sites : campaign'.hive[s].completed => campaign.hive[s].completed
<1> DEFINE d == campaign.delivered + ToScanner(campaign, value, p)
           b == campaign.scanned \/ d = ScannerValue
           restored == campaign.hive[p].restored + ToRuin(campaign, value, p)
           restores == p \in Sites /\ ToRuin(campaign, value, p) > 0
           done == restores /\ restored = RestoreValue
           left == Left(campaign, value, p)
           S == [campaign.supply EXCEPT ![p].available = @ + left]
           X == IF restores
                THEN [campaign.hive EXCEPT ![p].restored = restored, ![p].commissioned = done]
                ELSE campaign.hive
           g == Fed(campaign.hive[p], ToRuin(campaign, value, p))
<1>1. /\ field' = rest
      /\ campaign' = [campaign EXCEPT !.delivered = d, !.scanned = @ \/ d = ScannerValue,
                        !.hive = IF restores
                                 THEN [@ EXCEPT ![p].restored = restored, ![p].commissioned = done]
                                 ELSE @,
                        !.supply[p].available = @ + left]
      /\ lit' = IF done THEN lit \cup {p} ELSE lit
      /\ changed' = changed \cup (IF p = Town THEN {ProjectKey} ELSE {})
                            \cup (IF restores THEN {HiveKey(p)} ELSE {})
                            \cup (IF left > 0 THEN {SupplyKey(p)} ELSE {})
      /\ UNCHANGED <<cleared, active, disk, late>>
  BY DEF Deliver
<1>2. /\ d \in 0 .. ScannerValue /\ left \in Nat
      /\ p # Town => d = campaign.delivered
  BY Shares, CampaignIs
<1>3. b \in BOOLEAN /\ (b <=> d = ScannerValue) /\ (campaign.scanned => b)
      /\ (p # Town => b = campaign.scanned)
  <2>1. campaign.scanned => d = ScannerValue
    BY <1>2, Shares, CampaignIs, PricesAre
  <2>2. p # Town => (d = ScannerValue <=> campaign.scanned)
    BY <1>2, CampaignIs
  <2>3. campaign.scanned \in BOOLEAN
    BY CampaignIs
  <2> HIDE DEF d
  <2> QED BY <2>1, <2>2, <2>3
<1>4. S \in [Places -> Ledgers] /\ (left = 0 => S = campaign.supply)
      /\ \A q \in Places : q # p => S[q] = campaign.supply[q]
  <2>1. campaign.supply[p] \in Ledgers
    BY CampaignIs
  <2> HIDE DEF left
  <2> QED BY <1>2, <2>1, CampaignIs DEF Ledgers
<1>5. restores => /\ HiveFine(g) /\ g.known /\ g.cleared
                  /\ (g.commissioned <=> done) /\ g.completed = campaign.hive[p].completed
                  /\ \A ticks : SacsInTime(campaign.hive[p], ticks) => SacsInTime(g, ticks)
  <2>1. restores => /\ HiveFine(campaign.hive[p])
                    /\ campaign.hive[p].known /\ campaign.hive[p].cleared
                    /\ ~campaign.hive[p].commissioned /\ value \in Nat \ {0}
                    /\ ToRuin(campaign, value, p)
                         = Smaller(value, RestoreValue - campaign.hive[p].restored)
    BY Shares, CampaignIs
  <2> HIDE DEF g
  <2> QED BY <2>1, RuinFed DEF g
<1>6. /\ X \in [Sites -> Hives]
      /\ \A s \in Sites : X[s] = IF restores /\ s = p THEN g ELSE campaign.hive[s]
  <2>1. CASE restores
    <3>1. X = [campaign.hive EXCEPT ![p] = g]
      BY <2>1, CampaignIs DEF Fed
    <3> HIDE DEF X, g, restored
    <3> QED BY <1>5, <2>1, <3>1, CampaignIs DEF HiveFine
  <2>2. CASE ~restores
    <3> HIDE DEF restores
    <3> QED BY <2>2, CampaignIs
  <2> QED BY <2>1, <2>2
<1>7. campaign' = [supply |-> S, delivered |-> d, scanned |-> b, hive |-> X]
  <2> HIDE DEF d, restores, restored, done, left
  <2> QED BY <1>1, CampaignIs
<1> HIDE DEF d, b, restores, restored, done, left, S, X, g
<1>8. /\ \A s \in Sites : HiveFine(X[s])
      /\ \A s \in Expanded : X[s].known => b
      /\ \A s \in Sites : campaign.hive[s].completed => X[s].completed
      /\ \A s \in Sites : X[s].completed => campaign.hive[s].completed
  <2>1. restores => campaign.hive[p].known
    BY Shares DEF restores
  <2> QED BY <1>3, <1>5, <1>6, <2>1, CampaignIs, FrontierAssumption
<1>9. changed \subseteq changed' /\ changed' \subseteq RecordKeys
  BY <1>1, RecordKeysDiffer DEF FrontierInv, FrontierTypeOK, restores
<1>10. /\ \A q \in Places : SupplyKey(q) \notin changed' => S[q] = campaign.supply[q]
       /\ ProjectKey \notin changed' => d = campaign.delivered /\ b = campaign.scanned
       /\ \A s \in Sites : HiveKey(s) \notin changed' => X[s] = campaign.hive[s]
  <2>1. \A q \in Places : SupplyKey(q) \notin changed' => S[q] = campaign.supply[q]
    BY <1>1, <1>2, <1>4
  <2>2. ProjectKey \notin changed' => d = campaign.delivered /\ b = campaign.scanned
    BY <1>1, <1>2, <1>3
  <2>3. \A s \in Sites : HiveKey(s) \notin changed' => X[s] = campaign.hive[s]
    BY <1>1, <1>6
  <2> QED BY <2>1, <2>2, <2>3
<1>11. /\ cleared' = {s \in Sites : X[s].cleared}
       /\ lit' = {s \in Sites : X[s].commissioned}
  <2>1. restores => campaign.hive[p].cleared /\ ~campaign.hive[p].commissioned /\ p \in Sites
    BY Shares DEF restores
  <2>2. done => restores
    BY DEF done
  <2> QED BY <1>1, <1>5, <1>6, <2>1, <2>2 DEF FrontierInv, SavedProgressLoads
<1>12. /\ active' \subseteq Sites /\ late' \in 0 .. MaxLate /\ disk' = disk /\ field' \in Fields
       /\ \A s \in active' : X[s].known /\ SacsInTime(X[s], late')
  BY <1>1, <1>5, <1>6, CampaignIs DEF FrontierInv, FrontierTypeOK
<1>13. FrontierInv'
  BY <1>2, <1>3, <1>4, <1>6, <1>7, <1>8, <1>9, <1>10, <1>11, <1>12, ProgressInv
<1> QED BY <1>7, <1>8, <1>13

\* Rocks and shipments come and go without the campaign.
LEMMA FieldInv ==
  ASSUME FrontierInv, field' \in Fields,
         UNCHANGED <<campaign, changed, cleared, lit, active, disk, late>>
  PROVE  FrontierInv'
BY DEF FrontierInv, FrontierTypeOK, SavedProgressLoads, DiskIsBehind, ActiveAreCurrent

LEMMA RocksInv ==
  ASSUME FrontierInv, Regrow \/ DestroyRock \/ \E m \in field.shipments : DestroyShipment(m)
  PROVE  FrontierInv' /\ UNCHANGED campaign
<1>1. /\ field \in Fields /\ field.rocks \in Nat /\ field.yielded \in Nat
      /\ field.destroyed \in Nat /\ field.shipments \subseteq Shipments
  BY DEF FrontierInv, FrontierTypeOK, Fields
<1>2. CASE Regrow
  <2>1. field' \in Fields
    <3>1. field.rocks + 1 \in Nat /\ field.yielded + RockValue \in Nat
      BY <1>1, PricesAre
    <3> QED BY <1>1, <1>2, <3>1 DEF Regrow, Fields
  <2> QED BY <1>2, <2>1, FieldInv DEF Regrow
<1>3. CASE DestroyRock
  <2>1. field' \in Fields
    <3>1. field.rocks - 1 \in Nat /\ field.destroyed + RockValue \in Nat
      BY <1>1, <1>3, PricesAre DEF DestroyRock
    <3> QED BY <1>1, <1>3, <3>1 DEF DestroyRock, Fields
  <2> QED BY <1>3, <2>1, FieldInv DEF DestroyRock
<1>4. ASSUME NEW m \in field.shipments, DestroyShipment(m)
      PROVE  FrontierInv' /\ UNCHANGED campaign
  <2>1. m.value \in Nat /\ field.shipments \ {m} \subseteq Shipments
    BY <1>1 DEF Shipments
  <2>2. field' \in Fields
    <3>1. field.destroyed + m.value \in Nat
      BY <1>1, <2>1
    <3> QED BY <1>1, <1>4, <2>1, <3>1 DEF DestroyShipment, Fields
  <2> QED BY <1>4, <2>2, FieldInv DEF DestroyShipment
<1> QED BY <1>2, <1>3, <1>4

LEMMA DeliveriesInv ==
  ASSUME FrontierInv, NEW p \in Places,
         DeliverRock(p) \/ \E m \in field.shipments : DeliverShipment(m, p)
  PROVE  /\ FrontierInv'
         /\ \A s \in Sites : campaign'.hive[s].completed => campaign.hive[s].completed
<1>1. field \in Fields /\ field.rocks \in Nat /\ field.shipments \subseteq Shipments
  BY DEF FrontierInv, FrontierTypeOK, Fields
<1>2. CASE DeliverRock(p)
  <2>1. [field EXCEPT !.rocks = @ - 1] \in Fields
    BY <1>1, <1>2 DEF DeliverRock, Fields
  <2> QED BY <1>2, <2>1, DeliverInv, PricesAre DEF DeliverRock
<1>3. ASSUME NEW m \in field.shipments, DeliverShipment(m, p)
      PROVE  /\ FrontierInv'
             /\ \A s \in Sites : campaign'.hive[s].completed => campaign.hive[s].completed
  <2>1. m.value \in Nat /\ field.shipments \ {m} \subseteq Shipments
    BY <1>1 DEF Shipments
  <2>2. [field EXCEPT !.shipments = @ \ {m}] \in Fields
    BY <1>1, <2>1 DEF Fields
  <2> QED BY <1>3, <2>1, <2>2, DeliverInv DEF DeliverShipment
<1> QED BY <1>2, <1>3

\* Time passes for what is saved as well.
LEMMA AgedCampaignFine ==
  ASSUME NEW c, CampaignFine(c)
  PROVE  /\ CampaignFine(AgedCampaign(c))
         /\ AgedCampaign(c).supply = c.supply /\ AgedCampaign(c).delivered = c.delivered
         /\ AgedCampaign(c).scanned = c.scanned
         /\ \A s \in Sites : AgedCampaign(c).hive[s] = Aged(c.hive[s])
<1> DEFINE X == [s \in Sites |-> Aged(c.hive[s])]
<1>1. c \in Campaigns /\ c.hive \in [Sites -> Hives] /\ \A s \in Sites : HiveFine(c.hive[s])
  BY TheHives DEF CampaignFine, Campaigns
<1>2. X \in [Sites -> Hives] /\ \A s \in Sites : HiveFine(X[s]) /\ X[s].known = c.hive[s].known
  BY <1>1, AgedHive DEF HiveFine
<1>3. AgedCampaign(c) = [c EXCEPT !.hive = X]
  BY <1>1 DEF AgedCampaign, Campaigns
<1> HIDE DEF X
<1>4. /\ AgedCampaign(c) = [supply |-> c.supply, delivered |-> c.delivered,
                            scanned |-> c.scanned, hive |-> X]
      /\ c.supply \in [Places -> Ledgers] /\ c.delivered \in 0 .. ScannerValue
      /\ c.scanned \in BOOLEAN
  BY <1>1, <1>3 DEF Campaigns
<1>5. /\ c.scanned <=> c.delivered = ScannerValue
      /\ \A s \in Expanded : X[s].known => c.scanned
  BY <1>2, FrontierAssumption DEF CampaignFine, ValidCampaign
<1>6. CampaignFine(AgedCampaign(c))
  BY <1>2, <1>4, <1>5, TheCampaign
<1> QED BY <1>4, <1>6 DEF X

LEMMA ElapseInv ==
  ASSUME FrontierInv, Elapse
  PROVE  /\ FrontierInv'
         /\ \A s \in Sites : campaign'.hive[s].completed => campaign.hive[s].completed
<1>1. CampaignFine(campaign) /\ CampaignFine(disk.campaign) /\ RestFine
  BY FrontierParts
<1>2. /\ campaign' = AgedCampaign(campaign)
      /\ disk' = [disk EXCEPT !.campaign = AgedCampaign(@)]
      /\ late \in 0 .. MaxLate /\ late < MaxLate /\ late' = late + 1
      /\ UNCHANGED <<changed, field, cleared, lit, active>>
  BY <1>1 DEF Elapse, RestFine
<1>10. late \in Nat /\ late' \in 0 .. MaxLate
  BY <1>2, PricesAre
<1>3. /\ CampaignFine(AgedCampaign(campaign)) /\ CampaignFine(AgedCampaign(disk.campaign))
      /\ AgedCampaign(disk.campaign) \in Campaigns
  BY <1>1, AgedCampaignFine DEF CampaignFine
<1>4. /\ disk'.campaign = AgedCampaign(disk.campaign)
      /\ disk' \in [campaign : Campaigns, field : Fields]
  BY <1>1, <1>2, <1>3 DEF RestFine
<1>5. \A s \in Sites : /\ campaign'.hive[s] = Aged(campaign.hive[s])
                       /\ disk'.campaign.hive[s] = Aged(disk.campaign.hive[s])
                       /\ HiveFine(campaign.hive[s]) /\ HiveFine(disk.campaign.hive[s])
  BY <1>1, <1>2, <1>4, AgedCampaignFine, TheHives
<1>6. DiskIsBehind'
  <2>1. /\ campaign'.supply = campaign.supply /\ disk'.campaign.supply = disk.campaign.supply
        /\ campaign'.delivered = campaign.delivered /\ campaign'.scanned = campaign.scanned
        /\ disk'.campaign.delivered = disk.campaign.delivered
        /\ disk'.campaign.scanned = disk.campaign.scanned
    BY <1>1, <1>2, <1>4, AgedCampaignFine
  <2>2. \A s \in Sites : /\ campaign'.hive[s].completed = campaign.hive[s].completed
                         /\ disk'.campaign.hive[s].completed = disk.campaign.hive[s].completed
    BY <1>5, AgedHive
  <2> QED BY <1>1, <1>2, <1>5, <2>1, <2>2 DEF RestFine, DiskIsBehind
<1>7. ActiveAreCurrent'
  BY <1>1, <1>2, <1>5, <1>10, AgedHive DEF RestFine, ActiveAreCurrent
<1>8. RestFine'
  <2>1. \A s \in Sites : /\ campaign'.hive[s].cleared = campaign.hive[s].cleared
                         /\ campaign'.hive[s].commissioned = campaign.hive[s].commissioned
    BY <1>5, AgedHive
  <2> QED BY <1>1, <1>2, <1>4, <1>6, <1>7, <1>10, <2>1 DEF RestFine
<1>9. FrontierInv'
  BY <1>2, <1>3, <1>4, <1>8, FrontierParts
<1> QED BY <1>5, <1>9, AgedHive

\* A batch carries the whole campaign: what no key marks is on the disk already.
LEMMA BatchIsTheCampaign ==
  ASSUME FrontierInv
  PROVE  Checkpointed(changed) = campaign
<1>1. CampaignFine(disk.campaign) /\ DiskIsBehind
  BY FrontierParts DEF RestFine
<1>2. [p \in Places |-> IF SupplyKey(p) \in changed THEN campaign.supply[p]
                        ELSE disk.campaign.supply[p]] = campaign.supply
  BY <1>1, CampaignIs DEF DiskIsBehind
<1>3. [s \in Sites |-> IF HiveKey(s) \in changed THEN campaign.hive[s]
                       ELSE disk.campaign.hive[s]] = campaign.hive
  BY <1>1, CampaignIs DEF DiskIsBehind
<1>4. /\ (IF ProjectKey \in changed THEN campaign.delivered ELSE disk.campaign.delivered)
           = campaign.delivered
      /\ (IF ProjectKey \in changed THEN campaign.scanned ELSE disk.campaign.scanned)
           = campaign.scanned
  BY <1>1 DEF DiskIsBehind
<1> QED BY <1>2, <1>3, <1>4, CampaignIs DEF Checkpointed

LEMMA WriteBatchInv ==
  ASSUME FrontierInv, WriteBatch
  PROVE  FrontierInv' /\ UNCHANGED campaign
<1>1. /\ disk' = [campaign |-> campaign, field |-> field]
      /\ changed' = {}
      /\ UNCHANGED <<campaign, field, cleared, lit, active, late>>
  BY BatchIsTheCampaign DEF WriteBatch
<1>2. DiskIsBehind'
  BY <1>1 DEF DiskIsBehind
<1> QED BY <1>1, <1>2 DEF FrontierInv, FrontierTypeOK, SavedProgressLoads, ActiveAreCurrent

LEMMA RestartInv ==
  ASSUME FrontierInv, Restart
  PROVE  /\ FrontierInv'
         /\ \A s \in Sites : campaign'.hive[s].completed => campaign.hive[s].completed
<1>1. /\ campaign' = disk.campaign /\ field' = disk.field
      /\ changed' = {} /\ active' = {} /\ UNCHANGED <<disk, late>>
  BY DEF Restart
<1>2. CampaignFine(disk.campaign) /\ RestFine
  BY FrontierParts
<1>3. /\ cleared' = {s \in Sites : disk.campaign.hive[s].cleared}
      /\ lit' = {s \in Sites : disk.campaign.hive[s].commissioned}
  <2>1. \A s \in Sites : ~disk.campaign.hive[s].known => /\ ~disk.campaign.hive[s].cleared
                                                         /\ ~disk.campaign.hive[s].commissioned
    BY <1>2, TheHives
  <2> QED BY <2>1 DEF Restart
<1>4. RestFine'
  BY <1>1, <1>2, <1>3 DEF RestFine, DiskIsBehind, ActiveAreCurrent
<1> QED BY <1>1, <1>2, <1>4, FrontierParts DEF RestFine, DiskIsBehind

-----------------------------------------------------------------------------
(* The books of the ore.                                                   *)

\* The books of one campaign and one field.
OreFine(c, f) == NumbersAreGiven(c, f) /\ OreOf(c, f) + f.destroyed = f.yielded

LEMMA TheBooks ==
  /\ OreInv <=> OreFine(campaign, field) /\ OreFine(disk.campaign, disk.field)
  /\ OreInv' <=> OreFine(campaign, field)' /\ OreFine(disk.campaign, disk.field)'
BY DEF OreInv, OreIsHeldOnce, OreFine

LEMMA PlacesAreFinite == IsFiniteSet(Places)
<1>1. Places = Sites \cup {Town}
  BY DEF Places
<1> QED BY <1>1, FrontierAssumption, FS_AddElement

\* Each part of the sum is a number.
LEMMA OreIsNat ==
  ASSUME NEW c \in Campaigns, NEW f \in Fields, IsFiniteSet(f.shipments)
  PROVE  /\ InShipments(f) \in Nat /\ InSupply(c) \in Nat /\ InRuins(c) \in Nat
         /\ c.delivered \in Nat /\ f.rocks \in Nat /\ f.destroyed \in Nat /\ f.yielded \in Nat
         /\ f.rocks * RockValue \in Nat
<1>1. [m \in f.shipments |-> m.value] \in [f.shipments -> Nat]
  BY DEF Fields, Shipments
<1>2. [p \in Places |-> c.supply[p].available] \in [Places -> Nat]
  BY DEF Campaigns, Ledgers
<1>3. [s \in Sites |-> c.hive[s].restored] \in [Sites -> Nat]
  <2>1. \A s \in Sites : c.hive[s].restored \in 0 .. RestoreValue
    BY DEF Campaigns, Hives
  <2> QED BY <2>1, PricesAre
<1>4. InShipments(f) \in Nat
  BY <1>1, TotalIsNat DEF InShipments
<1>5. InSupply(c) \in Nat
  BY <1>2, PlacesAreFinite, TotalIsNat DEF InSupply
<1>6. InRuins(c) \in Nat
  BY <1>3, FrontierAssumption, TotalIsNat DEF InRuins
<1>7. /\ c.delivered \in Nat /\ f.rocks \in Nat /\ f.destroyed \in Nat /\ f.yielded \in Nat
  BY PricesAre DEF Campaigns, Fields
<1>8. f.rocks * RockValue \in Nat
  BY <1>7, PricesAre
<1> QED BY <1>4, <1>5, <1>6, <1>7, <1>8

\* One shipment less, and one more.
LEMMA ShipmentLess ==
  ASSUME NEW S \in SUBSET Shipments, IsFiniteSet(S), NEW m \in S
  PROVE  /\ IsFiniteSet(S \ {m})
         /\ Total([n \in S |-> n.value]) = m.value + Total([n \in S \ {m} |-> n.value])
<1> DEFINE w == [n \in S |-> n.value]
<1>1. w \in [S -> Nat] /\ w[m] = m.value
  BY DEF Shipments
<1>2. [n \in S \ {m} |-> w[n]] = [n \in S \ {m} |-> n.value]
  OBVIOUS
<1> HIDE DEF w
<1>3. Total(w) = w[m] + Total([n \in S \ {m} |-> w[n]])
  BY <1>1, TotalAt
<1>4. IsFiniteSet(S \ {m})
  BY FS_RemoveElement
<1>5. Total(w) = m.value + Total([n \in S \ {m} |-> n.value])
  BY <1>1, <1>2, <1>3
<1> QED BY <1>4, <1>5 DEF w

\* The supply of one place, and one ruin.
LEMMA SupplyAt ==
  ASSUME NEW c \in Campaigns, NEW d \in Campaigns, NEW p \in Places,
         \A q \in Places \ {p} : d.supply[q].available = c.supply[q].available
  PROVE  InSupply(d) + c.supply[p].available = InSupply(c) + d.supply[p].available
<1> DEFINE w == [q \in Places |-> c.supply[q].available]
           v == [q \in Places |-> d.supply[q].available]
<1>1. w \in [Places -> Nat] /\ v \in [Places -> Nat]
  BY DEF Campaigns, Ledgers
<1>2. \A q \in Places \ {p} : v[q] = w[q]
  OBVIOUS
<1>3. w[p] = c.supply[p].available /\ v[p] = d.supply[p].available
  OBVIOUS
<1> HIDE DEF w, v
<1>4. Total(v) + w[p] = Total(w) + v[p]
  BY <1>1, <1>2, PlacesAreFinite, TotalChanges
<1> QED BY <1>3, <1>4 DEF InSupply, w, v

LEMMA RuinsAt ==
  ASSUME NEW c \in Campaigns, NEW d \in Campaigns, NEW s \in Sites,
         \A t \in Sites \ {s} : d.hive[t].restored = c.hive[t].restored
  PROVE  InRuins(d) + c.hive[s].restored = InRuins(c) + d.hive[s].restored
<1> DEFINE w == [t \in Sites |-> c.hive[t].restored]
           v == [t \in Sites |-> d.hive[t].restored]
<1>1. w \in [Sites -> Nat] /\ v \in [Sites -> Nat]
  <2>1. \A t \in Sites : c.hive[t].restored \in 0 .. RestoreValue
                         /\ d.hive[t].restored \in 0 .. RestoreValue
    BY DEF Campaigns, Hives
  <2> QED BY <2>1, PricesAre
<1>2. \A t \in Sites \ {s} : v[t] = w[t]
  OBVIOUS
<1>3. w[s] = c.hive[s].restored /\ v[s] = d.hive[s].restored
  OBVIOUS
<1>4. IsFiniteSet(Sites)
  BY FrontierAssumption
<1> HIDE DEF w, v
<1>5. Total(v) + w[s] = Total(w) + v[s]
  BY <1>1, <1>2, <1>4, TotalChanges
<1> QED BY <1>3, <1>5 DEF InRuins, w, v

\* Hives may change in everything else.
LEMMA SameOre ==
  ASSUME NEW c, NEW d, NEW f, OreFine(c, f), d.supply = c.supply, d.delivered = c.delivered,
         \A s \in Sites : d.hive[s].restored = c.hive[s].restored
  PROVE  OreFine(d, f)
<1>1. InRuins(d) = InRuins(c)
  <2>1. [s \in Sites |-> d.hive[s].restored] = [s \in Sites |-> c.hive[s].restored]
    OBVIOUS
  <2> QED BY <2>1 DEF InRuins
<1>2. InSupply(d) = InSupply(c)
  BY DEF InSupply
<1> QED BY <1>1, <1>2 DEF OreFine, OreOf, NumbersAreGiven

LEMMA OneRock ==
  ASSUME NEW r \in Nat
  PROVE  (r + 1) * RockValue = r * RockValue + RockValue
BY PricesAre

\* A change of one hive leaves the rest of the campaign.
LEMMA OneHiveOnly ==
  ASSUME NEW c, c = [supply |-> c.supply, delivered |-> c.delivered, scanned |-> c.scanned,
                     hive |-> c.hive],
         NEW d, NEW s \in Sites, NEW g, d = [c EXCEPT !.hive[s] = g]
  PROVE  d.supply = c.supply /\ d.delivered = c.delivered /\ d.hive = [c.hive EXCEPT ![s] = g]
<1> DEFINE S == c.supply
           D == c.delivered
           K == c.scanned
           H == c.hive
<1>1. c = [supply |-> S, delivered |-> D, scanned |-> K, hive |-> H]
  OBVIOUS
<1> HIDE DEF S, D, K, H
<1>2. d = [supply |-> S, delivered |-> D, scanned |-> K, hive |-> [H EXCEPT ![s] = g]]
  BY <1>1
<1> QED BY <1>1, <1>2

LEMMA HivesKeepOre ==
  ASSUME FrontierInv, OreInv,
         \/ \E near \in SUBSET Sites : Advance(near)
         \/ \E s \in Sites : HitQueen(s)
         \/ \E s \in Sites, i \in Sacs : HitSac(s, i)
  PROVE  OreInv'
<1>1. /\ campaign'.supply = campaign.supply /\ campaign'.delivered = campaign.delivered
      /\ UNCHANGED <<field, disk>>
  <2>1. CASE \E near \in SUBSET Sites : Advance(near)
    BY <2>1, CampaignIs DEF Advance
  <2>2. CASE \E s \in Sites : HitQueen(s)
    <3>1. PICK s \in Sites : HitQueen(s)
      BY <2>2
    <3>2. /\ campaign' = [campaign EXCEPT !.hive[s] = AfterQueen(campaign.hive[s])]
          /\ UNCHANGED <<field, disk>>
      BY <3>1, Zenon DEF HitQueen, AfterQueen
    <3> QED BY <3>2, CampaignIs, OneHiveOnly
  <2>3. CASE \E s \in Sites, i \in Sacs : HitSac(s, i)
    <3>1. PICK s \in Sites, i \in Sacs : HitSac(s, i)
      BY <2>3
    <3>2. /\ campaign' = [campaign EXCEPT !.hive[s] = AfterSac(campaign.hive[s], i)]
          /\ UNCHANGED <<field, disk>>
      BY <3>1, Zenon DEF HitSac, AfterSac, AllDown, Struck
    <3> QED BY <3>2, CampaignIs, OneHiveOnly
  <2> QED BY <2>1, <2>2, <2>3
<1>2. ASSUME NEW s \in Sites PROVE campaign'.hive[s].restored = campaign.hive[s].restored
  <2>1. HiveFine(campaign.hive[s]) /\ campaign.hive[s] \in Hives /\ campaign.hive \in [Sites -> Hives]
    BY CampaignIs
  <2>2. ~campaign.hive[s].known => campaign.hive[s].restored = 0
    BY <2>1, PricesAre DEF HiveFine, Hives, ValidHive, HiveInOrder
  <2>3. ASSUME NEW near \in SUBSET Sites, Advance(near)
        PROVE  campaign'.hive[s].restored = campaign.hive[s].restored
    <3>1. NewHive.restored = 0 /\ \A h \in Hives : Refilled(h).restored = h.restored
      BY DEF NewHive, Refilled, Hives
    <3> DEFINE met == IF s \in near /\ ~campaign.hive[s].known THEN NewHive ELSE campaign.hive[s]
    <3>2. met.restored = campaign.hive[s].restored /\ met \in Hives
      BY <2>1, <2>2, <3>1, FreshHive DEF HiveFine
    <3>3. campaign'.hive[s] = IF s \in near THEN Refilled(met) ELSE met
      BY <2>3, CampaignIs DEF Advance
    <3> QED BY <3>1, <3>2, <3>3
  <2>4. ASSUME NEW t \in Sites, HitQueen(t)
        PROVE  campaign'.hive[s].restored = campaign.hive[s].restored
    <3>1. /\ campaign'.hive = [campaign.hive EXCEPT ![t] = AfterQueen(campaign.hive[t])]
          /\ campaign.hive[t] \in Hives
      <4>1. campaign' = [campaign EXCEPT !.hive[t] = AfterQueen(campaign.hive[t])]
        BY <2>4, Zenon DEF HitQueen, AfterQueen
      <4> QED BY <2>1, <4>1, CampaignIs, OneHiveOnly
    <3>2. \A h \in Hives : AfterQueen(h).restored = h.restored
      BY DEF AfterQueen, Hives
    <3> QED BY <2>1, <3>1, <3>2
  <2>5. ASSUME NEW t \in Sites, NEW i \in Sacs, HitSac(t, i)
        PROVE  campaign'.hive[s].restored = campaign.hive[s].restored
    <3>1. /\ campaign'.hive = [campaign.hive EXCEPT ![t] = AfterSac(campaign.hive[t], i)]
          /\ campaign.hive[t] \in Hives
      <4>1. campaign' = [campaign EXCEPT !.hive[t] = AfterSac(campaign.hive[t], i)]
        BY <2>5, Zenon DEF HitSac, AfterSac, AllDown, Struck
      <4> QED BY <2>1, <4>1, CampaignIs, OneHiveOnly
    <3>2. \A h \in Hives : AfterSac(h, i).restored = h.restored
      BY DEF AfterSac, Hives
    <3> QED BY <2>1, <3>1, <3>2
  <2> QED BY <2>3, <2>4, <2>5
<1>3. OreFine(campaign, field) /\ OreFine(disk.campaign, disk.field)
  BY TheBooks
<1>4. OreFine(campaign', field)
  BY <1>1, <1>2, <1>3, SameOre
<1> QED BY <1>1, <1>3, <1>4, TheBooks
LEMMA RocksKeepOre ==
  ASSUME FrontierInv, OreInv,
         Regrow \/ DestroyRock \/ \E m \in field.shipments : DestroyShipment(m)
  PROVE  OreInv'
<1>1. /\ OreFine(campaign, field) /\ OreFine(disk.campaign, disk.field)
      /\ IsFiniteSet(field.shipments)
  BY TheBooks DEF OreFine, NumbersAreGiven
<1>2. campaign \in Campaigns /\ field \in Fields /\ field.shipments \in SUBSET Shipments
  BY DEF FrontierInv, FrontierTypeOK, Fields
<1>3. /\ InShipments(field) \in Nat /\ InSupply(campaign) \in Nat /\ InRuins(campaign) \in Nat
      /\ campaign.delivered \in Nat /\ field.rocks \in Nat /\ field.destroyed \in Nat
      /\ field.yielded \in Nat /\ field.rocks * RockValue \in Nat
  BY <1>1, <1>2, OreIsNat
<1>4. field.rocks * RockValue + InShipments(field) + InSupply(campaign) + campaign.delivered
        + InRuins(campaign) + field.destroyed = field.yielded
  BY <1>1 DEF OreFine, OreOf
<1>5. UNCHANGED <<campaign, disk>>
  BY DEF Regrow, DestroyRock, DestroyShipment
<1>6. CASE Regrow
  <2>1. /\ field'.rocks = field.rocks + 1 /\ field'.yielded = field.yielded + RockValue
        /\ field'.shipments = field.shipments /\ field'.destroyed = field.destroyed
    BY <1>2, <1>6 DEF Regrow, Fields
  <2>2. InShipments(field') = InShipments(field)
    BY <2>1 DEF InShipments
  <2>3. field'.rocks * RockValue = field.rocks * RockValue + RockValue
    BY <1>3, <2>1, OneRock
  <2>4. OreFine(campaign, field')
    BY <1>1, <1>3, <1>4, <2>1, <2>2, <2>3, PricesAre DEF OreFine, OreOf, NumbersAreGiven
  <2> QED BY <1>1, <1>5, <2>4, TheBooks
<1>7. CASE DestroyRock
  <2>1. /\ field.rocks - 1 \in Nat /\ field'.rocks = field.rocks - 1
        /\ field'.destroyed = field.destroyed + RockValue
        /\ field'.shipments = field.shipments /\ field'.yielded = field.yielded
    BY <1>2, <1>7 DEF DestroyRock, Fields
  <2>2. InShipments(field') = InShipments(field)
    BY <2>1 DEF InShipments
  <2>3. field.rocks * RockValue = field'.rocks * RockValue + RockValue
    <3>1. field'.rocks \in Nat /\ field.rocks = field'.rocks + 1
      BY <1>3, <2>1
    <3> QED BY <3>1, OneRock
  <2>4. field'.rocks * RockValue \in Nat
    BY <2>1, PricesAre
  <2>5. OreFine(campaign, field')
    BY <1>1, <1>3, <1>4, <2>1, <2>2, <2>3, <2>4, PricesAre DEF OreFine, OreOf, NumbersAreGiven
  <2> QED BY <1>1, <1>5, <2>5, TheBooks
<1>8. ASSUME NEW m \in field.shipments, DestroyShipment(m) PROVE OreInv'
  <2>1. /\ field'.shipments = field.shipments \ {m}
        /\ field'.destroyed = field.destroyed + m.value
        /\ field'.rocks = field.rocks /\ field'.yielded = field.yielded
    BY <1>2, <1>8 DEF DestroyShipment, Fields
  <2>2. InShipments(field) = m.value + InShipments(field') /\ IsFiniteSet(field'.shipments)
    BY <1>1, <1>2, <2>1, ShipmentLess DEF InShipments
  <2>3. m.value \in Nat
    BY <1>2 DEF Shipments
  <2>4. field' \in Fields
    BY <1>8, RocksInv DEF FrontierInv, FrontierTypeOK
  <2>5. InShipments(field') \in Nat
    BY <1>2, <2>2, <2>4, OreIsNat
  <2>6. \A n \in field'.shipments : n.number < campaign.supply[n.source].next
    BY <1>1, <2>1 DEF OreFine, NumbersAreGiven
  <2>7. OreOf(campaign, field') + field'.destroyed = field'.yielded
    BY <1>3, <1>4, <2>1, <2>2, <2>3, <2>5 DEF OreOf
  <2>8. OreFine(campaign, field')
    BY <2>2, <2>6, <2>7 DEF OreFine, NumbersAreGiven
  <2> QED BY <1>1, <1>5, <2>8, TheBooks
<1> QED BY <1>6, <1>7, <1>8

\* What a furnace takes in, the scanner, the ruin and the supply have between them.
LEMMA DeliverKeepsOre ==
  ASSUME FrontierInv, FrontierInv', OreInv, NEW value \in Nat, NEW p \in Places,
         NEW rest \in Fields, Deliver(rest, value, p),
         IsFiniteSet(rest.shipments), rest.shipments \subseteq field.shipments,
         rest.destroyed = field.destroyed, rest.yielded = field.yielded,
         field.rocks * RockValue + InShipments(field)
           = rest.rocks * RockValue + InShipments(rest) + value
  PROVE  OreInv'
<1> DEFINE toScanner == ToScanner(campaign, value, p)
           toRuin == ToRuin(campaign, value, p)
           left == Left(campaign, value, p)
<1>1. /\ OreFine(campaign, field) /\ OreFine(disk.campaign, disk.field)
      /\ IsFiniteSet(field.shipments)
  BY TheBooks DEF OreFine, NumbersAreGiven
<1>2. campaign \in Campaigns /\ campaign' \in Campaigns /\ field \in Fields
  BY DEF FrontierInv, FrontierTypeOK
<1>3. /\ toScanner \in Nat /\ toRuin \in Nat /\ left \in Nat
      /\ p \notin Sites => toRuin = 0
  BY Shares
<1>4. left + toScanner + toRuin = value
  BY <1>3 DEF Left
<1>5. /\ field' = rest /\ disk' = disk
      /\ campaign'.delivered = campaign.delivered + toScanner
      /\ campaign'.supply[p].available = campaign.supply[p].available + left
      /\ \A q \in Places : campaign'.supply[q].next = campaign.supply[q].next
      /\ \A q \in Places \ {p} : campaign'.supply[q] = campaign.supply[q]
  <2> HIDE DEF toScanner, left
  <2> QED BY CampaignIs DEF Deliver, toScanner, left, Ledgers
<1>6. /\ p \in Sites => campaign'.hive[p].restored = campaign.hive[p].restored + toRuin
      /\ \A s \in Sites \ {p} : campaign'.hive[s].restored = campaign.hive[s].restored
  <2>1. CASE p \in Sites /\ toRuin > 0
    <3>1. campaign'.hive = [campaign.hive EXCEPT
             ![p].restored = campaign.hive[p].restored + toRuin,
             ![p].commissioned = (campaign.hive[p].restored + toRuin = RestoreValue)]
      BY <2>1, CampaignIs DEF Deliver
    <3> HIDE DEF toRuin
    <3> QED BY <2>1, <3>1, CampaignIs DEF Hives
  <2>2. CASE ~(p \in Sites /\ toRuin > 0)
    <3>1. campaign'.hive = campaign.hive
      BY <2>2, CampaignIs DEF Deliver
    <3>2. p \in Sites => campaign.hive[p].restored \in Nat /\ toRuin = 0
      BY <1>3, <2>2, CampaignIs, PricesAre DEF Hives
    <3> HIDE DEF toRuin
    <3> QED BY <3>1, <3>2
  <2> QED BY <2>1, <2>2
<1> HIDE DEF toScanner, toRuin, left
<1>7. InSupply(campaign') = InSupply(campaign) + left
  <2>1. /\ InSupply(campaign) \in Nat /\ InSupply(campaign') \in Nat
        /\ campaign.supply[p].available \in Nat
    BY <1>1, <1>2, OreIsNat, CampaignIs DEF Ledgers
  <2>2. InSupply(campaign') + campaign.supply[p].available
          = InSupply(campaign) + campaign'.supply[p].available
    BY <1>2, <1>5, SupplyAt
  <2> QED BY <1>3, <1>5, <2>1, <2>2
<1>8. InRuins(campaign') = InRuins(campaign) + toRuin
  <2>1. InRuins(campaign) \in Nat /\ InRuins(campaign') \in Nat
    BY <1>1, <1>2, OreIsNat
  <2>2. CASE p \in Sites
    <3>1. InRuins(campaign') + campaign.hive[p].restored
            = InRuins(campaign) + campaign'.hive[p].restored
      BY <1>2, <1>6, <2>2, RuinsAt
    <3>2. campaign.hive[p].restored \in Nat
      BY <2>2, CampaignIs, PricesAre DEF Hives
    <3> QED BY <1>3, <1>6, <2>1, <2>2, <3>1, <3>2
  <2>3. CASE p \notin Sites
    <3>1. [s \in Sites |-> campaign'.hive[s].restored] = [s \in Sites |-> campaign.hive[s].restored]
      BY <1>6, <2>3
    <3> QED BY <1>3, <2>1, <2>3, <3>1 DEF InRuins
  <2> QED BY <2>2, <2>3
<1>9. OreOf(campaign', rest) = OreOf(campaign, field)
  <2> DEFINE before == field.rocks * RockValue
             after == rest.rocks * RockValue
  <2>1. /\ InShipments(field) \in Nat /\ InSupply(campaign) \in Nat /\ InRuins(campaign) \in Nat
        /\ campaign.delivered \in Nat /\ before \in Nat
        /\ InShipments(rest) \in Nat /\ after \in Nat
    BY <1>1, <1>2, OreIsNat
  <2>2. before + InShipments(field) = after + InShipments(rest) + value
    OBVIOUS
  <2>3. /\ OreOf(campaign, field)
             = before + InShipments(field) + InSupply(campaign) + campaign.delivered
               + InRuins(campaign)
        /\ OreOf(campaign', rest)
             = after + InShipments(rest) + InSupply(campaign') + campaign'.delivered
               + InRuins(campaign')
    BY DEF OreOf
  <2> HIDE DEF before, after
  <2> QED BY <1>3, <1>4, <1>5, <1>7, <1>8, <2>1, <2>2, <2>3
<1>10. NumbersAreGiven(campaign', rest)
  <2>1. \A m \in field.shipments : m.source \in Places
    BY <1>2 DEF Fields, Shipments
  <2> QED BY <1>1, <1>5, <2>1 DEF OreFine, NumbersAreGiven
<1>11. OreFine(campaign', rest)
  BY <1>1, <1>9, <1>10 DEF OreFine
<1> QED BY <1>1, <1>5, <1>11, TheBooks

LEMMA DeliveriesKeepOre ==
  ASSUME FrontierInv, OreInv, NEW p \in Places,
         DeliverRock(p) \/ \E m \in field.shipments : DeliverShipment(m, p)
  PROVE  OreInv'
<1>1. FrontierInv'
  BY DeliveriesInv
<1>2. field \in Fields /\ field.shipments \in SUBSET Shipments /\ IsFiniteSet(field.shipments)
  BY DEF FrontierInv, FrontierTypeOK, Fields, OreInv, NumbersAreGiven
<1>3. CASE DeliverRock(p)
  <2> DEFINE rest == [field EXCEPT !.rocks = @ - 1]
  <2>1. field.rocks \in Nat /\ field.rocks > 0
    BY <1>2, <1>3 DEF DeliverRock, Fields
  <2>2. rest \in Fields /\ rest.shipments = field.shipments /\ rest.destroyed = field.destroyed
        /\ rest.yielded = field.yielded /\ rest.rocks = field.rocks - 1
    BY <1>2, <2>1 DEF Fields
  <2>3. Deliver(rest, RockValue, p)
    BY <1>3 DEF DeliverRock
  <2> HIDE DEF rest
  <2>4. field.rocks * RockValue = rest.rocks * RockValue + RockValue
    <3>1. rest.rocks \in Nat /\ field.rocks = rest.rocks + 1
      BY <2>1, <2>2
    <3> QED BY <3>1, OneRock
  <2>5. InShipments(rest) = InShipments(field) /\ InShipments(field) \in Nat
        /\ rest.rocks * RockValue \in Nat /\ RockValue \in Nat
    BY <1>2, <2>2, OreIsNat, PricesAre DEF InShipments, FrontierInv, FrontierTypeOK
  <2>6. field.rocks * RockValue + InShipments(field)
          = rest.rocks * RockValue + InShipments(rest) + RockValue
    BY <2>4, <2>5
  <2> QED BY <1>1, <1>2, <2>2, <2>3, <2>5, <2>6, DeliverKeepsOre
<1>4. ASSUME NEW m \in field.shipments, DeliverShipment(m, p) PROVE OreInv'
  <2> DEFINE rest == [field EXCEPT !.shipments = @ \ {m}]
  <2>1. rest \in Fields /\ rest.shipments = field.shipments \ {m}
        /\ rest.destroyed = field.destroyed
        /\ rest.yielded = field.yielded /\ rest.rocks = field.rocks
    BY <1>2 DEF Fields
  <2>2. Deliver(rest, m.value, p)
    BY <1>4 DEF DeliverShipment
  <2> HIDE DEF rest
  <2>3. m.value \in Nat
    BY <1>2 DEF Shipments
  <2>4. InShipments(field) = m.value + InShipments(rest) /\ IsFiniteSet(rest.shipments)
    BY <1>2, <2>1, ShipmentLess DEF InShipments
  <2>5. InShipments(rest) \in Nat /\ rest.rocks * RockValue \in Nat
    BY <1>2, <2>1, <2>4, OreIsNat DEF FrontierInv, FrontierTypeOK
  <2>6. field.rocks * RockValue + InShipments(field)
          = rest.rocks * RockValue + InShipments(rest) + m.value
    BY <2>1, <2>3, <2>4, <2>5
  <2>7. rest.shipments \subseteq field.shipments
    BY <2>1
  <2> QED BY <1>1, <2>1, <2>2, <2>3, <2>4, <2>6, <2>7, DeliverKeepsOre
<1> QED BY <1>3, <1>4

\* A shipment has a new number, so that it replaces none, and the place gives what it is
\* worth.
LEMMA WithdrawKeepsOre ==
  ASSUME FrontierInv, OreInv, NEW p \in Places, Withdraw(p)
  PROVE  OreInv'
<1> DEFINE ledger == campaign.supply[p]
           value == Smaller(ShipmentValue, ledger.available)
           others == {m \in field.shipments : ~(m.source = p /\ m.number = ledger.next)}
           new == [source |-> p, number |-> ledger.next, value |-> value]
           left == [available |-> ledger.available - value, next |-> NextNumber(ledger.next)]
<1>1. FrontierInv'
  BY WithdrawInv
<1>2. /\ OreFine(campaign, field) /\ OreFine(disk.campaign, disk.field)
      /\ IsFiniteSet(field.shipments)
      /\ \A m \in field.shipments : m.number < campaign.supply[m.source].next
  BY TheBooks DEF OreFine, NumbersAreGiven
<1>3. /\ campaign \in Campaigns /\ field \in Fields /\ field.shipments \in SUBSET Shipments
      /\ campaign' \in Campaigns /\ field' \in Fields /\ field'.shipments \in SUBSET Shipments
  BY <1>1 DEF FrontierInv, FrontierTypeOK, Fields
<1>4. ledger.available \in Nat /\ ledger.next \in Nat
  BY CampaignIs DEF Ledgers
<1>5. value \in Nat /\ value <= ledger.available
  BY <1>4, PricesAre DEF Smaller
<1>6. others = field.shipments /\ new \notin field.shipments
  BY <1>2, <1>4
<1>7. /\ field' = [field EXCEPT !.shipments = others \cup {new}]
      /\ campaign' = [campaign EXCEPT !.supply[p] = left]
      /\ disk' = disk
  BY DEF Withdraw
<1>8. new.value = value /\ new.source = p /\ new.number = ledger.next
      /\ left.available = ledger.available - value /\ left.next = ledger.next + 1
  BY DEF NextNumber
<1> HIDE DEF others, new, left, value
<1>9. /\ field'.shipments = field.shipments \cup {new} /\ field'.rocks = field.rocks
      /\ field'.destroyed = field.destroyed /\ field'.yielded = field.yielded
  BY <1>3, <1>6, <1>7 DEF Fields
<1>10. /\ campaign'.supply[p] = left /\ campaign'.delivered = campaign.delivered
       /\ campaign'.hive = campaign.hive
       /\ \A q \in Places \ {p} : campaign'.supply[q] = campaign.supply[q]
  BY <1>7, CampaignIs
<1>11. IsFiniteSet(field'.shipments) /\ InShipments(field') = value + InShipments(field)
  <2>1. IsFiniteSet(field'.shipments)
    BY <1>2, <1>9, FS_AddElement
  <2>2. new \in field'.shipments /\ field'.shipments \ {new} = field.shipments
    BY <1>6, <1>9
  <2>3. Total([n \in field'.shipments |-> n.value])
          = new.value + Total([n \in field'.shipments \ {new} |-> n.value])
    BY <1>3, <2>1, <2>2, ShipmentLess
  <2> QED BY <1>8, <2>1, <2>2, <2>3 DEF InShipments
<1>12. /\ InShipments(field) \in Nat /\ InSupply(campaign) \in Nat /\ InRuins(campaign) \in Nat
       /\ campaign.delivered \in Nat /\ field.rocks * RockValue \in Nat
       /\ InSupply(campaign') \in Nat
  BY <1>2, <1>3, <1>11, OreIsNat
<1>13. InSupply(campaign') + value = InSupply(campaign)
  <2>1. InSupply(campaign') + campaign.supply[p].available
          = InSupply(campaign) + campaign'.supply[p].available
    BY <1>3, <1>10, SupplyAt
  <2> QED BY <1>4, <1>5, <1>8, <1>10, <1>12, <2>1
<1>14. InRuins(campaign') = InRuins(campaign)
  BY <1>10 DEF InRuins
<1>15. OreOf(campaign', field') = OreOf(campaign, field)
  BY <1>5, <1>9, <1>10, <1>11, <1>12, <1>13, <1>14 DEF OreOf
<1>16. NumbersAreGiven(campaign', field')
  <2>1. \A m \in field.shipments : m.source \in Places /\ m.number \in Nat
    BY <1>3 DEF Shipments
  <2>2. \A m \in field.shipments : m.number < campaign'.supply[m.source].next
    BY <1>2, <1>4, <1>8, <1>10, <2>1
  <2>3. new.number < campaign'.supply[new.source].next
    BY <1>4, <1>8, <1>10
  <2> QED BY <1>9, <1>11, <2>2, <2>3 DEF NumbersAreGiven
<1>17. OreFine(campaign', field')
  BY <1>2, <1>9, <1>15, <1>16 DEF OreFine
<1> QED BY <1>2, <1>7, <1>17, TheBooks

\* A batch carries all of memory, and a restart takes all of the disk.
LEMMA TheRestKeepsOre ==
  ASSUME FrontierInv, OreInv, Elapse \/ WriteBatch \/ Restart
  PROVE  OreInv'
<1>1. OreFine(campaign, field) /\ OreFine(disk.campaign, disk.field)
  BY TheBooks
<1>2. CASE Elapse
  <2>1. CampaignFine(campaign) /\ CampaignFine(disk.campaign)
    BY FrontierParts
  <2>2. /\ campaign' = AgedCampaign(campaign) /\ disk'.campaign = AgedCampaign(disk.campaign)
        /\ field' = field /\ disk'.field = disk.field
    BY <1>2 DEF Elapse, FrontierInv, FrontierTypeOK
  <2>3. ASSUME NEW c, CampaignFine(c), NEW f, OreFine(c, f)
        PROVE  OreFine(AgedCampaign(c), f)
    <3>1. \A s \in Sites : AgedCampaign(c).hive[s].restored = c.hive[s].restored
      <4>1. \A h \in Hives : Aged(h).restored = h.restored
        BY DEF Aged, Hives
      <4>2. \A s \in Sites : c.hive[s] \in Hives
        BY <2>3 DEF CampaignFine, Campaigns
      <4> QED BY <2>3, <4>1, <4>2, AgedCampaignFine
    <3>2. AgedCampaign(c).supply = c.supply /\ AgedCampaign(c).delivered = c.delivered
      BY <2>3, AgedCampaignFine
    <3> QED BY <2>3, <3>1, <3>2, SameOre
  <2> QED BY <1>1, <2>1, <2>2, <2>3, TheBooks
<1>3. CASE WriteBatch
  BY <1>1, <1>3, BatchIsTheCampaign, TheBooks DEF WriteBatch
<1>4. CASE Restart
  BY <1>1, <1>4, TheBooks DEF Restart
<1> QED BY <1>2, <1>3, <1>4

LEMMA OreAtFirst ==
  ASSUME FrontierInit
  PROVE  OreInv
<1> DEFINE none == [p \in Places |-> [available |-> 0, next |-> 0]]
<1>1. /\ field.rocks = 0 /\ field.shipments = {} /\ field.yielded = 0 /\ field.destroyed = 0
      /\ campaign.delivered = 0
      /\ \A p \in Places : campaign.supply[p].available = 0
      /\ \A s \in Sites : campaign.hive[s].restored = 0
      /\ disk.campaign = campaign /\ disk.field = field
  BY DEF FrontierInit, NoHive, NewHive
<1>2. \A S, w : (w \in [S -> Nat] /\ \A x \in S : w[x] = 0) => Total(w) = 0
  <2> SUFFICES ASSUME NEW S, NEW w \in [S -> Nat], \A x \in S : w[x] = 0
               PROVE  Total(w) = 0
    OBVIOUS
  <2>1. Units(w) = {}
    <3>1. \A x \in S : {x} \X (1 .. w[x]) = {}
      OBVIOUS
    <3> QED BY <3>1, UnitsAre
  <2> QED BY <2>1, FS_EmptySet DEF Total
<1>3. InShipments(field) = 0 /\ InSupply(campaign) = 0 /\ InRuins(campaign) = 0
  <2>1. /\ [m \in field.shipments |-> m.value] \in [field.shipments -> Nat]
        /\ \A m \in field.shipments : [n \in field.shipments |-> n.value][m] = 0
    BY <1>1
  <2>2. /\ [p \in Places |-> campaign.supply[p].available] \in [Places -> Nat]
        /\ \A p \in Places : [q \in Places |-> campaign.supply[q].available][p] = 0
    BY <1>1
  <2>3. /\ [s \in Sites |-> campaign.hive[s].restored] \in [Sites -> Nat]
        /\ \A s \in Sites : [t \in Sites |-> campaign.hive[t].restored][s] = 0
    BY <1>1
  <2> QED BY <1>2, <2>1, <2>2, <2>3 DEF InShipments, InSupply, InRuins
<1>4. field.rocks * RockValue = 0
  BY <1>1, PricesAre
<1>5. OreOf(campaign, field) + field.destroyed = field.yielded
  BY <1>1, <1>3, <1>4 DEF OreOf
<1>6. NumbersAreGiven(campaign, field)
  BY <1>1, FS_EmptySet DEF NumbersAreGiven
<1> QED BY <1>1, <1>5, <1>6 DEF OreInv, OreIsHeldOnce


-----------------------------------------------------------------------------
(* The frontier.                                                           *)

LEMMA FrontierAtFirst == FrontierInit => FrontierInv
<1> SUFFICES ASSUME FrontierInit PROVE FrontierInv
  OBVIOUS
<1>1. /\ campaign = [supply |-> [p \in Places |-> [available |-> 0, next |-> 0]],
                     delivered |-> 0, scanned |-> FALSE, hive |-> [s \in Sites |-> NoHive]]
      /\ disk = [campaign |-> campaign, field |-> field]
      /\ changed = {} /\ cleared = {} /\ lit = {} /\ active = {} /\ late = 0
      /\ field = [rocks |-> 0, shipments |-> {}, yielded |-> 0, destroyed |-> 0]
  BY DEF FrontierInit
<1>2. HiveFine(NoHive) /\ ~NoHive.known /\ ~NoHive.cleared /\ ~NoHive.commissioned
  BY FreshHive
<1> DEFINE S == [p \in Places |-> [available |-> 0, next |-> 0]]
           X == [s \in Sites |-> NoHive]
<1>3. S \in [Places -> Ledgers] /\ X \in [Sites -> Hives] /\ \A s \in Sites : X[s] = NoHive
  BY <1>2 DEF Ledgers, HiveFine
<1>4. 0 \in 0 .. ScannerValue /\ FALSE \in BOOLEAN /\ (FALSE <=> 0 = ScannerValue)
  BY PricesAre
<1>5. /\ \A s \in Sites : HiveFine(X[s])
      /\ \A s \in Expanded : X[s].known => FALSE
  BY <1>2, <1>3, FrontierAssumption
<1>6. campaign = [supply |-> S, delivered |-> 0, scanned |-> FALSE, hive |-> X]
  BY <1>1
<1>7. \A s \in Sites : campaign.hive[s] = NoHive
  BY <1>3, <1>6
<1> HIDE DEF S, X
<1>8. CampaignFine(campaign)
  BY <1>3, <1>4, <1>5, <1>6, TheCampaign
<1>9. disk.campaign = campaign /\ disk.field = field
  BY <1>1
<1>10. field \in Fields
  BY <1>1 DEF Fields
<1>11. RestFine
  <2>1. late \in 0 .. MaxLate
    BY <1>1, PricesAre
  <2>2. DiskIsBehind
    BY <1>2, <1>7, <1>9 DEF DiskIsBehind
  <2> QED BY <1>1, <1>2, <1>7, <1>8, <1>9, <1>10, <2>1, <2>2
          DEF RestFine, CampaignFine, ActiveAreCurrent
<1> QED BY <1>8, <1>9, <1>11, FrontierParts

\* What one step does to the hives: the inductive invariant stays, and a hive counts
\* as completed only if its sacs were within a window at the last frame.
LEMMA FrontierSteps ==
  ASSUME FrontierInv, [FrontierNext]_frontierVars
  PROVE  /\ FrontierInv'
         /\ \A s \in Sites : ~campaign.hive[s].completed /\ campaign'.hive[s].completed
              => \A i \in Sacs : campaign'.hive[s].fell[i] < SacWindow + late
<1>1. CASE \E near \in SUBSET Sites : Advance(near)
  BY <1>1, AdvanceInv
<1>2. CASE \E s \in Sites : HitQueen(s)
  BY <1>2, HitQueenInv
<1>3. CASE \E s \in Sites, i \in Sacs : HitSac(s, i)
  BY <1>3, HitSacInv
<1>4. CASE Regrow \/ DestroyRock \/ \E m \in field.shipments : DestroyShipment(m)
  BY <1>4, RocksInv
<1>5. CASE \E p \in Places : DeliverRock(p) \/ \E m \in field.shipments : DeliverShipment(m, p)
  BY <1>5, DeliveriesInv
<1>6. CASE \E p \in Places : Withdraw(p)
  BY <1>6, WithdrawInv
<1>7. CASE Elapse
  BY <1>7, ElapseInv
<1>8. CASE WriteBatch
  BY <1>8, WriteBatchInv
<1>9. CASE Restart
  BY <1>9, RestartInv
<1>10. CASE UNCHANGED frontierVars
  <2>1. /\ UNCHANGED <<campaign, changed, field>> /\ UNCHANGED <<cleared, lit>>
        /\ UNCHANGED <<active, disk, late>>
    BY <1>10 DEF frontierVars
  <2> QED BY <2>1 DEF FrontierInv, FrontierTypeOK, SavedProgressLoads, DiskIsBehind,
                      ActiveAreCurrent
<1> QED BY <1>1, <1>2, <1>3, <1>4, <1>5, <1>6, <1>7, <1>8, <1>9, <1>10 DEF FrontierNext

\* The inductive invariant of the campaign, its hives, the batch and the disk.
THEOREM FrontierInvHolds == FrontierSpec => []FrontierInv
<1>1. FrontierInv /\ [FrontierNext]_frontierVars => FrontierInv'
  BY FrontierSteps
<1> QED BY FrontierAtFirst, <1>1, PTL DEF FrontierSpec

\* Whatever is saved passes validCooperativeRecord() when the next process loads it, and
\* the sets of cleared and of burning sites agree with the records, restarts included.
THEOREM SavedProgressLoadsHolds == FrontierSpec => []SavedProgressLoads
<1>1. FrontierInv => SavedProgressLoads
  BY DEF FrontierInv
<1> QED BY FrontierInvHolds, <1>1, PTL

\* hit() never looks at the deadline, so a shot between two frames may complete a set
\* late; but advance() lets no late set through a frame: when a hive is completed, every
\* sac had been within its window at the last frame, however late that frame was.
THEOREM LateSacsAreRefilledHolds == FrontierSpec => LateSacsAreRefilled
<1> DEFINE InTime == \A s \in Sites :
                       ~campaign.hive[s].completed /\ campaign'.hive[s].completed
                         => \A i \in Sacs : campaign'.hive[s].fell[i] < SacWindow + late
<1>1. FrontierInv /\ [FrontierNext]_frontierVars => [InTime]_frontierVars
  BY FrontierSteps
<1> QED BY FrontierInvHolds, <1>1, PTL DEF FrontierSpec, LateSacsAreRefilled

\* The dirty keys are enough: checkpointWorld() writes only the records of the changed
\* keys, and the database then holds the whole campaign.
THEOREM BatchesAreWhole ==
  FrontierSpec => [][WriteBatch => disk'.campaign = campaign]_frontierVars
<1>1. FrontierInv => (WriteBatch => disk'.campaign = campaign)
  BY BatchIsTheCampaign DEF WriteBatch
<1>2. FrontierInv /\ [FrontierNext]_frontierVars
        => [WriteBatch => disk'.campaign = campaign]_frontierVars
  BY <1>1
<1> QED BY FrontierInvHolds, <1>2, PTL DEF FrontierSpec

\* The inductive invariant of the books: they balance, and the numbers of shipments that
\* are still to give are free.
THEOREM OreInvHolds == FrontierSpec => []OreInv
<1>1. FrontierInit => OreInv
  BY OreAtFirst
<1>2. ASSUME FrontierInv, OreInv, [FrontierNext]_frontierVars
      PROVE  OreInv'
  <2>1. CASE \/ \E near \in SUBSET Sites : Advance(near)
             \/ \E s \in Sites : HitQueen(s)
             \/ \E s \in Sites, i \in Sacs : HitSac(s, i)
    BY <1>2, <2>1, HivesKeepOre
  <2>2. CASE Regrow \/ DestroyRock \/ \E m \in field.shipments : DestroyShipment(m)
    BY <1>2, <2>2, RocksKeepOre
  <2>3. CASE \E p \in Places : DeliverRock(p) \/ \E m \in field.shipments : DeliverShipment(m, p)
    BY <1>2, <2>3, DeliveriesKeepOre
  <2>4. CASE \E p \in Places : Withdraw(p)
    BY <1>2, <2>4, WithdrawKeepsOre
  <2>5. CASE Elapse \/ WriteBatch \/ Restart
    BY <1>2, <2>5, TheRestKeepsOre
  <2>6. CASE UNCHANGED frontierVars
    <3>1. UNCHANGED <<campaign, field, disk>>
      BY <2>6 DEF frontierVars
    <3> QED BY <1>2, <3>1 DEF OreInv, OreIsHeldOnce
  <2> QED BY <1>2, <2>1, <2>2, <2>3, <2>4, <2>5, <2>6 DEF FrontierNext
<1> QED BY <1>1, <1>2, FrontierInvHolds, PTL DEF FrontierSpec

\* Every unit of ore is in one place, in memory and in what a crash at any moment leaves.
THEOREM OreIsHeldOnceHolds == FrontierSpec => []OreIsHeldOnce
<1>1. OreInv => OreIsHeldOnce
  BY DEF OreInv
<1> QED BY OreInvHolds, <1>1, PTL

==============================================================================
