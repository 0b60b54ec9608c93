----------------------------- MODULE ServerProofs -----------------------------
(***************************************************************************)
(* Proofs about the two parts of the server that MCServer checks.          *)
(*                                                                         *)
(* EngineWriter: its inductive invariant, what a crash and a clean exit    *)
(* can lose, and that the adapter and the writer thread keep the promise   *)
(* of BatchLog, for every number of batches.                               *)
(*                                                                         *)
(* SnapshotStream: its inductive invariant, what receipts and the next     *)
(* frame can rely on, that the pilot sees what WorldView promises, and     *)
(* that the window charges exactly the frames in flight, for every number  *)
(* of worlds, frames in flight, faults and sockets, and every size.        *)
(***************************************************************************)
EXTENDS EngineWriter, SnapshotStream, AmountsProofs, SequenceTheorems

-----------------------------------------------------------------------------
(* Ports.                                                                  *)

\* A port is read at its head.
LEMMA ReadHead ==
  ASSUME NEW S, NEW s \in Seq(S), s # <<>>
  PROVE  /\ Head(s) \in S /\ Head(s) = s[1]
         /\ Tail(s) \in Seq(S) /\ Len(Tail(s)) = Len(s) - 1 /\ Len(s) \in Nat \ {0}
         /\ \A i \in 1 .. Len(s) - 1 : Tail(s)[i] = s[i + 1]
  BY HeadTailProperties

\* A message is put behind the others.
LEMMA PutLast ==
  ASSUME NEW S, NEW s \in Seq(S), NEW e \in S
  PROVE  /\ Append(s, e) \in Seq(S) /\ Len(Append(s, e)) = Len(s) + 1 /\ Len(s) \in Nat
         /\ \A i \in 1 .. Len(s) : Append(s, e)[i] = s[i]
         /\ Append(s, e)[Len(s) + 1] = e
  BY AppendProperties

\* Two messages, and three.
LEMMA PutTwo ==
  ASSUME NEW S, NEW s \in Seq(S), NEW a \in S, NEW b \in S
  PROVE  /\ s \o <<a, b>> \in Seq(S) /\ Len(s \o <<a, b>>) = Len(s) + 2 /\ Len(s) \in Nat
         /\ \A i \in 1 .. Len(s) : (s \o <<a, b>>)[i] = s[i]
         /\ (s \o <<a, b>>)[Len(s) + 1] = a
         /\ (s \o <<a, b>>)[Len(s) + 2] = b
<1>1. <<a, b>> \in Seq(S) /\ Len(<<a, b>>) = 2 /\ <<a, b>>[1] = a /\ <<a, b>>[2] = b
  OBVIOUS
<1> QED BY <1>1, ConcatProperties

LEMMA PutThree ==
  ASSUME NEW S, NEW s \in Seq(S), NEW a \in S, NEW b \in S, NEW c \in S
  PROVE  /\ s \o <<a, b, c>> \in Seq(S) /\ Len(s \o <<a, b, c>>) = Len(s) + 3 /\ Len(s) \in Nat
         /\ \A i \in 1 .. Len(s) : (s \o <<a, b, c>>)[i] = s[i]
         /\ (s \o <<a, b, c>>)[Len(s) + 1] = a
         /\ (s \o <<a, b, c>>)[Len(s) + 2] = b
         /\ (s \o <<a, b, c>>)[Len(s) + 3] = c
<1>1. /\ <<a, b, c>> \in Seq(S) /\ Len(<<a, b, c>>) = 3
      /\ <<a, b, c>>[1] = a /\ <<a, b, c>>[2] = b /\ <<a, b, c>>[3] = c
  OBVIOUS
<1> QED BY <1>1, ConcatProperties

LEMMA TheEvents ==
  /\ \A b \in Nat : Done(b) \in Events /\ Done(b).type = "done" /\ Done(b).batch = b
  /\ Failed \in Events /\ Failed.type = "failed"
  /\ Error \in Events /\ Error.type = "error"
  /\ Exit \in Events /\ Exit.type = "exit"
  /\ \A e \in Events : e.type \in {"done", "failed", "error", "exit"}
                       /\ (e.type = "done" => e.batch \in Nat)
  BY DEF Events, Done, Failed, Error, Exit, Requests

-----------------------------------------------------------------------------
(* The inductive invariant.                                                *)

LEMMA InitInv == EngineInit => IInv
<1> SUFFICES ASSUME EngineInit PROVE IInv
  OBVIOUS
<1> USE DEF EngineInit, WriterInit
<1>1. WriterTypeOK
  <2>1. toWorker \in Seq(Requests) /\ toGame \in Seq(Events)
    OBVIOUS
  <2>2. handed \in Nat /\ pending \subseteq 1 .. handed /\ db \subseteq 1 .. handed
        /\ writing \in 0 .. handed
    BY DEF NoBatch
  <2>3. /\ waited \in BOOLEAN /\ failure \in BOOLEAN /\ spoiled \in BOOLEAN
        /\ terminated \in BOOLEAN /\ closing \in Closings /\ worker \in WorkerStates
    BY DEF Closings, WorkerStates
  <2> QED BY <2>1, <2>2, <2>3 DEF WriterTypeOK
<1>2. EngineTypeOK
  BY <1>1 DEF EngineTypeOK, Phases
<1>3. PortsMatch
  <2>1. 0 \in 0 .. handed /\ db = 1 .. 0 /\ Len(toWorker) = 0
    OBVIOUS
  <2> QED BY <2>1 DEF PortsMatch
<1>4. RepliesAreTrue /\ AdapterIsRight /\ StopIsOrderly
  BY DEF RepliesAreTrue, AdapterIsRight, StopIsOrderly
<1>5. CrashLosesOneBatch /\ ExitIsClean
  BY DEF CrashLosesOneBatch, ExitIsClean
<1> QED BY <1>1, <1>2, <1>3, <1>4, <1>5 DEF IInv, WriterInv

-----------------------------------------------------------------------------
(* Steps of the writer thread.                                             *)

\* Bad news stays in the port until it is read.
LEMMA NewsStays ==
  ASSUME toGame \in Seq(Events), toGame' \in Seq(Events),
         Len(toGame') >= Len(toGame),
         \A i \in 1 .. Len(toGame) : toGame'[i] = toGame[i]
  PROVE  BadNews(Len(toGame) + 1) => BadNews(Len(toGame) + 1)'
  BY DEF BadNews

\* A thread that has not ended has not said so, and what it says besides is kept.
LEMMA EarlierReplies ==
  ASSUME WriterInv, worker # "gone",
         toGame' \in Seq(Events), Len(toGame') >= Len(toGame),
         \A i \in 1 .. Len(toGame) : toGame'[i] = toGame[i],
         db \subseteq db'
  PROVE  \A k \in 1 .. Len(toGame) :
            /\ toGame'[k].type = "done" => toGame'[k].batch \in db' \cup {ShutdownRequest}
            /\ toGame'[k].type # "exit"
  BY DEF WriterInv, RepliesAreTrue

LEMMA StartInv ==
  ASSUME WriterInv, Start
  PROVE  WriterInv'
<1> USE DEF Start, adapterVars
<1>1. WriterTypeOK'
  BY DEF WriterInv, WriterTypeOK, WorkerStates
<1>2. PortsMatch'
  <2>1. PICK n \in 0 .. handed : PortsMatch!(n)
    BY DEF WriterInv, PortsMatch
  <2> QED BY <2>1 DEF PortsMatch
<1>3. RepliesAreTrue'
  BY DEF WriterInv, RepliesAreTrue, AllLanded, BadNews
<1>4. AdapterIsRight' /\ CrashLosesOneBatch'
  BY DEF WriterInv, AdapterIsRight, AllLanded, BadNews, CrashLosesOneBatch
<1> QED BY <1>1, <1>2, <1>3, <1>4 DEF WriterInv

LEMMA StartFailsInv ==
  ASSUME WriterInv, StartFails
  PROVE  WriterInv'
<1> USE DEF StartFails, adapterVars
<1>1. /\ toGame' \in Seq(Events) /\ Len(toGame') = Len(toGame) + 3 /\ Len(toGame) \in Nat
      /\ \A i \in 1 .. Len(toGame) : toGame'[i] = toGame[i]
      /\ toGame'[Len(toGame) + 1] = Failed
      /\ toGame'[Len(toGame) + 2] = Error
      /\ toGame'[Len(toGame) + 3] = Exit
  BY PutThree, TheEvents DEF WriterInv, WriterTypeOK
<1>2. WriterTypeOK'
  BY <1>1 DEF WriterInv, WriterTypeOK, WorkerStates
<1>3. PortsMatch'
  BY DEF WriterInv, PortsMatch
<1>4. RepliesAreTrue'
  <2>1. BadNews(Len(toGame))'
    <3>1. /\ Len(toGame) + 1 \in 1 .. Len(toGame') - 1
          /\ toGame'[Len(toGame) + 1].type \in {"failed", "error"}
      BY <1>1, TheEvents
    <3> QED BY <3>1 DEF BadNews
  <2>2. \A k \in 1 .. Len(toGame) :
           /\ toGame'[k].type = "done" => toGame'[k].batch \in db' \cup {ShutdownRequest}
           /\ toGame'[k].type # "exit"
    BY <1>1, EarlierReplies DEF WriterInv, WriterTypeOK
  <2> QED BY <1>1, <2>1, <2>2, TheEvents DEF WriterInv, WriterTypeOK, RepliesAreTrue
<1>5. AdapterIsRight' /\ CrashLosesOneBatch'
  BY <1>1, NewsStays DEF WriterInv, WriterTypeOK, AdapterIsRight, AllLanded, CrashLosesOneBatch
<1> QED BY <1>2, <1>3, <1>4, <1>5 DEF WriterInv

\* The batch at the head of the port is the oldest that has not landed.
LEMMA TakeInv ==
  ASSUME WriterInv, Take
  PROVE  WriterInv'
<1>1. PICK n \in 0 .. handed : PortsMatch!(n)
  BY DEF WriterInv, PortsMatch
<1>2. /\ worker = "idle" /\ toWorker[1] # ShutdownRequest
      /\ toWorker' \in Seq(Requests) /\ Len(toWorker') = Len(toWorker) - 1
      /\ Len(toWorker) \in Nat \ {0}
      /\ \A i \in 1 .. Len(toWorker) - 1 : toWorker'[i] = toWorker[i + 1]
      /\ Head(toWorker) = toWorker[1]
  BY ReadHead DEF Take, Serving, WriterInv, WriterTypeOK
<1>3. UNCHANGED <<handed, pending, waited, failure, closing, spoiled, terminated, db>>
  BY DEF Take, adapterVars
<1>4. CASE ~spoiled
  <2>1. worker' = "writing" /\ writing' = toWorker[1] /\ toGame' = toGame
    BY <1>2, <1>4 DEF Take
  <2>2. toWorker[1] = n + 1 /\ n + 1 <= handed /\ handed \in Nat
    BY <1>1, <1>2, <1>4 DEF WriterInv, WriterTypeOK
  <2>3. WriterTypeOK'
    BY <1>2, <1>3, <2>1, <2>2 DEF WriterInv, WriterTypeOK, WorkerStates
  <2>4. PortsMatch'
    <3>1. \A i \in 1 .. Len(toWorker') : toWorker'[i] # ShutdownRequest
                                          => toWorker'[i] = (n + 1) + i
      BY <1>1, <1>2, <1>4
    <3>2. \A i \in 1 .. Len(toWorker') : toWorker'[i] = ShutdownRequest
            => i = Len(toWorker') /\ closing # "open" /\ handed = (n + 1) + i - 1
      BY <1>1, <1>2, <1>4
    <3>3. (\A i \in 1 .. Len(toWorker') : toWorker'[i] # ShutdownRequest)
            => handed = (n + 1) + Len(toWorker')
      <4>1. SUFFICES ASSUME \A i \in 1 .. Len(toWorker') : toWorker'[i] # ShutdownRequest
                     PROVE  \A i \in 1 .. Len(toWorker) : toWorker[i] # ShutdownRequest
        BY <1>1, <1>2, <1>4
      <4>2. TAKE i \in 1 .. Len(toWorker)
      <4>3. CASE i = 1
        BY <1>2, <4>3
      <4>4. CASE i # 1
        <5>1. i - 1 \in 1 .. Len(toWorker') /\ toWorker'[i - 1] = toWorker[(i - 1) + 1]
          BY <1>2, <4>4
        <5>2. (i - 1) + 1 = i
          BY <1>2
        <5> QED BY <4>1, <5>1, <5>2
      <4> QED BY <4>3, <4>4
    <3> QED BY <1>1, <1>3, <1>4, <2>1, <2>2, <3>1, <3>2, <3>3 DEF PortsMatch
  <2>5. RepliesAreTrue'
    BY <1>2, <1>3, <2>1 DEF WriterInv, RepliesAreTrue, AllLanded, BadNews
  <2>6. AdapterIsRight' /\ CrashLosesOneBatch'
    BY <1>2, <1>3, <2>1 DEF WriterInv, AdapterIsRight, AllLanded, BadNews, CrashLosesOneBatch
  <2> QED BY <2>3, <2>4, <2>5, <2>6 DEF WriterInv
<1>5. CASE spoiled
  <2>1. worker' = "idle" /\ writing' = writing /\ toGame' = Append(toGame, Failed)
    BY <1>2, <1>5 DEF Take
  <2>2. /\ toGame' \in Seq(Events) /\ Len(toGame') = Len(toGame) + 1 /\ Len(toGame) \in Nat
        /\ \A i \in 1 .. Len(toGame) : toGame'[i] = toGame[i]
        /\ toGame'[Len(toGame) + 1] = Failed
    BY <2>1, PutLast, TheEvents DEF WriterInv, WriterTypeOK
  <2>3. WriterTypeOK'
    BY <1>2, <1>3, <2>1, <2>2 DEF WriterInv, WriterTypeOK, WorkerStates
  <2>4. PortsMatch'
    BY <1>1, <1>3, <1>5, <2>1 DEF PortsMatch
  <2>5. RepliesAreTrue'
    BY <1>2, <1>3, <2>2, EarlierReplies, TheEvents DEF WriterInv, WriterTypeOK, RepliesAreTrue
  <2>6. AdapterIsRight' /\ CrashLosesOneBatch'
    BY <1>2, <1>3, <2>1, <2>2, NewsStays
    DEF WriterInv, WriterTypeOK, AdapterIsRight, AllLanded, CrashLosesOneBatch
  <2> QED BY <2>3, <2>4, <2>5, <2>6 DEF WriterInv
<1> QED BY <1>4, <1>5

LEMMA CommitInv ==
  ASSUME WriterInv, Commit
  PROVE  WriterInv'
<1>1. PICK n \in 0 .. handed : PortsMatch!(n)
  BY DEF WriterInv, PortsMatch
<1>2. /\ worker = "writing" /\ writing = n + 1 /\ n + 1 \in 1 .. handed
      /\ writing' = NoBatch
      /\ db' = 1 .. n + 1
      /\ db \subseteq db'
  BY <1>1 DEF Commit, WriterInv, WriterTypeOK
<1>3. UNCHANGED <<handed, pending, waited, failure, closing, toWorker, spoiled, terminated>>
  BY DEF Commit, adapterVars
<1>4. PICK e \in Events :
        /\ toGame' = Append(toGame, e)
        /\ e.type = "done" => e.batch = n + 1 /\ worker' = "idle"
        /\ e.type = "exit" => worker' = "gone" /\ terminated
        /\ e.type \in {"done", "exit"}
  BY <1>2, TheEvents DEF Commit
<1>5. /\ toGame' \in Seq(Events) /\ Len(toGame') = Len(toGame) + 1 /\ Len(toGame) \in Nat
      /\ \A i \in 1 .. Len(toGame) : toGame'[i] = toGame[i]
      /\ toGame'[Len(toGame) + 1] = e
  BY <1>4, PutLast DEF WriterInv, WriterTypeOK
<1>6. WriterTypeOK'
  BY <1>2, <1>3, <1>4, <1>5 DEF WriterInv, WriterTypeOK, WorkerStates, NoBatch
<1>7. PortsMatch'
  BY <1>1, <1>2, <1>3, <1>4 DEF PortsMatch
<1>8. RepliesAreTrue'
  BY <1>2, <1>3, <1>4, <1>5, EarlierReplies DEF WriterInv, WriterTypeOK, RepliesAreTrue
<1>9. AdapterIsRight' /\ CrashLosesOneBatch'
  BY <1>2, <1>3, <1>4, <1>5, NewsStays
  DEF WriterInv, WriterTypeOK, AdapterIsRight, CrashLosesOneBatch
<1> QED BY <1>6, <1>7, <1>8, <1>9 DEF WriterInv

LEMMA CommitFailsInv ==
  ASSUME WriterInv, CommitFails
  PROVE  WriterInv'
<1> USE DEF CommitFails, adapterVars
<1>1. /\ toGame' \in Seq(Events) /\ Len(toGame') = Len(toGame) + 1 /\ Len(toGame) \in Nat
      /\ \A i \in 1 .. Len(toGame) : toGame'[i] = toGame[i]
      /\ toGame'[Len(toGame) + 1] = Failed
  BY PutLast, TheEvents DEF WriterInv, WriterTypeOK
<1>2. WriterTypeOK'
  BY <1>1 DEF WriterInv, WriterTypeOK, WorkerStates, NoBatch
<1>3. PortsMatch'
  BY DEF WriterInv, PortsMatch
<1>4. RepliesAreTrue'
  BY <1>1, EarlierReplies, TheEvents DEF WriterInv, WriterTypeOK, RepliesAreTrue
<1>5. BadNews(Len(toGame) + 1)'
  BY <1>1, TheEvents DEF BadNews
<1>6. AdapterIsRight' /\ CrashLosesOneBatch'
  BY <1>5 DEF WriterInv, AdapterIsRight, AllLanded, CrashLosesOneBatch
<1> QED BY <1>2, <1>3, <1>4, <1>6 DEF WriterInv

\* A thread that closes has written every batch, or has reported the one that failed.
LEMMA CloseInv ==
  ASSUME WriterInv, Close
  PROVE  WriterInv'
<1>1. PICK n \in 0 .. handed : PortsMatch!(n)
  BY DEF WriterInv, PortsMatch
<1>2. /\ worker = "idle" /\ toWorker[1] = ShutdownRequest
      /\ toWorker' \in Seq(Requests)
      /\ Len(toWorker) \in Nat \ {0}
      /\ worker' = "gone"
  BY ReadHead DEF Close, Serving, WriterInv, WriterTypeOK
<1>3. UNCHANGED <<handed, pending, waited, failure, closing, writing, spoiled, terminated, db>>
  BY DEF Close, adapterVars
<1>4. ~spoiled => AllLanded /\ closing # "open"
  BY <1>1, <1>2 DEF AllLanded, WriterInv, WriterTypeOK
<1>5. PICK answer \in {Done(ShutdownRequest), Failed} : toGame' = toGame \o <<answer, Exit>>
  BY DEF Close
<1>6. /\ toGame' \in Seq(Events) /\ Len(toGame') = Len(toGame) + 2 /\ Len(toGame) \in Nat
      /\ \A i \in 1 .. Len(toGame) : toGame'[i] = toGame[i]
      /\ toGame'[Len(toGame) + 1] = answer
      /\ toGame'[Len(toGame) + 2] = Exit
  BY <1>5, PutTwo, TheEvents DEF WriterInv, WriterTypeOK, ShutdownRequest
<1>7. WriterTypeOK'
  BY <1>2, <1>3, <1>6 DEF WriterInv, WriterTypeOK, WorkerStates
<1>8. PortsMatch'
  BY <1>1, <1>2, <1>3 DEF PortsMatch
<1>9. spoiled => failure \/ BadNews(Len(toGame))'
  <2>1. SUFFICES ASSUME spoiled, ~failure PROVE BadNews(Len(toGame))'
    OBVIOUS
  <2>2. PICK i \in 1 .. Len(toGame) : toGame[i].type \in {"failed", "error"}
    BY <2>1, <1>6 DEF WriterInv, AdapterIsRight, BadNews
  <2> QED BY <2>2, <1>6 DEF BadNews
<1>10. RepliesAreTrue'
  <2> USE DEF RepliesAreTrue
  <2>1. answer.type = "done" => answer.batch = ShutdownRequest
    BY TheEvents DEF ShutdownRequest
  <2>2. TAKE k \in 1 .. Len(toGame')
  <2>3. CASE k \in 1 .. Len(toGame)
    BY <1>2, <1>3, <1>6, <2>3, EarlierReplies DEF WriterInv, WriterTypeOK
  <2>4. CASE k = Len(toGame) + 1
    <3>1. toGame'[k] = answer /\ answer.type # "exit"
      BY <1>5, <1>6, <2>4, TheEvents DEF ShutdownRequest
    <3> QED BY <2>1, <3>1
  <2>5. CASE k = Len(toGame')
    <3>1. toGame'[k].type = "exit" /\ worker' = "gone"
      BY <1>2, <1>6, <2>5, TheEvents
    <3>2. spoiled => failure \/ BadNews(k)'
      BY <1>9, <2>5 DEF BadNews
    <3> QED BY <1>3, <1>4, <3>1, <3>2 DEF AllLanded
  <2> QED BY <1>6, <2>3, <2>4, <2>5
<1>11. AdapterIsRight' /\ CrashLosesOneBatch'
  BY <1>2, <1>3, <1>6, NewsStays
  DEF WriterInv, WriterTypeOK, AdapterIsRight, AllLanded, CrashLosesOneBatch
<1> QED BY <1>7, <1>8, <1>10, <1>11 DEF WriterInv

LEMMA GetStuckInv ==
  ASSUME WriterInv, GetStuck
  PROVE  WriterInv'
<1> USE DEF GetStuck, Serving, adapterVars
<1>1. WriterTypeOK'
  BY DEF WriterInv, WriterTypeOK, WorkerStates
<1>2. PortsMatch'
  BY DEF WriterInv, PortsMatch
<1>3. RepliesAreTrue'
  BY DEF WriterInv, RepliesAreTrue, AllLanded, BadNews
<1>4. AdapterIsRight' /\ CrashLosesOneBatch'
  BY DEF WriterInv, AdapterIsRight, AllLanded, BadNews, CrashLosesOneBatch
<1> QED BY <1>1, <1>2, <1>3, <1>4 DEF WriterInv

LEMMA DieInv ==
  ASSUME WriterInv, Die
  PROVE  WriterInv'
<1> USE DEF Die, adapterVars
<1>1. /\ toGame' \in Seq(Events) /\ Len(toGame') = Len(toGame) + 2 /\ Len(toGame) \in Nat
      /\ \A i \in 1 .. Len(toGame) : toGame'[i] = toGame[i]
      /\ toGame'[Len(toGame) + 1] = Error
      /\ toGame'[Len(toGame) + 2] = Exit
  BY PutTwo, TheEvents DEF WriterInv, WriterTypeOK
<1>2. WriterTypeOK'
  BY <1>1 DEF WriterInv, WriterTypeOK, WorkerStates, NoBatch
<1>3. PortsMatch'
  BY DEF WriterInv, PortsMatch
<1>4. RepliesAreTrue'
  <2>1. BadNews(Len(toGame))'
    <3>1. Len(toGame) + 1 \in 1 .. Len(toGame') - 1
      BY <1>1
    <3>2. toGame'[Len(toGame) + 1].type = "error"
      BY <1>1, TheEvents
    <3> QED BY <3>1, <3>2 DEF BadNews
  <2> QED BY <1>1, <2>1, EarlierReplies, TheEvents DEF WriterInv, WriterTypeOK, RepliesAreTrue
<1>5. AdapterIsRight' /\ CrashLosesOneBatch'
  BY <1>1, NewsStays DEF WriterInv, WriterTypeOK, AdapterIsRight, AllLanded, CrashLosesOneBatch
<1> QED BY <1>2, <1>3, <1>4, <1>5 DEF WriterInv

LEMMA StopInv ==
  ASSUME WriterInv, Stop
  PROVE  WriterInv'
<1> USE DEF Stop, adapterVars
<1>1. /\ toGame' \in Seq(Events) /\ Len(toGame') = Len(toGame) + 1 /\ Len(toGame) \in Nat
      /\ \A i \in 1 .. Len(toGame) : toGame'[i] = toGame[i]
      /\ toGame'[Len(toGame) + 1] = Exit
  BY PutLast, TheEvents DEF WriterInv, WriterTypeOK
<1>2. WriterTypeOK'
  BY <1>1 DEF WriterInv, WriterTypeOK, WorkerStates, NoBatch
<1>3. PortsMatch'
  BY DEF WriterInv, PortsMatch
<1>4. RepliesAreTrue'
  BY <1>1, EarlierReplies, TheEvents DEF WriterInv, WriterTypeOK, RepliesAreTrue
<1>5. AdapterIsRight' /\ CrashLosesOneBatch'
  BY <1>1, NewsStays DEF WriterInv, WriterTypeOK, AdapterIsRight, AllLanded, CrashLosesOneBatch
<1> QED BY <1>2, <1>3, <1>4, <1>5 DEF WriterInv

LEMMA ThreadInv ==
  ASSUME WriterInv, Thread
  PROVE  WriterInv'
BY StartInv, StartFailsInv, TakeInv, CommitInv, CommitFailsInv, CloseInv, GetStuckInv, DieInv,
   StopInv DEF Thread, Opening, Writing

-----------------------------------------------------------------------------
(* Steps of the adapter.                                                   *)

\* What the replies say does not depend on the adapter giving up.
LEMMA FailInv ==
  ASSUME WriterInv, Fail,
         UNCHANGED <<handed, closing, toWorker, toGame, worker, writing, spoiled, db>>,
         terminated' \in BOOLEAN, terminated => terminated'
  PROVE  WriterInv'
<1> USE DEF Fail
<1>1. WriterTypeOK'
  BY DEF WriterInv, WriterTypeOK
<1>2. PortsMatch'
  BY DEF WriterInv, PortsMatch
<1>3. RepliesAreTrue'
  BY DEF WriterInv, RepliesAreTrue, AllLanded, BadNews
<1>4. AdapterIsRight' /\ CrashLosesOneBatch'
  BY DEF WriterInv, AdapterIsRight, AllLanded, CrashLosesOneBatch
<1> QED BY <1>1, <1>2, <1>3, <1>4 DEF WriterInv

\* A batch handed over while none is in flight: every earlier one has landed, unless
\* bad news is on its way.
LEMMA HandedOver ==
  ASSUME WriterInv, Accepting, pending = {},
         handed' = handed + 1, pending' = {handed'},
         UNCHANGED <<failure, toGame, worker, writing, spoiled, terminated, db>>,
         waited' \in BOOLEAN, closing' \in {"open", "draining"},
         \/ toWorker' = Append(toWorker, handed') /\ closing' = "open"
         \/ toWorker' = toWorker \o <<handed', ShutdownRequest>> /\ closing' = "draining"
  PROVE  WriterInv'
<1>1. PICK n \in 0 .. handed : PortsMatch!(n)
  BY DEF WriterInv, PortsMatch
<1>2. handed \in Nat /\ handed' \in Requests /\ ShutdownRequest \in Requests
  BY DEF WriterInv, WriterTypeOK, Requests, ShutdownRequest
<1>3. db = 1 .. handed /\ n = handed /\ ~failure /\ closing = "open"
  <2>1. ~failure /\ closing = "open" /\ 1 .. handed \subseteq db
    BY DEF WriterInv, AdapterIsRight, Accepting
  <2>2. db = 1 .. n /\ n \in 0 .. handed
    BY <1>1
  <2>3. n = handed
    <3>1. handed = 0 \/ handed \in 1 .. n
      BY <1>2, <2>1, <2>2
    <3> QED BY <1>2, <2>2, <3>1
  <2> QED BY <2>1, <2>2, <2>3
<1>4. /\ toWorker \in Seq(Requests) /\ toWorker' \in Seq(Requests) /\ Len(toWorker) \in Nat
      /\ \A i \in 1 .. Len(toWorker) : toWorker'[i] = toWorker[i]
      /\ toWorker'[Len(toWorker) + 1] = handed + 1
      /\ \/ closing' = "open" /\ Len(toWorker') = Len(toWorker) + 1
         \/ /\ closing' = "draining" /\ Len(toWorker') = Len(toWorker) + 2
            /\ toWorker'[Len(toWorker) + 2] = ShutdownRequest
  <2>1. toWorker \in Seq(Requests) /\ handed' = handed + 1
    BY DEF WriterInv, WriterTypeOK
  <2>2. CASE toWorker' = Append(toWorker, handed') /\ closing' = "open"
    BY <1>2, <2>1, <2>2, PutLast
  <2>3. CASE toWorker' = toWorker \o <<handed', ShutdownRequest>> /\ closing' = "draining"
    BY <1>2, <2>1, <2>3, PutTwo
  <2> QED BY <2>2, <2>3
<1>5. WriterTypeOK'
  <2>1. toWorker' \in Seq(Requests) /\ toGame' \in Seq(Events)
    BY <1>4 DEF WriterInv, WriterTypeOK
  <2>2. handed' \in Nat /\ pending' \subseteq 1 .. handed' /\ db' \subseteq 1 .. handed'
        /\ writing' \in 0 .. handed'
    BY <1>2 DEF WriterInv, WriterTypeOK
  <2>3. /\ waited' \in BOOLEAN /\ failure' \in BOOLEAN /\ spoiled' \in BOOLEAN
        /\ terminated' \in BOOLEAN /\ closing' \in Closings /\ worker' \in WorkerStates
    BY DEF WriterInv, WriterTypeOK, Closings
  <2> QED BY <2>1, <2>2, <2>3 DEF WriterTypeOK
<1>6. PortsMatch'
  <2>1. worker # "writing"
    BY <1>1, <1>2, <1>3 DEF WriterInv, WriterTypeOK
  <2>2. ASSUME worker \in {"starting", "idle"}, ~spoiled
        PROVE  Len(toWorker) = 0
    <3>1. \A i \in 1 .. Len(toWorker) : toWorker[i] # ShutdownRequest
      BY <1>1, <1>3, <2>1, <2>2
    <3>2. handed = n + Len(toWorker)
      BY <1>1, <2>1, <2>2, <3>1
    <3> QED BY <1>2, <1>3, <1>4, <3>2
  <2>3. \A i \in 1 .. Len(toWorker') :
            i \in 1 .. Len(toWorker) \/ i = Len(toWorker) + 1 \/ i = Len(toWorker) + 2
    BY <1>4
  <2>4. handed \in 0 .. handed' /\ db' = 1 .. handed /\ worker' # "writing" /\ handed' # 0
    BY <1>2, <1>3, <2>1
  <2>5. SUFFICES ASSUME worker' \in {"starting", "idle"}, ~spoiled'
                 PROVE  /\ \A i \in 1 .. Len(toWorker') : toWorker'[i] # ShutdownRequest
                                                          => toWorker'[i] = handed + i
                        /\ \A i \in 1 .. Len(toWorker') : toWorker'[i] = ShutdownRequest
                              => i = Len(toWorker') /\ closing' # "open"
                                 /\ handed' = handed + i - 1
                        /\ (\A i \in 1 .. Len(toWorker') : toWorker'[i] # ShutdownRequest)
                              => handed' = handed + Len(toWorker')
    BY <2>4 DEF PortsMatch
  <2>6. Len(toWorker) = 0
    BY <2>2, <2>5
  <2> QED BY <1>2, <1>4, <2>3, <2>4, <2>6 DEF ShutdownRequest
<1>7. RepliesAreTrue'
  BY <1>3 DEF WriterInv, RepliesAreTrue, BadNews, AllLanded
<1>8. AdapterIsRight' /\ CrashLosesOneBatch'
  BY <1>2, <1>3 DEF WriterInv, AdapterIsRight, CrashLosesOneBatch, BadNews
<1> QED BY <1>5, <1>6, <1>7, <1>8 DEF WriterInv

\* The engine hands a batch over when none is in flight: the adapter has room for it.
LEMMA PersistInv ==
  ASSUME WriterInv, pending = {}, Persist
  PROVE  WriterInv' /\ UNCHANGED <<failure, closing>> /\ handed' = handed + 1
<1>1. Cardinality(pending) = 0
  BY FS_EmptySet
<1>2. Cardinality(pending) < MaxPending
  BY <1>1, WriterAssumption
<1>3. /\ handed' = handed + 1 /\ pending' = {handed'} /\ toWorker' = Append(toWorker, handed')
      /\ UNCHANGED <<waited, failure, closing, toGame, worker, writing, spoiled, terminated, db>>
  BY <1>1, <1>2, WriterAssumption DEF Persist
<1>4. Accepting /\ closing' = "open" /\ waited' \in BOOLEAN
  BY <1>3 DEF Persist, Accepting, WriterInv, WriterTypeOK
<1> QED BY <1>3, <1>4, HandedOver

LEMMA FinalBatchInv ==
  ASSUME WriterInv, pending = {}, Accepting, FinalBatch
  PROVE  WriterInv'
BY HandedOver DEF FinalBatch, WriterInv, WriterTypeOK

LEMMA WhenIdleInv ==
  ASSUME WriterInv, WhenIdle
  PROVE  WriterInv'
<1> USE DEF WhenIdle
<1>1. WriterTypeOK'
  BY DEF WriterInv, WriterTypeOK
<1>2. PortsMatch' /\ RepliesAreTrue'
  BY DEF WriterInv, PortsMatch, RepliesAreTrue, AllLanded, BadNews
<1>3. AdapterIsRight' /\ CrashLosesOneBatch'
  BY DEF WriterInv, AdapterIsRight, AllLanded, CrashLosesOneBatch, BadNews
<1> QED BY <1>1, <1>2, <1>3 DEF WriterInv

\* A reply is taken out of the port: what it said is kept, and what the others say stays so.
LEMMA ReplyTaken ==
  ASSUME WriterInv, toGame # <<>>, toGame' = Tail(toGame),
         UNCHANGED <<handed, worker, terminated, db>>, failure => failure',
         closing # "open" => closing' # "open",
         toGame[1].type \in {"failed", "error"} => failure'
  PROVE  /\ toGame' \in Seq(Events) /\ Head(toGame) = toGame[1]
         /\ toGame[1] \in Events
         /\ RepliesAreTrue'
         /\ spoiled => failure' \/ BadNews(Len(toGame) + 1)'
<1>1. /\ toGame' \in Seq(Events) /\ Len(toGame') = Len(toGame) - 1 /\ Len(toGame) \in Nat \ {0}
      /\ \A i \in 1 .. Len(toGame) - 1 : toGame'[i] = toGame[i + 1]
      /\ Head(toGame) = toGame[1] /\ toGame[1] \in Events
  BY ReadHead DEF WriterInv, WriterTypeOK
<1>2. ASSUME NEW k \in 1 .. Len(toGame), BadNews(k + 1)
      PROVE  failure' \/ BadNews(k)'
  <2>1. PICK i \in 1 .. k : toGame[i].type \in {"failed", "error"}
    BY <1>2 DEF BadNews
  <2>2. CASE i = 1
    BY <2>1, <2>2
  <2>3. CASE i # 1
    <3>1. i - 1 \in 1 .. k - 1 /\ toGame'[i - 1] = toGame[(i - 1) + 1] /\ (i - 1) + 1 = i
      BY <1>1, <2>3
    <3>2. toGame'[i - 1].type \in {"failed", "error"}
      BY <2>1, <3>1
    <3> QED BY <3>1, <3>2 DEF BadNews
  <2> QED BY <2>2, <2>3
<1>3. RepliesAreTrue'
  <2> USE DEF RepliesAreTrue
  <2>1. TAKE k \in 1 .. Len(toGame')
  <2>2. k \in 1 .. Len(toGame) /\ k + 1 \in 1 .. Len(toGame) /\ toGame'[k] = toGame[k + 1]
    BY <1>1
  <2>3. BadNews(k + 1) => failure' \/ BadNews(k)'
    BY <1>2, <2>2
  <2> QED BY <2>2, <2>3 DEF WriterInv, AllLanded
<1>4. spoiled => failure' \/ BadNews(Len(toGame) + 1)'
  <2>1. BadNews(Len(toGame) + 1) => failure' \/ \E i \in 1 .. Len(toGame) - 1 :
                                                  toGame'[i].type \in {"failed", "error"}
    BY <1>1, <1>2 DEF BadNews
  <2>2. Len(toGame) - 1 = Len(toGame') /\ (Len(toGame') + 1) - 1 = Len(toGame')
    BY <1>1
  <2> QED BY <1>1, <2>1, <2>2 DEF BadNews, WriterInv, AdapterIsRight
<1> QED BY <1>1, <1>3, <1>4

LEMMA ReceiveInv ==
  ASSUME WriterInv, Receive
  PROVE  WriterInv'
<1>1. /\ toGame # <<>> /\ toGame' = Tail(toGame)
      /\ UNCHANGED <<handed, toWorker, worker, writing, spoiled, terminated, db>>
  BY DEF Receive
<1>2. Head(toGame) = toGame[1] /\ toGame[1] \in Events
  BY <1>1, ReadHead DEF WriterInv, WriterTypeOK
<1>3. Len(toGame) \in Nat \ {0} /\ 1 \in 1 .. Len(toGame)
  BY <1>1, ReadHead DEF WriterInv, WriterTypeOK
<1>4. CASE ReceiveDone(Head(toGame))
  <2>1. /\ toGame[1].type = "done" /\ pending' = pending \ {toGame[1].batch}
        /\ waited' = (waited /\ pending' # {}) /\ UNCHANGED <<failure, closing>>
    BY <1>2, <1>4 DEF ReceiveDone
  <2>2. toGame[1].batch \in db \cup {ShutdownRequest}
    BY <1>3, <2>1 DEF WriterInv, RepliesAreTrue
  <2>3. /\ toGame' \in Seq(Events)
        /\ RepliesAreTrue'
        /\ spoiled => failure' \/ BadNews(Len(toGame) + 1)'
    BY <1>1, <2>1, ReplyTaken
  <2>4. WriterTypeOK'
    <3>1. pending' \subseteq 1 .. handed' /\ waited' \in BOOLEAN
      BY <1>1, <2>1 DEF WriterInv, WriterTypeOK
    <3> QED BY <1>1, <2>1, <2>3, <3>1 DEF WriterInv, WriterTypeOK
  <2>5. PortsMatch'
    BY <1>1, <2>1 DEF WriterInv, PortsMatch
  <2>6. AdapterIsRight' /\ CrashLosesOneBatch'
    <3>1. ~failure => 1 .. handed \subseteq db \cup pending'
      <4> SUFFICES ASSUME ~failure, NEW b \in 1 .. handed, b \notin db
                   PROVE  b \in pending'
        OBVIOUS
      <4>1. b \in pending /\ b # ShutdownRequest
        BY DEF WriterInv, AdapterIsRight, WriterTypeOK, ShutdownRequest
      <4> QED BY <2>1, <2>2, <4>1
    <3> QED BY <1>1, <2>1, <2>3, <3>1 DEF WriterInv, AdapterIsRight, AllLanded, CrashLosesOneBatch
  <2> QED BY <2>3, <2>4, <2>5, <2>6 DEF WriterInv
<1>5. CASE ReceiveFailure(Head(toGame))
  <2>1. Fail /\ UNCHANGED closing /\ failure'
    BY <1>5 DEF ReceiveFailure, Fail
  <2>2. toGame' \in Seq(Events) /\ RepliesAreTrue'
    BY <1>1, <2>1, ReplyTaken
  <2>3. WriterTypeOK'
    BY <1>1, <2>1, <2>2 DEF WriterInv, WriterTypeOK, Fail
  <2>4. PortsMatch'
    BY <1>1, <2>1 DEF WriterInv, PortsMatch
  <2>5. AdapterIsRight' /\ CrashLosesOneBatch'
    BY <1>1, <2>1 DEF WriterInv, AdapterIsRight, AllLanded, CrashLosesOneBatch
  <2> QED BY <2>2, <2>3, <2>4, <2>5 DEF WriterInv
<1>6. CASE ReceiveExit(Head(toGame))
  <2>1. toGame[1].type = "exit" /\ worker = "gone"
    BY <1>2, <1>3, <1>6 DEF ReceiveExit, WriterInv, RepliesAreTrue
  <2>2. terminated \/ failure \/ (AllLanded /\ closing # "open")
    <3>1. ~BadNews(1)
      BY DEF BadNews
    <3> QED BY <1>3, <2>1, <3>1 DEF WriterInv, RepliesAreTrue
  <2>3. failure => failure'
    BY <1>6 DEF ReceiveExit, Fail
  <2>4. closing # "open" => closing' # "open"
    BY <1>6 DEF ReceiveExit, Fail
  <2>5. /\ toGame' \in Seq(Events)
        /\ RepliesAreTrue'
        /\ spoiled => failure' \/ BadNews(Len(toGame) + 1)'
    BY <1>1, <2>1, <2>3, <2>4, ReplyTaken
  <2>6. WriterTypeOK'
    <3>1. /\ pending' \subseteq 1 .. handed /\ waited' \in BOOLEAN /\ failure' \in BOOLEAN
          /\ closing' \in Closings
      BY <1>6 DEF ReceiveExit, Fail, WriterInv, WriterTypeOK, Closings
    <3> QED BY <1>1, <2>5, <3>1 DEF WriterInv, WriterTypeOK
  <2>7. PortsMatch'
    BY <1>1, <2>4 DEF WriterInv, PortsMatch
  <2>8. AdapterIsRight' /\ CrashLosesOneBatch'
    <3>1. CrashLosesOneBatch'
      BY <1>1 DEF WriterInv, CrashLosesOneBatch
    <3>2. CASE closing = "open" /\ Fail /\ UNCHANGED closing
      BY <1>1, <2>1, <3>1, <3>2 DEF WriterInv, AdapterIsRight, AllLanded, Fail
    <3>3. CASE /\ closing = "draining"
               /\ closing' = IF failure THEN "rejected" ELSE "resolved"
               /\ UNCHANGED <<pending, waited, failure>>
      <4>1. ~failure => AllLanded /\ ~terminated
        BY <2>2, <3>3 DEF WriterInv, AdapterIsRight
      <4> QED BY <1>1, <2>1, <2>5, <3>1, <3>3, <4>1 DEF WriterInv, AdapterIsRight, AllLanded
    <3>4. CASE closing \notin {"open", "draining"} /\ UNCHANGED <<pending, waited, failure, closing>>
      BY <1>1, <2>5, <3>1, <3>4 DEF WriterInv, AdapterIsRight, AllLanded
    <3> QED BY <1>6, <3>2, <3>3, <3>4 DEF ReceiveExit
  <2> QED BY <2>5, <2>6, <2>7, <2>8 DEF WriterInv
<1> QED BY <1>4, <1>5, <1>6 DEF Receive

LEMMA AdapterInv ==
  ASSUME WriterInv, Adapter
  PROVE  WriterInv'
<1>1. CASE Receive
  BY <1>1, ReceiveInv
<1>2. CASE Stall
  BY <1>2, FailInv DEF Stall, WriterInv, WriterTypeOK
<1>3. CASE TerminateSettles
  <2> USE <1>3 DEF TerminateSettles
  <2>1. WriterTypeOK'
    BY DEF WriterInv, WriterTypeOK, Closings
  <2>2. PortsMatch' /\ RepliesAreTrue'
    BY DEF WriterInv, PortsMatch, RepliesAreTrue, AllLanded, BadNews
  <2>3. AdapterIsRight' /\ CrashLosesOneBatch'
    BY DEF WriterInv, AdapterIsRight, AllLanded, CrashLosesOneBatch, BadNews
  <2> QED BY <2>1, <2>2, <2>3 DEF WriterInv
<1>4. CASE Deadline
  <2> USE <1>4 DEF Deadline
  <2>1. WriterTypeOK'
    BY DEF WriterInv, WriterTypeOK, Closings
  <2>2. PortsMatch'
    BY DEF WriterInv, PortsMatch
  <2>3. RepliesAreTrue'
    BY DEF WriterInv, RepliesAreTrue, AllLanded, BadNews
  <2>4. AdapterIsRight' /\ CrashLosesOneBatch'
    BY DEF WriterInv, AdapterIsRight, AllLanded, CrashLosesOneBatch, BadNews
  <2> QED BY <2>1, <2>2, <2>3, <2>4 DEF WriterInv
<1> QED BY <1>1, <1>2, <1>3, <1>4 DEF Adapter

\* shutdown of the adapter, without a batch.
LEMMA ShutdownInv ==
  ASSUME WriterInv, Shutdown
  PROVE  WriterInv'
<1>1. closing = "open" /\ closing' # "open"
      /\ UNCHANGED <<handed, pending, waited, failure, toGame, worker, writing, spoiled, db>>
  BY DEF Shutdown
<1>2. ShutdownRequest \in Requests
  BY DEF ShutdownRequest, Requests
<1>3. \/ toWorker' = toWorker
      \/ /\ toWorker' \in Seq(Requests) /\ Len(toWorker') = Len(toWorker) + 1
         /\ Len(toWorker) \in Nat
         /\ \A i \in 1 .. Len(toWorker) : toWorker'[i] = toWorker[i]
         /\ toWorker'[Len(toWorker) + 1] = ShutdownRequest
  <2>1. toWorker \in Seq(Requests)
    BY DEF WriterInv, WriterTypeOK
  <2>2. toWorker' = toWorker \/ toWorker' = Append(toWorker, ShutdownRequest)
    BY DEF Shutdown
  <2>3. CASE toWorker' = Append(toWorker, ShutdownRequest)
    <3> HIDE DEF ShutdownRequest
    <3> QED BY <1>2, <2>1, <2>3, PutLast
  <2> QED BY <2>2, <2>3
<1>4. WriterTypeOK'
  <2>1. toWorker' \in Seq(Requests)
    BY <1>3 DEF WriterInv, WriterTypeOK
  <2>2. closing' \in Closings /\ terminated' \in BOOLEAN
    BY DEF Shutdown, Closings, WriterInv, WriterTypeOK
  <2> QED BY <1>1, <2>1, <2>2 DEF WriterInv, WriterTypeOK
<1>5. PortsMatch'
  <2>1. PICK n \in 0 .. handed : PortsMatch!(n)
    BY DEF WriterInv, PortsMatch
  <2>2. CASE toWorker' = toWorker
    BY <1>1, <2>1, <2>2 DEF PortsMatch
  <2>3. CASE toWorker' # toWorker
    <3>1. \A i \in 1 .. Len(toWorker') : i \in 1 .. Len(toWorker) \/ i = Len(toWorker) + 1
      BY <1>3, <2>3
    <3>2. handed \in Nat
      BY DEF WriterInv, WriterTypeOK
    <3>3. worker \in {"starting", "idle", "writing"} /\ ~spoiled
            => \A i \in 1 .. Len(toWorker) : toWorker[i] # ShutdownRequest
      BY <1>1, <2>1
    <3>4. SUFFICES ASSUME worker' \in {"starting", "idle", "writing"}, ~spoiled',
                          NEW taken, taken = IF worker' = "writing" THEN n + 1 ELSE n
                   PROVE  /\ \A i \in 1 .. Len(toWorker') : toWorker'[i] # ShutdownRequest
                                                            => toWorker'[i] = taken + i
                          /\ \A i \in 1 .. Len(toWorker') : toWorker'[i] = ShutdownRequest
                                => i = Len(toWorker') /\ closing' # "open"
                                   /\ handed' = taken + i - 1
                          /\ (\A i \in 1 .. Len(toWorker') : toWorker'[i] # ShutdownRequest)
                                => handed' = taken + Len(toWorker')
      BY <1>1, <2>1 DEF PortsMatch
    <3>5. handed = taken + Len(toWorker) /\ taken \in Nat
      BY <1>1, <2>1, <3>2, <3>3, <3>4
    <3>6. /\ Len(toWorker') = Len(toWorker) + 1 /\ Len(toWorker) \in Nat
          /\ \A i \in 1 .. Len(toWorker) : toWorker'[i] = toWorker[i]
          /\ toWorker'[Len(toWorker) + 1] = ShutdownRequest
      BY <1>3, <2>3
    <3>7. \A i \in 1 .. Len(toWorker) : /\ toWorker'[i] = taken + i
                                       /\ toWorker'[i] # ShutdownRequest
      BY <1>1, <2>1, <3>3, <3>4, <3>6
    <3>8. \A i \in 1 .. Len(toWorker') : toWorker'[i] # ShutdownRequest => toWorker'[i] = taken + i
      BY <3>1, <3>6, <3>7
    <3>9. \A i \in 1 .. Len(toWorker') : toWorker'[i] = ShutdownRequest
            => i = Len(toWorker') /\ closing' # "open" /\ handed' = taken + i - 1
      BY <1>1, <3>1, <3>2, <3>5, <3>6, <3>7
    <3>10. \E i \in 1 .. Len(toWorker') : toWorker'[i] = ShutdownRequest
      BY <3>6
    <3> QED BY <3>8, <3>9, <3>10
  <2> QED BY <2>2, <2>3
<1>6. RepliesAreTrue'
  BY <1>1 DEF Shutdown, WriterInv, RepliesAreTrue, AllLanded, BadNews
<1>7. AdapterIsRight' /\ CrashLosesOneBatch'
  BY <1>1 DEF Shutdown, WriterInv, AdapterIsRight, AllLanded, CrashLosesOneBatch, BadNews
<1> QED BY <1>4, <1>5, <1>6, <1>7 DEF WriterInv

\* A new process on what the database holds.
LEMMA RestartInv ==
  ASSUME WriterInv, Restart
  PROVE  WriterInv'
<1>1. PICK n \in 0 .. handed : PortsMatch!(n)
  BY DEF WriterInv, PortsMatch
<1>2. handed' = n /\ db' = 1 .. n /\ n \in Nat
  <2>1. n \in Nat /\ handed \in Nat
    BY DEF WriterInv, WriterTypeOK
  <2>2. Cardinality(1 .. n) = n
    BY <2>1, FS_Interval
  <2> QED BY <1>1, <2>1, <2>2 DEF Restart
<1>3. WriterTypeOK'
  <2>1. toWorker' \in Seq(Requests) /\ toGame' \in Seq(Events)
    BY DEF Restart
  <2>2. handed' \in Nat /\ pending' \subseteq 1 .. handed' /\ db' \subseteq 1 .. handed'
        /\ writing' \in 0 .. handed'
    BY <1>2 DEF NoBatch, Restart
  <2>3. /\ waited' \in BOOLEAN /\ failure' \in BOOLEAN /\ spoiled' \in BOOLEAN
        /\ terminated' \in BOOLEAN /\ closing' \in Closings /\ worker' \in WorkerStates
    BY DEF Closings, WorkerStates, Restart
  <2> QED BY <2>1, <2>2, <2>3 DEF WriterTypeOK
<1>4. PortsMatch'
  <2>1. Len(toWorker') = 0 /\ worker' = "starting"
    BY DEF Restart
  <2> QED BY <1>2, <2>1 DEF PortsMatch
<1>5. RepliesAreTrue' /\ AdapterIsRight' /\ CrashLosesOneBatch'
  BY <1>2 DEF RepliesAreTrue, AdapterIsRight, CrashLosesOneBatch, Restart
<1> QED BY <1>3, <1>4, <1>5 DEF WriterInv

\* A step of the engine alone.
LEMMA WriterRests ==
  ASSUME WriterInv, UNCHANGED writerVars
  PROVE  WriterInv'
<1> USE DEF writerVars
<1>1. WriterTypeOK'
  BY DEF WriterInv, WriterTypeOK
<1>2. PortsMatch' /\ RepliesAreTrue'
  BY DEF WriterInv, PortsMatch, RepliesAreTrue, AllLanded, BadNews
<1>3. AdapterIsRight' /\ CrashLosesOneBatch'
  BY DEF WriterInv, AdapterIsRight, AllLanded, CrashLosesOneBatch, BadNews
<1> QED BY <1>1, <1>2, <1>3 DEF WriterInv

-----------------------------------------------------------------------------
(* Steps of the engine.                                                    *)

\* What is left to show of a step, besides the writer's part.
EngineInv ==
    /\ dirty \in BOOLEAN /\ paused \in BOOLEAN /\ flushWaiting \in BOOLEAN
    /\ fatal \in BOOLEAN /\ cut \in BOOLEAN /\ phase \in Phases /\ code \in {0, 1}
    /\ failure => fatal
    /\ StopIsOrderly
    /\ ExitIsClean

\* Now, and after a step.
LEMMA IInvParts == /\ IInv <=> WriterInv /\ EngineInv
                   /\ IInv' <=> WriterInv' /\ EngineInv'
BY DEF IInv, EngineInv, EngineTypeOK, WriterInv

\* A batch that is handed over carries every change; one that is refused is fatal.
LEMMA HandOverInv ==
  ASSUME WriterInv, fatal \in BOOLEAN, NEW left \in BOOLEAN, HandOver(left)
  PROVE  /\ WriterInv'
         /\ UNCHANGED <<failure, closing>>
         /\ dirty' \in BOOLEAN /\ fatal' \in BOOLEAN /\ (fatal => fatal')
         /\ dirty' = left \/ fatal'
<1>1. CASE Accepting /\ Persist /\ dirty' = left /\ UNCHANGED fatal
  <2>1. pending = {}
    BY DEF HandOver
  <2>2. WriterInv' /\ UNCHANGED <<failure, closing>>
    BY <1>1, <2>1, PersistInv
  <2> QED BY <1>1, <2>2
<1>2. CASE ~Accepting /\ fatal' = TRUE /\ dirty' = TRUE /\ UNCHANGED writerVars
  BY <1>2, WriterRests DEF writerVars
<1> QED BY <1>1, <1>2 DEF HandOver

LEMMA FlushInv ==
  ASSUME IInv, PeriodicFlush \/ DeferredFlush
  PROVE  IInv'
<1>1. WriterInv /\ EngineInv
  BY IInvParts
<1>2. Up /\ UNCHANGED <<paused, phase, code, cut>> /\ flushWaiting' \in BOOLEAN
  BY <1>1 DEF PeriodicFlush, DeferredFlush, Free, EngineInv
<1>3. CASE HandOver(FALSE)
  <2>1. /\ WriterInv'
        /\ UNCHANGED <<failure, closing>>
        /\ dirty' \in BOOLEAN /\ fatal' \in BOOLEAN /\ (fatal => fatal')
        /\ dirty' = FALSE \/ fatal'
    BY <1>1, <1>3, HandOverInv DEF EngineInv
  <2> QED BY <1>1, <1>2, <2>1, IInvParts DEF EngineInv, StopIsOrderly, ExitIsClean, Up
<1>4. CASE UNCHANGED writerVars /\ UNCHANGED <<dirty, fatal>>
  <2>1. WriterInv'
    BY <1>1, <1>4, WriterRests
  <2> QED BY <1>1, <1>2, <1>4, <2>1, IInvParts
      DEF EngineInv, StopIsOrderly, ExitIsClean, Up, writerVars, AllLanded
<1> QED BY <1>3, <1>4 DEF PeriodicFlush, DeferredFlush

LEMMA PauseInv ==
  ASSUME IInv, Pause
  PROVE  IInv'
<1>1. WriterInv /\ EngineInv
  BY IInvParts
<1>2. Up /\ UNCHANGED <<phase, code, cut>> /\ paused' = TRUE
      /\ (phase \in {"running", "stopping"} \/ cut)
  BY DEF Pause, Free
<1>3. /\ WriterInv'
      /\ UNCHANGED <<failure, closing>>
      /\ dirty' \in BOOLEAN /\ fatal' \in BOOLEAN /\ (fatal => fatal') /\ flushWaiting' \in BOOLEAN
  <2>1. CASE ~fatal /\ \E left \in BOOLEAN : (left => phase = "running") /\ DepartureFlush(left)
    <3>1. PICK left \in BOOLEAN : DepartureFlush(left)
      BY <2>1
    <3>2. CASE HandOver(left) /\ UNCHANGED flushWaiting
      BY <1>1, <3>2, HandOverInv DEF EngineInv
    <3>3. CASE WhenIdle /\ flushWaiting' = TRUE /\ dirty' = TRUE /\ UNCHANGED fatal
      BY <1>1, <3>3, WhenIdleInv DEF WhenIdle, EngineInv
    <3> QED BY <3>1, <3>2, <3>3 DEF DepartureFlush
  <2>2. CASE /\ dirty' = TRUE
             /\ UNCHANGED writerVars /\ UNCHANGED <<flushWaiting, fatal>>
    BY <1>1, <2>2, WriterRests DEF EngineInv, writerVars
  <2> QED BY <2>1, <2>2 DEF Pause
<1>4. StopIsOrderly'
  BY <1>1, <1>2, <1>3 DEF EngineInv, StopIsOrderly
<1> QED BY <1>1, <1>2, <1>3, <1>4, IInvParts DEF EngineInv, ExitIsClean, Up

\* Steps that leave the writer and the adapter alone.
LEMMA EngineAloneInv ==
  ASSUME IInv, Play \/ Resume \/ TickFatal \/ Sigterm \/ TransportsClose \/ ExitProcess \/ Crash
  PROVE  IInv'
<1>1. WriterInv /\ EngineInv /\ UNCHANGED writerVars
  BY IInvParts DEF Play, Resume, TickFatal, Sigterm, TransportsClose, ExitProcess, Crash
<1>2. WriterInv'
  BY <1>1, WriterRests
<1>3. UNCHANGED <<handed, db, failure, closing, worker>>
  BY <1>1 DEF writerVars
<1>4. ASSUME Play \/ Resume \/ TickFatal \/ Sigterm PROVE EngineInv'
  <2>1. phase \in {"running", "stopping"} /\ phase' \in {"running", "stopping"}
    BY <1>4 DEF Play, Resume, TickFatal, Sigterm
  <2>2. code' \in {0, 1} /\ (cut' => code' = 1) /\ cut' \in BOOLEAN
    BY <1>1, <1>4 DEF Play, Resume, TickFatal, Sigterm, EngineInv, StopIsOrderly
  <2>3. dirty' \in BOOLEAN /\ paused' \in BOOLEAN /\ UNCHANGED <<flushWaiting, fatal>>
    BY <1>1, <1>4 DEF Play, Resume, TickFatal, Sigterm, EngineInv
  <2> QED BY <1>1, <1>3, <2>1, <2>2, <2>3 DEF Phases, EngineInv, StopIsOrderly, ExitIsClean
<1>5. ASSUME TransportsClose PROVE EngineInv'
  BY <1>1, <1>3, <1>5 DEF TransportsClose, Phases, EngineInv, StopIsOrderly, ExitIsClean
<1>6. ASSUME Crash PROVE EngineInv'
  BY <1>1, <1>3, <1>6 DEF Crash, Up, Phases, EngineInv, StopIsOrderly, ExitIsClean
<1>7. ASSUME ExitProcess PROVE EngineInv'
  <2> USE <1>7 DEF ExitProcess
  <2>1. StopIsOrderly'
    BY <1>1, <1>3 DEF EngineInv, StopIsOrderly
  <2>2. ExitIsClean'
    BY <1>1, <1>3 DEF EngineInv, StopIsOrderly, ExitIsClean, WriterInv, AdapterIsRight, AllLanded
  <2> QED BY <1>1, <1>3, <2>1, <2>2 DEF EngineInv, Phases
<1> QED BY <1>2, <1>4, <1>5, <1>6, <1>7, IInvParts

\* The last flush, or none, and the adapter's shutdown.
LEMMA EndInv ==
  ASSUME IInv, Drained \/ Skip
  PROVE  IInv'
<1>1. WriterInv /\ EngineInv
  BY IInvParts
<1>2. CASE Drained /\ ~fatal /\ FinalBatch
  <2>1. pending = {} /\ Accepting
    BY <1>1, <1>2 DEF Drained, Quiet, Accepting, EngineInv, StopIsOrderly
  <2>2. WriterInv'
    BY <1>1, <1>2, <2>1, FinalBatchInv
  <2> QED BY <1>1, <1>2, <2>2, IInvParts
      DEF Drained, FinalBatch, Phases, EngineInv, StopIsOrderly, ExitIsClean
<1>3. CASE Drained /\ fatal /\ Shutdown /\ UNCHANGED dirty
  <2>1. WriterInv'
    BY <1>1, <1>3, ShutdownInv
  <2> QED BY <1>1, <1>3, <2>1, IInvParts
      DEF Drained, Shutdown, Phases, EngineInv, StopIsOrderly, ExitIsClean
<1>4. CASE Skip
  <2>1. WriterInv'
    BY <1>1, <1>4, ShutdownInv DEF Skip
  <2> QED BY <1>1, <1>4, <2>1, IInvParts
      DEF Skip, Shutdown, Phases, EngineInv, StopIsOrderly, ExitIsClean
<1> QED BY <1>2, <1>3, <1>4 DEF Drained

LEMMA GameThreadInv ==
  ASSUME IInv, OnGameThread(Adapter)
  PROVE  IInv'
<1>1. WriterInv /\ EngineInv
  BY IInvParts
<1>2. /\ Up /\ Adapter /\ fatal' = (fatal \/ failure')
      /\ UNCHANGED <<dirty, paused, flushWaiting, phase, code, cut>>
  BY DEF OnGameThread, Free
<1>3. WriterInv'
  BY <1>1, <1>2, AdapterInv
<1>4. closing = "open" => closing' = "open"
  BY <1>2 DEF Adapter, Receive, ReceiveDone, ReceiveFailure, ReceiveExit, Stall,
              TerminateSettles, Deadline
<1>5. failure' \in BOOLEAN
  BY <1>3 DEF WriterInv, WriterTypeOK
<1> QED BY <1>1, <1>2, <1>3, <1>4, <1>5, IInvParts DEF EngineInv, StopIsOrderly, ExitIsClean, Up

LEMMA WriterThreadInv ==
  ASSUME IInv, OnWriterThread(Thread)
  PROVE  IInv'
<1>1. WriterInv /\ EngineInv
  BY IInvParts
<1>2. Up /\ Thread /\ UNCHANGED engineVars
  BY DEF OnWriterThread
<1>3. WriterInv'
  BY <1>1, <1>2, ThreadInv
<1>4. UNCHANGED adapterVars
  BY <1>2 DEF Thread, Opening, Writing, Start, StartFails, Take, Commit, CommitFails, Close,
              GetStuck, Die, Stop
<1> QED BY <1>1, <1>2, <1>3, <1>4, IInvParts
    DEF adapterVars, engineVars, EngineInv, StopIsOrderly, ExitIsClean, Up

LEMMA NextInv == IInv /\ [EngineNext]_allVars => IInv'
<1> SUFFICES ASSUME IInv, [EngineNext]_allVars PROVE IInv'
  OBVIOUS
<1>1. CASE Restart
  <2>1. WriterInv'
    BY <1>1, IInvParts, RestartInv
  <2>2. EngineInv'
    BY <1>1 DEF Restart, EngineInv, StopIsOrderly, ExitIsClean, Phases
  <2> QED BY <2>1, <2>2, IInvParts
<1>2. CASE UNCHANGED allVars
  <2>1. WriterInv'
    BY <1>2, IInvParts, WriterRests DEF allVars
  <2> QED BY <1>2, <2>1, IInvParts
      DEF allVars, writerVars, engineVars, EngineInv, StopIsOrderly, ExitIsClean, AllLanded
<1> QED BY <1>1, <1>2, FlushInv, PauseInv, EngineAloneInv, EndInv, GameThreadInv, WriterThreadInv
    DEF EngineNext, Ending

\* The inductive invariant holds in every reachable state, for every MaxPending above 0
\* and every number of batches.
THEOREM InvHolds == EngineSpec => []IInv
BY InitInv, NextInv, PTL DEF EngineSpec

\* A crash at any moment loses at most the last batch handed over: the engine hands a
\* batch over when none is in flight, the thread writes them in order, and nothing lands
\* after a batch that failed.
THEOREM CrashLosesOneBatchHolds == EngineSpec => []CrashLosesOneBatch
<1>1. IInv => CrashLosesOneBatch
  BY DEF IInv, WriterInv
<1> QED BY <1>1, InvHolds, PTL

\* A process that exits with code 0 has landed every batch and left no change in memory,
\* and process.exit is called only when the writer thread has ended.
THEOREM ExitIsCleanHolds == EngineSpec => []ExitIsClean
<1>1. IInv => ExitIsClean
  BY DEF IInv
<1> QED BY <1>1, InvHolds, PTL

-----------------------------------------------------------------------------
(* The promise of BatchLog.                                                *)

\* Nothing the log shows has changed.
LEMMA LogRests ==
  ASSUME UNCHANGED <<handed, db, closing, failure>>
  PROVE  UNCHANGED Log!logVars
BY DEF Log!logVars, Fate

LEMMA FailIsFail ==
  ASSUME UNCHANGED <<handed, db, closing>>, failure', failure \in BOOLEAN
  PROVE  Log!Fail \/ UNCHANGED Log!logVars
BY DEF Log!Fail, Log!logVars, Fate

\* A step of the thread lands the oldest batch that has not landed, or shows nothing.
LEMMA ThreadKeepsTheLog ==
  ASSUME WriterInv, Thread
  PROVE  [Log!Next]_Log!logVars
<1>1. CASE Commit
  <2>1. PICK n \in 0 .. handed : PortsMatch!(n)
    BY DEF WriterInv, PortsMatch
  <2>2. writing = n + 1 /\ n + 1 \in 1 .. handed /\ db = 1 .. (n + 1) - 1 /\ db' = 1 .. n + 1
    BY <1>1, <2>1 DEF Commit, WriterInv, WriterTypeOK
  <2>3. UNCHANGED <<handed, Fate>>
    BY <1>1 DEF Commit, adapterVars, Fate
  <2> QED BY <2>2, <2>3 DEF Log!Next, Log!Land
<1>2. CASE ~Commit
  <2>1. UNCHANGED adapterVars /\ UNCHANGED db
    BY <1>2 DEF Thread, Opening, Writing, Start, StartFails, Take, CommitFails, Close, GetStuck,
                Die, Stop
  <2> QED BY <2>1, LogRests DEF adapterVars
<1> QED BY <1>1, <1>2

LEMMA AdapterKeepsTheLog ==
  ASSUME WriterInv, Adapter
  PROVE  [Log!Next]_Log!logVars
<1> USE DEF Log!Next
<1>1. failure \in BOOLEAN /\ Len(toGame) \in Nat
  BY DEF WriterInv, WriterTypeOK
<1>2. ASSUME Receive PROVE [Log!Next]_Log!logVars
  <2>1. UNCHANGED <<handed, db>> /\ toGame # <<>>
    BY <1>2 DEF Receive
  <2>2. CASE ReceiveDone(Head(toGame))
    BY <2>1, <2>2, LogRests DEF ReceiveDone
  <2>3. CASE ReceiveFailure(Head(toGame))
    BY <1>1, <2>1, <2>3, FailIsFail DEF ReceiveFailure, Fail
  <2>4. CASE ReceiveExit(Head(toGame))
    <3>1. CASE closing = "open" /\ Fail /\ UNCHANGED closing
      BY <1>1, <2>1, <3>1, FailIsFail DEF Fail
    <3>2. CASE /\ closing = "draining"
               /\ closing' = IF failure THEN "rejected" ELSE "resolved"
               /\ UNCHANGED <<pending, waited, failure>>
      <4>1. ~failure => AllLanded
        <5>1. Head(toGame) = toGame[1] /\ 1 \in 1 .. Len(toGame) /\ ~BadNews(1)
          BY <2>1, ReadHead DEF WriterInv, WriterTypeOK, BadNews
        <5>2. ~failure => ~terminated
          BY <3>2 DEF WriterInv, AdapterIsRight
        <5> QED BY <2>4, <5>1, <5>2 DEF WriterInv, RepliesAreTrue, ReceiveExit
      <4> QED BY <1>1, <2>1, <3>2, <4>1 DEF Log!Close, Log!logVars, Fate, AllLanded
    <3>3. CASE UNCHANGED <<pending, waited, failure, closing>>
      BY <2>1, <3>3, LogRests
    <3> QED BY <2>4, <3>1, <3>2, <3>3 DEF ReceiveExit
  <2> QED BY <1>2, <2>2, <2>3, <2>4 DEF Receive
<1>3. ASSUME Stall PROVE [Log!Next]_Log!logVars
  BY <1>1, <1>3, FailIsFail DEF Stall, Fail
<1>4. ASSUME TerminateSettles PROVE [Log!Next]_Log!logVars
  BY <1>4 DEF TerminateSettles, WriterInv, AdapterIsRight, Log!logVars, Fate
<1>5. ASSUME Deadline PROVE [Log!Next]_Log!logVars
  BY <1>5 DEF Deadline, Log!Fail, Log!logVars, Fate
<1> QED BY <1>2, <1>3, <1>4, <1>5 DEF Adapter

\* What the engine does with the adapter: it hands batches over, and asks it to close.
LEMMA HandIsHand ==
  ASSUME Accepting, handed' = handed + 1, UNCHANGED <<failure, db>>,
         closing' \in {"open", "draining"}
  PROVE  Log!Hand
BY DEF Log!Hand, Accepting, Fate

LEMMA HandOverKeepsTheLog ==
  ASSUME WriterInv, NEW left \in BOOLEAN, HandOver(left)
  PROVE  [Log!Next]_Log!logVars
<1>1. CASE Accepting /\ Persist
  <2>1. pending = {}
    BY DEF HandOver
  <2>2. handed' = handed + 1 /\ UNCHANGED <<failure, closing>>
    BY <1>1, <2>1, PersistInv
  <2> QED BY <1>1, <2>2, HandIsHand DEF Persist, Accepting, Log!Next
<1>2. CASE UNCHANGED writerVars
  BY <1>2, LogRests DEF writerVars
<1> QED BY <1>1, <1>2 DEF HandOver

LEMMA ShutdownKeepsTheLog ==
  ASSUME Shutdown
  PROVE  UNCHANGED Log!logVars
BY DEF Shutdown, Log!logVars, Fate

LEMMA StepKeepsTheLog == IInv /\ [EngineNext]_allVars => [Log!Next]_Log!logVars
<1> SUFFICES ASSUME IInv, [EngineNext]_allVars PROVE [Log!Next]_Log!logVars
  OBVIOUS
<1>1. WriterInv /\ EngineInv
  BY IInvParts
<1>2. ASSUME UNCHANGED writerVars PROVE [Log!Next]_Log!logVars
  BY <1>2, LogRests DEF writerVars
<1>3. CASE PeriodicFlush
  BY <1>1, <1>3, HandOverKeepsTheLog DEF PeriodicFlush
<1>4. CASE DeferredFlush
  BY <1>1, <1>2, <1>4, HandOverKeepsTheLog DEF DeferredFlush
<1>5. CASE Pause
  <2>1. CASE \E left \in BOOLEAN : DepartureFlush(left)
    <3>1. PICK left \in BOOLEAN : DepartureFlush(left)
      BY <2>1
    <3>2. CASE HandOver(left)
      BY <1>1, <3>2, HandOverKeepsTheLog
    <3>3. CASE WhenIdle
      BY <3>3, LogRests DEF WhenIdle
    <3> QED BY <3>1, <3>2, <3>3 DEF DepartureFlush
  <2> QED BY <1>2, <1>5, <2>1 DEF Pause
<1>6. CASE Play \/ Resume \/ TickFatal \/ Sigterm \/ TransportsClose \/ ExitProcess \/ Crash
  BY <1>2, <1>6 DEF Play, Resume, TickFatal, Sigterm, TransportsClose, ExitProcess, Crash
<1>7. CASE Drained
  <2>1. CASE ~fatal /\ FinalBatch
    <3>1. Accepting
      BY <1>1, <1>7, <2>1 DEF Drained, Accepting, EngineInv, StopIsOrderly
    <3> QED BY <2>1, <3>1, HandIsHand DEF FinalBatch, Log!Next
  <2>2. CASE Shutdown
    BY <2>2, ShutdownKeepsTheLog
  <2> QED BY <1>7, <2>1, <2>2 DEF Drained
<1>8. CASE Skip
  BY <1>8, ShutdownKeepsTheLog DEF Skip
<1>9. CASE Restart
  <2>1. PICK n \in 0 .. handed : PortsMatch!(n)
    BY <1>1 DEF WriterInv, PortsMatch
  <2>2. handed' = n
    <3>1. n \in Nat /\ handed \in Nat
      BY <1>1 DEF WriterInv, WriterTypeOK
    <3>2. Cardinality(1 .. n) = n
      BY <3>1, FS_Interval
    <3> QED BY <1>9, <2>1, <3>1, <3>2 DEF Restart
  <2> QED BY <1>9, <2>1, <2>2 DEF Restart, Log!Next, Log!Resume, Fate
<1>10. CASE OnGameThread(Adapter)
  BY <1>1, <1>10, AdapterKeepsTheLog DEF OnGameThread
<1>11. CASE OnWriterThread(Thread)
  BY <1>1, <1>11, ThreadKeepsTheLog DEF OnWriterThread
<1>12. CASE UNCHANGED allVars
  BY <1>2, <1>12 DEF allVars
<1> QED BY <1>3, <1>4, <1>5, <1>6, <1>7, <1>8, <1>9, <1>10, <1>11, <1>12 DEF EngineNext, Ending

\* The engine, the adapter and the writer thread keep what worldPersistence.ts promises:
\* batches land in the order they were handed over, none behind a lost one, a close that
\* resolves has landed them all, and a restart continues from what landed.
THEOREM TheLogIsKept == EngineSpec => KeepsTheLog
<1>1. EngineInit => Log!Init
  BY DEF EngineInit, WriterInit, Log!Init, Fate
<1> QED BY <1>1, StepKeepsTheLog, InvHolds, PTL DEF EngineSpec, KeepsTheLog, Log!Spec

-----------------------------------------------------------------------------
(* What the ends remember of a frame.                                      *)

RecipientFields ==
    {"baseline", "sequence", "pending", "needsKeyframe", "generation", "applied", "flights",
     "outstanding", "resync", "recovery"}

LEMMA Recipients ==
  /\ DOMAIN NewRecipient = RecipientFields
  /\ NewRecipient.baseline = NoBaseline /\ NewRecipient.sequence = 0
  /\ NewRecipient.pending = NoFlight /\ NewRecipient.needsKeyframe
  /\ NewRecipient.generation = 0 /\ NewRecipient.applied = 0
  /\ NoBaseline \in Worlds /\ NoBaseline.sequence = 0 /\ NoBaseline.world = 0
BY DEF NewRecipient, RecipientFields, NoBaseline, Worlds

\* Credit leaves all but the window as it is.
LEMMA CreditedFields ==
  ASSUME NEW r, DOMAIN r = RecipientFields, NEW n
  PROVE  /\ DOMAIN Credited(r, n) = RecipientFields
         /\ Credited(r, n).baseline = r.baseline /\ Credited(r, n).sequence = r.sequence
         /\ Credited(r, n).pending = r.pending /\ Credited(r, n).generation = r.generation
         /\ Credited(r, n).needsKeyframe = r.needsKeyframe /\ Credited(r, n).applied = n
BY DEF Credited, RecipientFields

\* The callback of a frame that was sent.
LEMMA AcceptedFields ==
  ASSUME NEW r, DOMAIN r = RecipientFields
  PROVE  /\ DOMAIN Accepted(r) = RecipientFields
         /\ Accepted(r).baseline =
              (IF r.pending.generation = r.generation
               THEN [sequence |-> r.pending.sequence, world |-> r.pending.world] ELSE r.baseline)
         /\ Accepted(r).sequence = r.pending.sequence /\ Accepted(r).pending = NoFlight
         /\ Accepted(r).generation = r.generation
         /\ Accepted(r).needsKeyframe =
              (r.needsKeyframe \/ r.pending.generation # r.generation)
         /\ Accepted(r).applied = (IF r.pending.applied THEN r.pending.sequence ELSE r.applied)
<1> DEFINE p == r.pending
           sent == [r EXCEPT
              !.pending = NoFlight,
              !.sequence = p.sequence,
              !.flights = @ \cup {Flight(p)},
              !.baseline = IF p.generation = r.generation
                           THEN [sequence |-> p.sequence, world |-> p.world] ELSE @,
              !.needsKeyframe = @ \/ p.generation # r.generation]
<1>1. Accepted(r) = IF p.applied THEN Credited(sent, p.sequence) ELSE sent
  BY DEF Accepted
<1>2. /\ DOMAIN sent = RecipientFields /\ sent.pending = NoFlight /\ sent.sequence = p.sequence
      /\ sent.baseline = (IF p.generation = r.generation
                          THEN [sequence |-> p.sequence, world |-> p.world] ELSE r.baseline)
      /\ sent.generation = r.generation /\ sent.applied = r.applied
      /\ sent.needsKeyframe = (r.needsKeyframe \/ p.generation # r.generation)
  BY DEF RecipientFields
<1> HIDE DEF sent
<1>3. CASE p.applied
  BY <1>1, <1>2, <1>3, CreditedFields
<1>4. CASE ~p.applied
  BY <1>1, <1>2, <1>4
<1> QED BY <1>3, <1>4

\* The messages to the client, one by one.
LEMMA Line ==
  ASSUME Kinds
  PROVE  /\ Len(toClient) \in Nat /\ DOMAIN toClient = 1 .. Len(toClient)
         /\ Frames \subseteq 1 .. Len(toClient)
         /\ \A i \in Frames : toClient[i] \in Snapshots
         /\ \A i \in 1 .. Len(toClient) : i \notin Frames => toClient[i] = Joined
         /\ toClient = <<>> <=> Len(toClient) = 0
<1>1. \A i \in 1 .. Len(toClient) : toClient[i] \in Snapshots \cup {Joined}
  BY DEF Kinds
<1>2. Joined.type # "snapshot" /\ \A f \in Snapshots : f.type = "snapshot"
  BY DEF Joined, Snapshots
<1> QED BY <1>1, <1>2 DEF Kinds, Frames

\* Who says what.
LEMMA ToldAre ==
  \A a : a \in Told <=>
    \/ a = NoBaseline \/ a = client.decoder \/ a = recipient.baseline
    \/ \E i \in Frames : a = [sequence |-> toClient[i].sequence, world |-> toClient[i].world]
    \/ \E i \in Frames : a = [sequence |-> toClient[i].base, world |-> toClient[i].from]
    \/ /\ recipient.pending # NoFlight
       /\ a = [sequence |-> recipient.pending.sequence, world |-> recipient.pending.world]
BY DEF Told

LEMMA ToldAreAfter ==
  (\A a : a \in Told <=>
    \/ a = NoBaseline \/ a = client.decoder \/ a = recipient.baseline
    \/ \E i \in Frames : a = [sequence |-> toClient[i].sequence, world |-> toClient[i].world]
    \/ \E i \in Frames : a = [sequence |-> toClient[i].base, world |-> toClient[i].from]
    \/ /\ recipient.pending # NoFlight
       /\ a = [sequence |-> recipient.pending.sequence, world |-> recipient.pending.world])'
BY ToldAre, PTL

LEMMA ToldAreWorlds ==
  ASSUME Kinds
  PROVE  Told \subseteq Worlds
<1>1. \A i \in Frames : toClient[i].sequence \in Nat /\ toClient[i].world \in Nat
                        /\ toClient[i].base \in Nat /\ toClient[i].from \in Nat
  BY Line DEF Snapshots
<1>2. NoBaseline \in Worlds /\ client.decoder \in Worlds /\ recipient.baseline \in Worlds
  BY Recipients DEF Kinds
<1>3. recipient.pending # NoFlight =>
        recipient.pending.sequence \in Nat /\ recipient.pending.world \in Nat
  BY DEF Kinds
<1> QED BY <1>1, <1>2, <1>3, ToldAre DEF Worlds

LEMMA LastSentIs ==
  ASSUME Kinds
  PROVE  /\ LastSent \in Nat /\ LastSent >= recipient.sequence
         /\ LastSent <= recipient.sequence + 1
BY DEF Kinds, LastSent

LEMMA Numbers ==
  Kinds => LastSent \in Nat /\ Frames \subseteq Nat
BY LastSentIs, Line

LEMMA NumbersAfter ==
  Kinds' => (LastSent \in Nat /\ Frames \subseteq Nat)'
BY Numbers, PTL

-----------------------------------------------------------------------------
(* Order.                                                                  *)

\* Nothing new is said, and of the frames on their way none but the first go, or all.
LEMMA OrderKept ==
  ASSUME Kinds, Kinds', WorldsInOrder, Told' \subseteq Told, LastSent <= LastSent',
         world <= world', view' <= world', client'.accepted <= LastSent',
         NEW k \in Nat,
         \A i \in Frames' : i + k \in Frames /\ toClient'[i] = toClient[i + k],
         \A i \in Frames' : /\ view' <= toClient'[i].world
                            /\ client'.decoder.sequence < toClient'[i].sequence
                            /\ client'.accepted < toClient'[i].sequence
  PROVE  WorldsInOrder'
<1>1. \A a, b \in Told' : a.sequence <= b.sequence => a.world <= b.world
  BY DEF WorldsInOrder
<1>2. \A a \in Told' : a.sequence <= LastSent' /\ a.world <= world'
  <2>1. LastSent \in Nat /\ LastSent' \in Nat
    BY Numbers, NumbersAfter
  <2>2. world \in Nat /\ world' \in Nat
    BY DEF Kinds
  <2>3. \A a \in Told : a.sequence \in Nat /\ a.world \in Nat
    BY ToldAreWorlds DEF Worlds
  <2> QED BY <2>1, <2>2, <2>3 DEF WorldsInOrder
<1>3. \A i, j \in Frames' : i < j => toClient'[i].sequence < toClient'[j].sequence
  <2>1. Frames \subseteq Nat /\ Frames' \subseteq Nat
    BY Numbers, NumbersAfter
  <2>2. SUFFICES ASSUME NEW i \in Frames', NEW j \in Frames', i < j
                 PROVE  toClient'[i].sequence < toClient'[j].sequence
    OBVIOUS
  <2>3. i \in Nat /\ j \in Nat
    BY <2>1
  <2>4. i + k < j + k
    BY <2>2, <2>3
  <2> QED BY <2>4 DEF WorldsInOrder
<1> QED BY <1>1, <1>2, <1>3 DEF WorldsInOrder

\* The line stays as it is.
LEMMA LineStays ==
  ASSUME StreamInv, Kinds', UNCHANGED <<toClient, view>>, world <= world',
         client'.ready = client.ready, client'.decoder = client.decoder,
         client'.accepted = client.accepted, client.resync => client'.resync,
         recipient'.baseline \in Told, LastSent <= LastSent',
         recipient'.pending # NoFlight =>
            /\ recipient.pending # NoFlight
            /\ recipient'.pending.sequence = recipient.pending.sequence
            /\ recipient'.pending.world = recipient.pending.world,
         owner' => owner \/ socket' = "closing", socket = "closing" => socket' = "closing",
         socket' = "open" /\ ~recipient'.needsKeyframe =>
            /\ ~recipient.needsKeyframe /\ LastOffered' = LastOffered
            /\ recipient'.pending = NoFlight => recipient'.baseline.sequence = LastOffered
            /\ recipient'.pending # NoFlight =>
                  recipient'.pending.generation = recipient'.generation
  PROVE  WorldsInOrder' /\ JoinComesFirst' /\ DeltasFollow' /\ NextFollows'
<1>1. Kinds /\ WorldsInOrder /\ JoinComesFirst /\ DeltasFollow /\ NextFollows
  BY DEF StreamInv
<1>2. Frames' = Frames
  BY DEF Frames
<1>3. Told' \subseteq Told
  <2>1. SUFFICES ASSUME NEW a \in Told' PROVE a \in Told
    OBVIOUS
  <2>2. \/ a = NoBaseline \/ a = client'.decoder \/ a = recipient'.baseline
        \/ \E i \in Frames' : a = [sequence |-> toClient'[i].sequence, world |-> toClient'[i].world]
        \/ \E i \in Frames' : a = [sequence |-> toClient'[i].base, world |-> toClient'[i].from]
        \/ /\ recipient'.pending # NoFlight
           /\ a = [sequence |-> recipient'.pending.sequence, world |-> recipient'.pending.world]
    BY ToldAreAfter
  <2> QED BY <1>2, <2>2, ToldAre
<1>4. WorldsInOrder'
  <2>1. Frames \subseteq Nat /\ view \in Nat /\ world \in Nat /\ world' \in Nat
    BY <1>1, Numbers DEF Kinds
  <2>2. LastSent \in Nat /\ LastSent' \in Nat /\ client.accepted \in Nat
    BY <1>1, Numbers, NumbersAfter DEF Kinds
  <2>3. view' <= world' /\ client'.accepted <= LastSent'
    BY <1>1, <2>1, <2>2 DEF WorldsInOrder
  <2>4. 0 \in Nat /\ \A i \in Frames' : i + 0 \in Frames /\ toClient'[i] = toClient[i + 0]
    BY <1>2, <2>1
  <2>5. \A i \in Frames' : /\ view' <= toClient'[i].world
                           /\ client'.decoder.sequence < toClient'[i].sequence
                           /\ client'.accepted < toClient'[i].sequence
    BY <1>1, <1>2 DEF WorldsInOrder
  <2> QED BY <1>1, <1>3, <2>3, <2>4, <2>5, OrderKept
<1>5. JoinComesFirst'
  BY <1>1 DEF JoinComesFirst
<1>6. DeltasFollow'
  BY <1>1, <1>2 DEF DeltasFollow
<1>7. NextFollows'
  <2>1. SUFFICES ASSUME socket' = "open", ~recipient'.needsKeyframe PROVE NextFollows'
    BY DEF NextFollows
  <2>2. socket = "open"
    BY <1>1, <2>1 DEF Kinds
  <2> QED BY <1>1, <1>2, <2>1, <2>2 DEF NextFollows
<1> QED BY <1>4, <1>5, <1>6, <1>7

\* What the client says of what it has applied stays true.
LEMMA ReceiptsStay ==
  ASSUME StreamInv, Kinds', client.accepted <= client'.accepted, NEW k \in Nat,
         \A i \in 1 .. Len(toServer') :
            \/ i + k \in 1 .. Len(toServer) /\ toServer'[i] = toServer[i + k]
            \/ toServer'[i].type # "ack"
            \/ toServer'[i].sequence <= client'.accepted,
         recipient'.applied <= client'.accepted,
         recipient'.pending # NoFlight /\ recipient'.pending.applied =>
            recipient'.pending.sequence <= client'.accepted
  PROVE  ReceiptsAreTrue'
<1>1. client.accepted \in Nat /\ client'.accepted \in Nat
  BY DEF StreamInv, Kinds
<1>2. /\ toServer \in Seq(Acks \cup {Join, Resync}) /\ toServer' \in Seq(Acks \cup {Join, Resync})
      /\ DOMAIN toServer = 1 .. Len(toServer) /\ DOMAIN toServer' = 1 .. Len(toServer')
  BY DEF StreamInv, Kinds
<1>3. \A i \in 1 .. Len(toServer) : toServer[i].type = "ack" => toServer[i].sequence \in Nat
  <2>1. \A i \in 1 .. Len(toServer) : toServer[i] \in Acks \cup {Join, Resync}
    BY <1>2
  <2>2. Join.type # "ack" /\ Resync.type # "ack"
    BY DEF Join, Resync
  <2> QED BY <2>1, <2>2 DEF Acks
<1>4. \A i \in 1 .. Len(toServer') :
        toServer'[i].type = "ack" => toServer'[i].sequence <= client'.accepted
  <2>1. SUFFICES ASSUME NEW i \in 1 .. Len(toServer'), toServer'[i].type = "ack",
                        i + k \in 1 .. Len(toServer), toServer'[i] = toServer[i + k]
                 PROVE  toServer'[i].sequence <= client'.accepted
    OBVIOUS
  <2>2. toServer[i + k].sequence <= client.accepted
    BY <1>2, <2>1 DEF StreamInv, ReceiptsAreTrue
  <2>3. toServer[i + k].sequence \in Nat
    BY <1>3, <2>1
  <2> HIDE DEF Acks
  <2> QED BY <1>1, <2>1, <2>2, <2>3
<1> QED BY <1>2, <1>4 DEF ReceiptsAreTrue, CreditWasApplied

-----------------------------------------------------------------------------
(* The server's steps.                                                     *)

\* What a step shows of the worlds.
Shown ==
    \/ UNCHANGED <<world, view>>
    \/ world' = world + 1 /\ view' = view
    \/ view' \in view + 1 .. world /\ world' = world

StreamStep == StreamInv' /\ Shown

LEMMA Baseline ==
  /\ recipient.baseline \in Told
  /\ recipient.pending # NoFlight =>
       [sequence |-> recipient.pending.sequence, world |-> recipient.pending.world] \in Told
  /\ NoBaseline \in Told /\ client.decoder \in Told
BY ToldAre

\* The numbers of a recipient.
LEMMA RecipientIs ==
  ASSUME Kinds
  PROVE  /\ DOMAIN recipient = RecipientFields /\ recipient.sequence \in Nat
         /\ recipient.baseline \in Worlds /\ recipient.applied \in Nat
         /\ recipient.generation \in Nat /\ recipient.needsKeyframe \in BOOLEAN
         /\ recipient.pending # NoFlight =>
              /\ DOMAIN recipient.pending = FrameFields
              /\ recipient.pending.sequence = recipient.sequence + 1
              /\ recipient.pending.world \in Nat /\ recipient.pending.generation \in Nat
              /\ recipient.pending.applied \in BOOLEAN
         /\ recipient.pending = NoFlight => recipient.pending.sequence = 0
BY Recipients DEF Kinds, NoFlight

\* Time passes, or the socket is closed.
LEMMA StepStep ==
  ASSUME StreamInv, Step
  PROVE  StreamStep
<1>1. world \in Nat /\ world' = world + 1 /\ UNCHANGED <<toClient, toServer>>
      /\ UNCHANGED serverVars /\ UNCHANGED clientVars
  BY DEF Step, StreamInv, Kinds
<1>2. Kinds'
  BY <1>1 DEF StreamInv, Kinds, serverVars, clientVars
<1>3. LastSent' = LastSent /\ LastOffered' = LastOffered
  BY <1>1 DEF LastSent, LastOffered, serverVars
<1>4. WorldsInOrder' /\ JoinComesFirst' /\ DeltasFollow' /\ NextFollows'
  <2>1. LastSent <= LastSent'
    BY <1>3, Numbers DEF StreamInv
  <2>2. socket' = "open" /\ ~recipient'.needsKeyframe =>
            /\ ~recipient.needsKeyframe /\ LastOffered' = LastOffered
            /\ recipient'.pending = NoFlight => recipient'.baseline.sequence = LastOffered
            /\ recipient'.pending # NoFlight =>
                  recipient'.pending.generation = recipient'.generation
    BY <1>1, <1>3 DEF StreamInv, NextFollows, serverVars
  <2> QED BY <1>1, <1>2, <2>1, <2>2, LineStays, Baseline DEF serverVars, clientVars
<1>5. ReceiptsAreTrue'
  BY <1>1 DEF StreamInv, ReceiptsAreTrue, CreditWasApplied, serverVars, clientVars
<1> QED BY <1>1, <1>2, <1>4, <1>5 DEF StreamInv, StreamStep, Shown, clientVars

LEMMA CloseStep ==
  ASSUME StreamInv, CloseSocket,
         UNCHANGED <<world, recipient, offered, toClient, toServer>>, UNCHANGED clientVars
  PROVE  StreamStep
<1>1. owner' = FALSE /\ socket' = "closing"
  BY DEF CloseSocket
<1>2. Kinds'
  BY <1>1 DEF StreamInv, Kinds, clientVars
<1>3. LastSent <= LastSent'
  BY <1>1, RecipientIs DEF LastSent, StreamInv
<1>4. WorldsInOrder' /\ JoinComesFirst' /\ DeltasFollow' /\ NextFollows'
  <2>1. world <= world' /\ socket' # "open"
    BY <1>1 DEF StreamInv, Kinds
  <2> QED BY <1>1, <1>2, <1>3, <2>1, LineStays, Baseline DEF clientVars
<1>5. ReceiptsAreTrue'
  BY DEF StreamInv, ReceiptsAreTrue, CreditWasApplied, clientVars
<1> QED BY <1>2, <1>4, <1>5 DEF StreamInv, StreamStep, Shown, clientVars

\* The server's record of the client changes, and not what is on its way.
LEMMA RecordStep ==
  ASSUME StreamInv, Kinds', UNCHANGED <<world, toClient, client, view>>,
         recipient'.baseline \in Told, LastSent <= LastSent',
         recipient'.pending # NoFlight =>
            /\ recipient.pending # NoFlight
            /\ recipient'.pending.sequence = recipient.pending.sequence
            /\ recipient'.pending.world = recipient.pending.world,
         owner' => owner \/ socket' = "closing", socket = "closing" => socket' = "closing",
         socket' = "open" /\ ~recipient'.needsKeyframe =>
            /\ ~recipient.needsKeyframe /\ LastOffered' = LastOffered
            /\ recipient'.pending = NoFlight => recipient'.baseline.sequence = LastOffered
            /\ recipient'.pending # NoFlight =>
                  recipient'.pending.generation = recipient'.generation,
         ReceiptsAreTrue'
  PROVE  StreamStep
<1>1. world <= world'
  BY DEF StreamInv, Kinds
<1>2. WorldsInOrder' /\ JoinComesFirst' /\ DeltasFollow' /\ NextFollows'
  BY <1>1, LineStays
<1> QED BY <1>2 DEF StreamInv, StreamStep, Shown

LEMMA TransportAcceptsStep ==
  ASSUME StreamInv, TransportAccepts
  PROVE  StreamStep
<1> DEFINE p == recipient.pending
<1>1. /\ p # NoFlight /\ recipient' = Accepted(recipient)
      /\ UNCHANGED <<world, owner, socket, toClient, toServer>> /\ UNCHANGED clientVars
  BY DEF TransportAccepts
<1>2. /\ DOMAIN recipient = RecipientFields /\ p.sequence = recipient.sequence + 1
      /\ p.world \in Nat /\ p.generation \in Nat /\ recipient.sequence \in Nat
      /\ recipient.applied \in Nat /\ recipient.baseline \in Worlds
      /\ recipient.generation \in Nat /\ recipient.needsKeyframe \in BOOLEAN
      /\ p.applied \in BOOLEAN
  BY <1>1, RecipientIs DEF StreamInv
<1>3. /\ DOMAIN recipient' = RecipientFields
      /\ recipient'.baseline = (IF p.generation = recipient.generation
                                THEN [sequence |-> p.sequence, world |-> p.world]
                                ELSE recipient.baseline)
      /\ recipient'.sequence = p.sequence /\ recipient'.pending = NoFlight
      /\ recipient'.generation = recipient.generation
      /\ recipient'.needsKeyframe = (recipient.needsKeyframe \/ p.generation # recipient.generation)
      /\ recipient'.applied = (IF p.applied THEN p.sequence ELSE recipient.applied)
  BY <1>1, <1>2, AcceptedFields
<1>4. recipient'.baseline \in Worlds /\ recipient'.applied \in Nat
  BY <1>2, <1>3 DEF Worlds
<1>5. Kinds'
  <2>1. DOMAIN recipient' = DOMAIN NewRecipient
    BY <1>3, Recipients
  <2> QED BY <1>1, <1>2, <1>3, <1>4, <2>1 DEF StreamInv, Kinds, clientVars
<1>6. recipient'.baseline \in Told
  BY <1>1, <1>3, Baseline
<1>7. LastSent <= LastSent' /\ LastOffered' = LastOffered
  BY <1>1, <1>2, <1>3 DEF LastSent, LastOffered
<1>8. /\ recipient'.applied <= client.accepted
  BY <1>1, <1>3 DEF StreamInv, ReceiptsAreTrue, CreditWasApplied
<1>9. ReceiptsAreTrue'
  BY <1>1, <1>3, <1>8 DEF StreamInv, ReceiptsAreTrue, CreditWasApplied, clientVars
<1>10. ASSUME ~recipient'.needsKeyframe
       PROVE  ~recipient.needsKeyframe /\ recipient'.baseline.sequence = LastOffered
  <2>1. ~recipient.needsKeyframe /\ p.generation = recipient.generation
    BY <1>2, <1>3, <1>10
  <2> QED BY <1>1, <1>3, <2>1 DEF LastOffered
<1>11. client' = client /\ view' = view
  BY <1>1 DEF clientVars
<1>12. recipient'.pending = NoFlight
  BY <1>3
<1> HIDE DEF p
<1> QED BY <1>1, <1>5, <1>6, <1>7, <1>9, <1>10, <1>11, <1>12, RecordStep

LEMMA TransportFailsStep ==
  ASSUME StreamInv, TransportFails
  PROVE  StreamStep
<1>1. /\ owner' = FALSE /\ socket' = "closing"
      /\ recipient' = [recipient EXCEPT
            !.pending = NoFlight,
            !.outstanding = @ - recipient.pending.bytes,
            !.recovery = IF @ = recipient.pending.sequence THEN 0 ELSE @,
            !.needsKeyframe = TRUE]
      /\ UNCHANGED <<world, toClient, toServer>> /\ UNCHANGED clientVars
  BY DEF TransportFails, CloseSocket
<1>2. /\ DOMAIN recipient = RecipientFields
  BY RecipientIs DEF StreamInv
<1>3. /\ DOMAIN recipient' = RecipientFields /\ recipient'.baseline = recipient.baseline
      /\ recipient'.sequence = recipient.sequence /\ recipient'.pending = NoFlight
      /\ recipient'.generation = recipient.generation /\ recipient'.needsKeyframe
      /\ recipient'.applied = recipient.applied
  BY <1>1, <1>2 DEF RecipientFields
<1>4. Kinds'
  <2>1. DOMAIN recipient' = DOMAIN NewRecipient
    BY <1>3, Recipients
  <2>2. recipient'.needsKeyframe \in BOOLEAN
    BY <1>1, <1>2 DEF RecipientFields
  <2> QED BY <1>1, <1>3, <2>1, <2>2 DEF StreamInv, Kinds, clientVars
<1>5. LastSent <= LastSent'
  BY <1>1, <1>3, RecipientIs DEF LastSent, StreamInv
<1>6. ReceiptsAreTrue'
  BY <1>1, <1>3 DEF StreamInv, ReceiptsAreTrue, CreditWasApplied, clientVars
<1> QED BY <1>1, <1>3, <1>4, <1>5, <1>6, Baseline, RecordStep DEF clientVars

\* A receipt that arrives.
LEMMA AcknowledgedFields ==
  ASSUME NEW r, DOMAIN r = RecipientFields, NEW n
  PROVE  LET x == Acknowledged(r, n)
         IN  /\ DOMAIN x = RecipientFields
             /\ x.baseline = r.baseline /\ x.sequence = r.sequence
             /\ x.generation = r.generation /\ x.needsKeyframe = r.needsKeyframe
             /\ \/ x.pending = r.pending /\ x.applied \in {r.applied, n}
                \/ /\ x.pending = [r.pending EXCEPT !.applied = TRUE] /\ x.applied = r.applied
                   /\ n = r.pending.sequence /\ ~(n <= r.sequence)
<1> DEFINE x == Acknowledged(r, n)
<1>1. CASE n <= r.applied
  BY <1>1 DEF Acknowledged
<1>2. CASE ~(n <= r.applied) /\ n <= r.sequence
  <2>1. x = Credited(r, n)
    BY <1>2 DEF Acknowledged
  <2> QED BY <2>1, CreditedFields
<1>3. CASE ~(n <= r.applied) /\ ~(n <= r.sequence) /\ n = r.pending.sequence
  <2>1. x = [r EXCEPT !.pending.applied = TRUE]
    BY <1>3 DEF Acknowledged
  <2>2. x = [r EXCEPT !.pending = [r.pending EXCEPT !.applied = TRUE]]
    BY <2>1
  <2> HIDE DEF x
  <2>3. /\ DOMAIN x = RecipientFields
        /\ x.baseline = r.baseline /\ x.sequence = r.sequence
        /\ x.generation = r.generation /\ x.needsKeyframe = r.needsKeyframe
        /\ x.pending = [r.pending EXCEPT !.applied = TRUE] /\ x.applied = r.applied
    BY <2>2 DEF RecipientFields
  <2> QED BY <1>3, <2>3 DEF x
<1>4. CASE ~(n <= r.applied) /\ ~(n <= r.sequence) /\ n # r.pending.sequence
  BY <1>4 DEF Acknowledged
<1> QED BY <1>1, <1>2, <1>3, <1>4

LEMMA HandleAckStep ==
  ASSUME StreamInv, toServer # <<>>, toServer' = Tail(toServer), HandleAck(Head(toServer)),
         UNCHANGED world, UNCHANGED clientVars
  PROVE  StreamStep
<1> DEFINE n == Head(toServer).sequence
<1>1. Len(toServer) \in Nat /\ Len(toServer) > 0 /\ DOMAIN toServer = 1 .. Len(toServer)
      /\ toServer \in Seq(Acks \cup {Join, Resync})
  BY DEF StreamInv, Kinds
<1>2. Head(toServer) = toServer[1] /\ toServer[1] \in Acks \cup {Join, Resync}
  BY <1>1
<1>3. Head(toServer).type = "ack" /\ n \in Nat /\ n <= client.accepted
  <2>1. Head(toServer).type = "ack"
    BY DEF HandleAck
  <2>2. n \in Nat
    BY <1>2, <2>1 DEF Acks, Join, Resync
  <2> QED BY <1>1, <1>2, <2>1, <2>2 DEF StreamInv, ReceiptsAreTrue
<1>4. Len(toServer') = Len(toServer) - 1 /\ toServer' \in Seq(Acks \cup {Join, Resync})
      /\ \A i \in 1 .. Len(toServer') :
            i + 1 \in 1 .. Len(toServer) /\ toServer'[i] = toServer[i + 1]
  BY <1>1
<1>5. UNCHANGED <<owner, socket, toClient>> /\ client' = client /\ view' = view
  BY DEF HandleAck, clientVars
<1>6. /\ DOMAIN recipient' = RecipientFields
      /\ recipient'.baseline = recipient.baseline /\ recipient'.sequence = recipient.sequence
      /\ recipient'.generation = recipient.generation
      /\ recipient'.needsKeyframe = recipient.needsKeyframe
      /\ \/ recipient'.pending = recipient.pending /\ recipient'.applied \in {recipient.applied, n}
         \/ /\ recipient'.pending = [recipient.pending EXCEPT !.applied = TRUE]
            /\ recipient'.applied = recipient.applied
            /\ n = recipient.pending.sequence /\ ~(n <= recipient.sequence)
  <2>1. DOMAIN recipient = RecipientFields
    BY RecipientIs DEF StreamInv
  <2>2. CASE owner
    <3>1. recipient' = Acknowledged(recipient, n)
      BY <2>2 DEF HandleAck
    <3> HIDE DEF n
    <3> QED BY <2>1, <3>1, AcknowledgedFields
  <2>3. CASE ~owner
    BY <2>1, <2>3 DEF HandleAck
  <2> QED BY <2>2, <2>3
<1> HIDE DEF n
<1>7. /\ recipient'.applied \in Nat /\ recipient'.applied <= client.accepted
      /\ recipient'.pending # NoFlight => recipient.pending # NoFlight
      /\ recipient'.pending = NoFlight => recipient.pending = NoFlight
      /\ recipient'.pending # NoFlight =>
            /\ DOMAIN recipient'.pending = FrameFields
            /\ recipient'.pending.sequence = recipient.pending.sequence
            /\ recipient'.pending.world = recipient.pending.world
            /\ recipient'.pending.generation = recipient.pending.generation
            /\ recipient'.pending.applied \in BOOLEAN
            /\ recipient'.pending.applied => recipient'.pending.sequence <= client.accepted
  <2>1. /\ recipient.applied \in Nat /\ recipient.applied <= client.accepted
        /\ recipient.pending # NoFlight /\ recipient.pending.applied =>
              recipient.pending.sequence <= client.accepted
    BY RecipientIs DEF StreamInv, ReceiptsAreTrue, CreditWasApplied
  <2>2. CASE recipient'.pending = recipient.pending /\ recipient'.applied \in {recipient.applied, n}
    BY <1>3, <2>1, <2>2, RecipientIs DEF StreamInv
  <2>3. CASE /\ recipient'.pending = [recipient.pending EXCEPT !.applied = TRUE]
             /\ recipient'.applied = recipient.applied
             /\ n = recipient.pending.sequence /\ ~(n <= recipient.sequence)
    <3>1. recipient.pending # NoFlight
      BY <1>3, <2>3, RecipientIs DEF StreamInv
    <3>2. DOMAIN recipient.pending = FrameFields
      BY <3>1, RecipientIs DEF StreamInv
    <3>3. /\ DOMAIN recipient'.pending = FrameFields /\ recipient'.pending.applied
          /\ recipient'.pending.sequence = recipient.pending.sequence
          /\ recipient'.pending.world = recipient.pending.world
          /\ recipient'.pending.generation = recipient.pending.generation
          /\ recipient'.pending.applied \in BOOLEAN
      BY <2>3, <3>2 DEF FrameFields
    <3>4. recipient'.pending # NoFlight
      BY <3>3 DEF FrameFields, NoFlight
    <3> QED BY <1>3, <2>1, <2>3, <3>1, <3>3, <3>4
  <2> QED BY <1>6, <2>2, <2>3
<1>8. Kinds'
  <2>1. DOMAIN recipient' = DOMAIN NewRecipient
    BY <1>6, Recipients
  <2> QED BY <1>4, <1>5, <1>6, <1>7, <2>1, RecipientIs DEF StreamInv, Kinds
<1>9. LastSent' = LastSent /\ LastOffered' = LastOffered
  BY <1>5, <1>6, <1>7 DEF LastSent, LastOffered
<1>10. LastSent <= LastSent'
  BY <1>9, Numbers DEF StreamInv
<1>11. recipient'.baseline \in Told
  BY <1>6, Baseline
<1>12. socket' = "open" /\ ~recipient'.needsKeyframe =>
            /\ ~recipient.needsKeyframe /\ LastOffered' = LastOffered
            /\ recipient'.pending = NoFlight => recipient'.baseline.sequence = LastOffered
            /\ recipient'.pending # NoFlight =>
                  recipient'.pending.generation = recipient'.generation
  BY <1>5, <1>6, <1>7, <1>9 DEF StreamInv, NextFollows
<1>13. ReceiptsAreTrue'
  <2>1. client.accepted <= client'.accepted
    BY <1>5 DEF StreamInv, Kinds
  <2> QED BY <1>4, <1>5, <1>7, <1>8, <2>1, ReceiptsStay
<1> QED BY <1>5, <1>7, <1>8, <1>10, <1>11, <1>12, <1>13, RecordStep

\* The message read is gone, and the others are as they were.
LEMMA Read ==
  ASSUME StreamInv, toServer # <<>>, toServer' = Tail(toServer)
  PROVE  /\ toServer' \in Seq(Acks \cup {Join, Resync})
         /\ \A i \in 1 .. Len(toServer') :
               i + 1 \in 1 .. Len(toServer) /\ toServer'[i] = toServer[i + 1]
<1>1. Len(toServer) \in Nat /\ Len(toServer) > 0 /\ toServer \in Seq(Acks \cup {Join, Resync})
  BY DEF StreamInv, Kinds
<1> QED BY <1>1

LEMMA HandleResyncStep ==
  ASSUME StreamInv, toServer # <<>>, toServer' = Tail(toServer), HandleResync(Head(toServer)),
         UNCHANGED world, UNCHANGED clientVars
  PROVE  StreamStep
<1>1. /\ UNCHANGED <<toClient, world>> /\ client' = client /\ view' = view
      /\ \/ UNCHANGED <<recipient, owner, socket>>
         \/ owner' = FALSE /\ socket' = "closing" /\ UNCHANGED recipient
         \/ /\ recipient' = [recipient EXCEPT !.needsKeyframe = TRUE, !.resync = TRUE]
            /\ UNCHANGED <<owner, socket>>
  BY DEF HandleResync, CloseSocket, clientVars
<1>2. DOMAIN recipient = RecipientFields /\ recipient.needsKeyframe \in BOOLEAN
  BY RecipientIs DEF StreamInv
<1>3. /\ DOMAIN recipient' = RecipientFields /\ recipient'.baseline = recipient.baseline
      /\ recipient'.sequence = recipient.sequence /\ recipient'.pending = recipient.pending
      /\ recipient'.generation = recipient.generation /\ recipient'.applied = recipient.applied
      /\ recipient'.needsKeyframe \in BOOLEAN
      /\ ~recipient'.needsKeyframe => ~recipient.needsKeyframe
  <2>1. CASE UNCHANGED recipient
    BY <1>2, <2>1
  <2>2. CASE recipient' = [recipient EXCEPT !.needsKeyframe = TRUE, !.resync = TRUE]
    BY <1>2, <2>2 DEF RecipientFields
  <2> QED BY <1>1, <2>1, <2>2
<1>4. Kinds'
  <2>1. DOMAIN recipient' = DOMAIN NewRecipient
    BY <1>3, Recipients
  <2>2. owner' \in BOOLEAN /\ socket' \in {"open", "closing"}
    BY <1>1 DEF StreamInv, Kinds
  <2> QED BY <1>1, <1>3, <2>1, <2>2, Read DEF StreamInv, Kinds
<1>5. LastOffered' = LastOffered
  BY <1>3 DEF LastOffered
<1>6. LastSent <= LastSent'
  <2>1. recipient.sequence \in Nat
    BY RecipientIs DEF StreamInv
  <2> QED BY <1>1, <1>3, <2>1 DEF LastSent
<1>7. recipient'.baseline \in Told
  BY <1>3, Baseline
<1>8. owner' => owner \/ socket' = "closing"
  BY <1>1
<1>9. socket = "closing" => socket' = "closing"
  BY <1>1
<1>10. ASSUME socket' = "open" /\ ~recipient'.needsKeyframe
       PROVE  /\ ~recipient.needsKeyframe /\ LastOffered' = LastOffered
              /\ recipient'.pending = NoFlight => recipient'.baseline.sequence = LastOffered
              /\ recipient'.pending # NoFlight =>
                    recipient'.pending.generation = recipient'.generation
  BY <1>1, <1>3, <1>5, <1>10 DEF StreamInv, NextFollows
<1>11. ReceiptsAreTrue'
  <2>1. client.accepted <= client'.accepted
    BY <1>1 DEF StreamInv, Kinds
  <2>2. recipient'.applied <= client'.accepted
    BY <1>1, <1>3 DEF StreamInv, ReceiptsAreTrue, CreditWasApplied
  <2>3. recipient'.pending # NoFlight /\ recipient'.pending.applied =>
            recipient'.pending.sequence <= client'.accepted
    BY <1>1, <1>3 DEF StreamInv, ReceiptsAreTrue, CreditWasApplied
  <2> QED BY <1>4, <2>1, <2>2, <2>3, Read, ReceiptsStay
<1> QED BY <1>1, <1>3, <1>4, <1>6, <1>7, <1>8, <1>9, <1>10, <1>11, RecordStep

-----------------------------------------------------------------------------
(* A frame is submitted, or a join is answered.                            *)

LEMMA Submitted ==
  ASSUME NEW r, DOMAIN r = RecipientFields, NEW line, Submit(r, line)
  PROVE  /\ r.pending = NoFlight
         /\ \E base \in {NoBaseline} \cup (IF r.needsKeyframe THEN {} ELSE {r.baseline}) :
              toClient' = Append(line, Snapshot(r.sequence + 1, base, world))
         /\ DOMAIN recipient' = RecipientFields /\ recipient'.baseline = r.baseline
         /\ recipient'.sequence = r.sequence /\ recipient'.generation = r.generation
         /\ recipient'.applied = r.applied /\ recipient'.needsKeyframe = FALSE
         /\ recipient'.pending # NoFlight /\ DOMAIN recipient'.pending = FrameFields
         /\ recipient'.pending.sequence = r.sequence + 1 /\ recipient'.pending.world = world
         /\ recipient'.pending.generation = r.generation /\ recipient'.pending.applied = FALSE
<1>1. PICK bytes \in Sizes, base \in {NoBaseline} \cup (IF r.needsKeyframe THEN {} ELSE {r.baseline}) :
        /\ recipient' = [r EXCEPT
              !.pending = [sequence |-> r.sequence + 1, bytes |-> bytes, recovery |-> r.resync,
                           generation |-> r.generation, world |-> world, applied |-> FALSE],
              !.outstanding = @ + bytes,
              !.recovery = IF r.resync THEN r.sequence + 1 ELSE @,
              !.needsKeyframe = FALSE]
        /\ toClient' = Append(line, Snapshot(r.sequence + 1, base, world))
  BY DEF Submit
<1> DEFINE p == [sequence |-> r.sequence + 1, bytes |-> bytes, recovery |-> r.resync,
                 generation |-> r.generation, world |-> world, applied |-> FALSE]
<1>2. /\ DOMAIN p = FrameFields /\ p.sequence = r.sequence + 1 /\ p.world = world
      /\ p.generation = r.generation /\ p.applied = FALSE
  BY DEF FrameFields
<1>3. p # NoFlight
  BY <1>2 DEF FrameFields, NoFlight
<1>4. recipient' = [r EXCEPT
              !.pending = p,
              !.outstanding = @ + bytes,
              !.recovery = IF r.resync THEN r.sequence + 1 ELSE @,
              !.needsKeyframe = FALSE]
  BY <1>1
<1> HIDE DEF p
<1>5. /\ DOMAIN recipient' = RecipientFields /\ recipient'.baseline = r.baseline
      /\ recipient'.sequence = r.sequence /\ recipient'.generation = r.generation
      /\ recipient'.applied = r.applied /\ recipient'.needsKeyframe = FALSE
      /\ recipient'.pending = p
  BY <1>4 DEF RecipientFields
<1>6. r.pending = NoFlight
  BY DEF Submit, CanOffer
<1> QED BY <1>1, <1>2, <1>3, <1>5, <1>6

\* The line, with a joined acknowledgment or without, and the frame at its end.
LEMMA LineGrows ==
  ASSUME Kinds, NEW line \in {toClient, Append(toClient, Joined)}, NEW f \in Snapshots,
         toClient' = Append(line, f)
  PROVE  /\ toClient' \in Seq(Snapshots \cup {Joined})
         /\ Len(line) \in Nat /\ Len(toClient') = Len(line) + 1 /\ toClient'[Len(line) + 1] = f
         /\ Frames' = Frames \cup {Len(line) + 1}
         /\ \A i \in Frames : i <= Len(line) /\ toClient'[i] = toClient[i]
         /\ line # <<>> => toClient'[1] = line[1]
<1>1. Len(toClient) \in Nat /\ DOMAIN toClient = 1 .. Len(toClient)
      /\ toClient \in Seq(Snapshots \cup {Joined})
  BY DEF Kinds
<1>2. /\ line \in Seq(Snapshots \cup {Joined}) /\ Len(line) \in Nat
      /\ Len(line) >= Len(toClient)
      /\ \A i \in 1 .. Len(line) :
            \/ i \in 1 .. Len(toClient) /\ line[i] = toClient[i]
            \/ i = Len(toClient) + 1 /\ line[i] = Joined
      /\ \A i \in 1 .. Len(toClient) : line[i] = toClient[i]
  BY <1>1
<1>3. /\ toClient' \in Seq(Snapshots \cup {Joined}) /\ Len(toClient') = Len(line) + 1
      /\ DOMAIN toClient' = 1 .. Len(line) + 1
      /\ toClient'[Len(line) + 1] = f
      /\ \A i \in 1 .. Len(line) : toClient'[i] = line[i]
  BY <1>2
<1>4. f.type = "snapshot" /\ Joined.type # "snapshot"
  BY DEF Snapshots, Joined
<1>5. Frames' = {i \in 1 .. Len(line) + 1 : toClient'[i].type = "snapshot"}
  BY <1>3 DEF Frames
<1>6. Frames = {i \in 1 .. Len(toClient) : toClient[i].type = "snapshot"}
  BY <1>1 DEF Frames
<1> HIDE DEF Snapshots, Joined
<1>7. ASSUME NEW i PROVE i \in Frames' <=> i \in Frames \cup {Len(line) + 1}
  <2>1. CASE i \in 1 .. Len(line)
    BY <1>1, <1>2, <1>3, <1>4, <1>5, <1>6, <2>1
  <2>2. CASE i = Len(line) + 1
    BY <1>2, <1>3, <1>4, <1>5, <2>2
  <2>3. CASE i \notin 1 .. Len(line) /\ i # Len(line) + 1
    BY <1>1, <1>2, <1>5, <1>6, <2>3
  <2> QED BY <2>1, <2>2, <2>3
<1>8. \A i \in Frames : i <= Len(line) /\ toClient'[i] = toClient[i]
  BY <1>1, <1>2, <1>3, <1>6
<1>9. line # <<>> => toClient'[1] = line[1]
  <2>1. line # <<>> => 1 \in 1 .. Len(line)
    BY <1>2
  <2> QED BY <1>3, <2>1
<1> QED BY <1>2, <1>3, <1>7, <1>8, <1>9

\* A new frame is the newest of all.
LEMMA SubmitStep ==
  ASSUME StreamInv, NEW r, NEW line \in {toClient, Append(toClient, Joined)}, Submit(r, line),
         DOMAIN r = RecipientFields, r.sequence = recipient.sequence, r.pending = recipient.pending,
         r.applied = recipient.applied, r.baseline \in Told, r.generation \in Nat,
         ~r.needsKeyframe => r = recipient /\ line = toClient,
         ~client.ready => line # <<>> /\ line[1] = Joined,
         socket = "open", owner', UNCHANGED <<world, socket, client, view>>,
         toServer' \in Seq(Acks \cup {Join, Resync}), NEW k \in Nat,
         \A i \in 1 .. Len(toServer') :
            i + k \in 1 .. Len(toServer) /\ toServer'[i] = toServer[i + k]
  PROVE  StreamStep
<1> DEFINE n == recipient.sequence + 1
<1>1. /\ Kinds /\ WorldsInOrder /\ JoinComesFirst /\ DeltasFollow /\ NextFollows
      /\ ReceiptsAreTrue
  BY DEF StreamInv
<1>2. PICK base \in {NoBaseline} \cup (IF r.needsKeyframe THEN {} ELSE {r.baseline}) :
        toClient' = Append(line, Snapshot(n, base, world))
  <2>1. \E base \in {NoBaseline} \cup (IF r.needsKeyframe THEN {} ELSE {r.baseline}) :
          toClient' = Append(line, Snapshot(r.sequence + 1, base, world))
    BY Submitted
  <2> QED BY <2>1
<1>3. /\ recipient.pending = NoFlight /\ DOMAIN recipient' = RecipientFields
      /\ recipient'.baseline = r.baseline /\ recipient'.sequence = recipient.sequence
      /\ recipient'.generation = r.generation /\ recipient'.applied = recipient.applied
      /\ recipient'.needsKeyframe = FALSE
      /\ recipient'.pending # NoFlight /\ DOMAIN recipient'.pending = FrameFields
      /\ recipient'.pending.sequence = n /\ recipient'.pending.world = world
      /\ recipient'.pending.generation = r.generation /\ recipient'.pending.applied = FALSE
  BY Submitted
<1>4. /\ recipient.sequence \in Nat /\ n \in Nat \ {0} /\ world \in Nat /\ recipient.applied \in Nat
      /\ view \in Nat /\ client.accepted \in Nat
  BY <1>1, RecipientIs DEF Kinds
<1>5. base \in Told /\ base \in Worlds /\ r.baseline \in Worlds
  BY <1>1, Baseline, ToldAreWorlds
<1> DEFINE f == Snapshot(n, base, world)
<1>6. /\ f \in Snapshots /\ f.sequence = n /\ f.base = base.sequence /\ f.from = base.world
      /\ f.world = world
  BY <1>4, <1>5 DEF Snapshot, Snapshots, Worlds
<1> HIDE DEF f
<1>7. toClient' = Append(line, f)
  BY <1>2 DEF f
<1>8. /\ toClient' \in Seq(Snapshots \cup {Joined})
      /\ Len(line) \in Nat /\ Len(toClient') = Len(line) + 1 /\ toClient'[Len(line) + 1] = f
      /\ Frames' = Frames \cup {Len(line) + 1}
      /\ \A i \in Frames : i <= Len(line) /\ toClient'[i] = toClient[i]
      /\ line # <<>> => toClient'[1] = line[1]
  BY <1>1, <1>6, <1>7, LineGrows
<1>9. Kinds'
  <2>1. DOMAIN recipient' = DOMAIN NewRecipient
    BY <1>3, Recipients
  <2>2. owner' \in BOOLEAN /\ socket' \in {"open", "closing"}
    BY <1>1, Submitted DEF Kinds
  <2> QED BY <1>1, <1>3, <1>4, <1>5, <1>8, <2>1, <2>2 DEF Kinds
<1>10. LastSent = recipient.sequence /\ LastSent' = n /\ LastOffered' = n
  BY <1>3, <1>4 DEF LastSent, LastOffered
<1> DEFINE new == [sequence |-> n, world |-> world]
<1>11. \A a \in Told' : a \in Told \/ a = new
  <2>1. SUFFICES ASSUME NEW a \in Told' PROVE a \in Told \/ a = new
    OBVIOUS
  <2>2. \/ a = NoBaseline \/ a = client'.decoder \/ a = recipient'.baseline
        \/ \E i \in Frames' : a = [sequence |-> toClient'[i].sequence, world |-> toClient'[i].world]
        \/ \E i \in Frames' : a = [sequence |-> toClient'[i].base, world |-> toClient'[i].from]
        \/ /\ recipient'.pending # NoFlight
           /\ a = [sequence |-> recipient'.pending.sequence, world |-> recipient'.pending.world]
    BY ToldAreAfter
  <2>3. CASE a = NoBaseline \/ a = client'.decoder \/ a = recipient'.baseline
    BY <1>3, <2>3, Baseline
  <2>4. ASSUME NEW i \in Frames', a = [sequence |-> toClient'[i].sequence, world |-> toClient'[i].world]
        PROVE  a \in Told \/ a = new
    <3>1. CASE i \in Frames
      BY <1>8, <2>4, <3>1, ToldAre
    <3>2. CASE i = Len(line) + 1
      BY <1>6, <1>8, <2>4, <3>2
    <3> QED BY <1>8, <3>1, <3>2
  <2>5. ASSUME NEW i \in Frames', a = [sequence |-> toClient'[i].base, world |-> toClient'[i].from]
        PROVE  a \in Told \/ a = new
    <3>1. CASE i \in Frames
      BY <1>8, <2>5, <3>1, ToldAre
    <3>2. CASE i = Len(line) + 1
      <4>1. a = [sequence |-> base.sequence, world |-> base.world]
        BY <1>6, <1>8, <2>5, <3>2
      <4>2. a = base
        BY <1>5, <4>1 DEF Worlds
      <4> QED BY <1>5, <4>2
    <3> QED BY <1>8, <3>1, <3>2
  <2>6. CASE a = [sequence |-> recipient'.pending.sequence, world |-> recipient'.pending.world]
    BY <1>3, <2>6
  <2> QED BY <2>2, <2>3, <2>4, <2>5, <2>6
<1>12. \A a \in Told : /\ a.sequence \in Nat /\ a.world \in Nat
                       /\ a.sequence < n /\ a.world <= world
  <2>1. \A a \in Told : a.sequence \in Nat /\ a.world \in Nat
    BY <1>1, ToldAreWorlds DEF Worlds
  <2>2. \A a \in Told : a.sequence <= LastSent /\ a.world <= world
    BY <1>1 DEF WorldsInOrder
  <2> QED BY <1>4, <1>10, <2>1, <2>2
<1>13. new.sequence = n /\ new.world = world
  OBVIOUS
<1>14. \A i \in Frames : toClient[i].sequence < n
  <2>1. \A i \in Frames : [sequence |-> toClient[i].sequence, world |-> toClient[i].world] \in Told
    BY ToldAre
  <2> QED BY <1>12, <2>1
<1>15. Frames \subseteq Nat
  BY <1>1, Numbers
<1> HIDE DEF new
<1>16. WorldsInOrder'
  <2>1. \A a, b \in Told' : a.sequence <= b.sequence => a.world <= b.world
    <3>1. SUFFICES ASSUME NEW a \in Told', NEW b \in Told', a.sequence <= b.sequence
                   PROVE  a.world <= b.world
      OBVIOUS
    <3>2. CASE a \in Told /\ b \in Told
      BY <1>1, <3>1, <3>2 DEF WorldsInOrder
    <3>3. CASE a = new /\ b \in Told
      BY <1>4, <1>12, <1>13, <3>1, <3>3
    <3>4. CASE a \in Told /\ b = new
      BY <1>12, <1>13, <3>4
    <3>5. CASE a = new /\ b = new
      BY <1>4, <1>13, <3>5
    <3> QED BY <1>11, <3>2, <3>3, <3>4, <3>5
  <2>2. \A a \in Told' : a.sequence <= LastSent' /\ a.world <= world'
    <3>1. SUFFICES ASSUME NEW a \in Told' PROVE a.sequence <= n /\ a.world <= world
      BY <1>10
    <3>2. CASE a \in Told
      BY <1>4, <1>12, <3>2
    <3>3. CASE a = new
      BY <1>4, <1>13, <3>3
    <3> QED BY <1>11, <3>2, <3>3
  <2>3. \A i, j \in Frames' : i < j => toClient'[i].sequence < toClient'[j].sequence
    <3>1. SUFFICES ASSUME NEW i \in Frames', NEW j \in Frames', i < j
                   PROVE  toClient'[i].sequence < toClient'[j].sequence
      OBVIOUS
    <3>2. CASE i \in Frames /\ j \in Frames
      BY <1>1, <1>8, <3>1, <3>2 DEF WorldsInOrder
    <3>3. CASE i \in Frames /\ j = Len(line) + 1
      BY <1>6, <1>8, <1>14, <3>3
    <3>4. i # Len(line) + 1
      BY <1>8, <1>15, <3>1
    <3> QED BY <1>8, <3>2, <3>3, <3>4
  <2>4. \A i \in Frames' : /\ view' <= toClient'[i].world
                           /\ client'.decoder.sequence < toClient'[i].sequence
                           /\ client'.accepted < toClient'[i].sequence
    <3>1. SUFFICES ASSUME NEW i \in Frames'
                   PROVE  /\ view <= toClient'[i].world
                          /\ client.decoder.sequence < toClient'[i].sequence
                          /\ client.accepted < toClient'[i].sequence
      OBVIOUS
    <3>2. CASE i \in Frames
      BY <1>1, <1>8, <3>2 DEF WorldsInOrder
    <3>3. CASE i = Len(line) + 1
      <4>1. view <= world /\ client.accepted <= LastSent
        BY <1>1 DEF WorldsInOrder
      <4>2. client.decoder.sequence < n
        BY <1>12, Baseline
      <4> QED BY <1>4, <1>6, <1>8, <1>10, <3>3, <4>1, <4>2
    <3> QED BY <1>8, <3>2, <3>3
  <2>5. view' <= world' /\ client'.accepted <= LastSent'
    BY <1>1, <1>4, <1>10 DEF WorldsInOrder
  <2> QED BY <2>1, <2>2, <2>3, <2>4, <2>5 DEF WorldsInOrder
<1>17. JoinComesFirst'
  BY <1>8 DEF JoinComesFirst
<1>18. DeltasFollow'
  <2>1. SUFFICES ASSUME NEW i \in Frames', toClient'[i].base # 0
        PROVE  /\ toClient'[i].sequence = toClient'[i].base + 1
               /\ \/ i > 1 /\ i - 1 \in Frames' /\ toClient'[i].base = toClient'[i - 1].sequence
                  \/ i = 1 /\ (client'.resync \/ toClient'[i].base = client'.decoder.sequence)
    BY DEF DeltasFollow
  <2>2. CASE i \in Frames
    BY <1>1, <1>8, <2>1, <2>2 DEF DeltasFollow
  <2>3. CASE i = Len(line) + 1
    <3>1. base # NoBaseline
      BY <1>6, <1>8, <2>1, <2>3, Recipients
    <3>2. ~r.needsKeyframe /\ base = r.baseline
      BY <1>2, <3>1
    <3>3. r = recipient /\ line = toClient
      BY <3>2
    <3>4. base.sequence = recipient.sequence /\ LastOffered = recipient.sequence
      BY <1>1, <1>3, <3>2, <3>3 DEF NextFollows, LastOffered
    <3>5. \/ toClient = <<>> /\ (client.resync \/ client.decoder.sequence = LastOffered)
          \/ /\ toClient # <<>> /\ Len(toClient) \in Frames
             /\ toClient[Len(toClient)].sequence = LastOffered
      BY <1>1, <3>2, <3>3 DEF NextFollows
    <3>6. toClient'[i].base = recipient.sequence /\ toClient'[i].sequence = recipient.sequence + 1
      BY <1>6, <1>8, <2>3, <3>4
    <3>7. CASE toClient = <<>>
      BY <2>3, <3>3, <3>4, <3>5, <3>6, <3>7
    <3>8. CASE toClient # <<>>
      <4>1. Len(toClient) \in Frames /\ toClient'[Len(toClient)].sequence = LastOffered
        BY <1>8, <3>5, <3>8
      <4>2. Len(toClient) \in Nat /\ Len(toClient) > 0
        BY <1>1, <3>8, Line
      <4>3. i > 1 /\ i - 1 = Len(toClient)
        BY <2>3, <3>3, <4>2
      <4> QED BY <1>8, <3>4, <3>6, <4>1, <4>3
    <3> QED BY <3>7, <3>8
  <2> QED BY <1>8, <2>2, <2>3
<1>19. NextFollows'
  <2>1. toClient' # <<>> /\ Len(toClient') \in Frames' /\ toClient'[Len(toClient')].sequence = n
    BY <1>6, <1>8
  <2> QED BY <1>3, <1>4, <1>10, <2>1 DEF NextFollows
<1>20. ReceiptsAreTrue'
  <2>1. recipient'.applied <= client'.accepted /\ client.accepted <= client'.accepted
    BY <1>1, <1>3, <1>4 DEF ReceiptsAreTrue, CreditWasApplied
  <2> QED BY <1>3, <1>9, <2>1, ReceiptsStay
<1> QED BY <1>9, <1>16, <1>17, <1>18, <1>19, <1>20 DEF StreamInv, StreamStep, Shown

LEMMA OfferStep ==
  ASSUME StreamInv, Offer
  PROVE  StreamStep
<1>1. /\ owner /\ socket = "open" /\ Submit(recipient, toClient)
      /\ UNCHANGED <<world, owner, socket, toServer>> /\ UNCHANGED <<client, view>>
  BY DEF Offer, clientVars
<1>2. ~client.ready => toClient # <<>> /\ toClient[1] = Joined
  BY <1>1 DEF StreamInv, JoinComesFirst
<1>3. DOMAIN recipient = RecipientFields /\ recipient.generation \in Nat
  BY RecipientIs DEF StreamInv
<1>4. toServer' \in Seq(Acks \cup {Join, Resync}) /\ 0 \in Nat
  BY <1>1 DEF StreamInv, Kinds
<1>5. \A i \in 1 .. Len(toServer') : i + 0 \in 1 .. Len(toServer) /\ toServer'[i] = toServer[i + 0]
  BY <1>1
<1> QED BY <1>1, <1>2, <1>3, <1>4, <1>5, Baseline, SubmitStep

LEMMA NegotiatedFields ==
  ASSUME NEW r, DOMAIN r = RecipientFields
  PROVE  /\ DOMAIN Negotiated(r) = RecipientFields /\ Negotiated(r).sequence = r.sequence
         /\ Negotiated(r).pending = r.pending /\ Negotiated(r).applied = r.applied
         /\ Negotiated(r).baseline = NoBaseline /\ Negotiated(r).generation = r.generation + 1
         /\ Negotiated(r).needsKeyframe = TRUE
BY DEF Negotiated, RecipientFields

\* The join is acknowledged, and the offer of that moment is skipped.
LEMMA AnswerStep ==
  ASSUME StreamInv, socket = "open", owner' = TRUE, UNCHANGED <<world, socket, client, view>>,
         recipient' = Negotiated(recipient), toClient' = Append(toClient, Joined),
         toServer' \in Seq(Acks \cup {Join, Resync}), NEW k \in Nat,
         \A i \in 1 .. Len(toServer') :
            i + k \in 1 .. Len(toServer) /\ toServer'[i] = toServer[i + k]
  PROVE  StreamStep
<1>1. /\ Kinds /\ WorldsInOrder /\ JoinComesFirst /\ DeltasFollow /\ NextFollows
      /\ ReceiptsAreTrue
  BY DEF StreamInv
<1>2. /\ DOMAIN recipient = RecipientFields /\ recipient.generation \in Nat
      /\ recipient.sequence \in Nat
  BY <1>1, RecipientIs
<1>3. /\ DOMAIN recipient' = RecipientFields /\ recipient'.sequence = recipient.sequence
      /\ recipient'.pending = recipient.pending /\ recipient'.applied = recipient.applied
      /\ recipient'.baseline = NoBaseline /\ recipient'.generation = recipient.generation + 1
      /\ recipient'.needsKeyframe = TRUE
  BY <1>2, NegotiatedFields
<1>4. /\ Len(toClient) \in Nat /\ DOMAIN toClient = 1 .. Len(toClient)
      /\ toClient \in Seq(Snapshots \cup {Joined})
  BY <1>1, Line DEF Kinds
<1>5. /\ toClient' \in Seq(Snapshots \cup {Joined}) /\ DOMAIN toClient' = 1 .. Len(toClient) + 1
      /\ \A i \in 1 .. Len(toClient) : toClient'[i] = toClient[i]
      /\ toClient'[Len(toClient) + 1] = Joined /\ toClient' # <<>>
  <2>1. Joined \in Snapshots \cup {Joined}
    OBVIOUS
  <2> HIDE DEF Joined, Snapshots
  <2>2. /\ toClient' \in Seq(Snapshots \cup {Joined}) /\ Len(toClient') = Len(toClient) + 1
        /\ \A i \in 1 .. Len(toClient) : toClient'[i] = toClient[i]
        /\ toClient'[Len(toClient) + 1] = Joined
    BY <1>4, <2>1
  <2>3. DOMAIN toClient' = 1 .. Len(toClient) + 1 /\ toClient' # <<>>
    BY <1>4, <2>2
  <2> QED BY <2>2, <2>3
<1>6. Frames' = Frames /\ \A i \in Frames : toClient'[i] = toClient[i]
  <2>1. Joined.type # "snapshot"
    BY DEF Joined
  <2>2. /\ Frames = {i \in 1 .. Len(toClient) : toClient[i].type = "snapshot"}
        /\ Frames' = {i \in 1 .. Len(toClient) + 1 : toClient'[i].type = "snapshot"}
    BY <1>4, <1>5 DEF Frames
  <2> HIDE DEF Joined
  <2>3. ASSUME NEW i PROVE i \in Frames' <=> i \in Frames
    <3>1. CASE i \in 1 .. Len(toClient)
      BY <1>4, <1>5, <2>2, <3>1
    <3>2. CASE i = Len(toClient) + 1
      BY <1>4, <1>5, <2>1, <2>2, <3>2
    <3>3. CASE i \notin 1 .. Len(toClient) /\ i # Len(toClient) + 1
      BY <1>4, <2>2, <3>3
    <3> QED BY <3>1, <3>2, <3>3
  <2> QED BY <1>5, <2>2, <2>3
<1>7. Kinds'
  <2>1. DOMAIN recipient' = DOMAIN NewRecipient /\ recipient'.baseline \in Worlds
    BY <1>3, Recipients
  <2>2. recipient'.generation \in Nat /\ recipient'.needsKeyframe \in BOOLEAN
    <3>1. recipient'.generation \in Nat
      BY <1>2, <1>3
    <3>2. recipient'.needsKeyframe \in BOOLEAN
      BY <1>3, Zenon
    <3> QED BY <3>1, <3>2
  <2>3. recipient'.pending # NoFlight =>
          /\ DOMAIN recipient'.pending = FrameFields
          /\ recipient'.pending.sequence = recipient'.sequence + 1
          /\ recipient'.pending.world \in Nat /\ recipient'.pending.generation \in Nat
          /\ recipient'.pending.applied \in BOOLEAN
    BY <1>1, <1>3, RecipientIs
  <2>4. recipient'.sequence \in Nat /\ recipient'.applied \in Nat /\ owner' \in BOOLEAN
    BY <1>1, <1>3, RecipientIs
  <2> QED BY <1>1, <1>5, <2>1, <2>2, <2>3, <2>4 DEF Kinds
<1>8. LastSent' = LastSent
  BY <1>3 DEF LastSent
<1>9. Told' \subseteq Told
  <2>1. SUFFICES ASSUME NEW a \in Told' PROVE a \in Told
    OBVIOUS
  <2>2. \/ a = NoBaseline \/ a = client'.decoder \/ a = recipient'.baseline
        \/ \E i \in Frames' : a = [sequence |-> toClient'[i].sequence, world |-> toClient'[i].world]
        \/ \E i \in Frames' : a = [sequence |-> toClient'[i].base, world |-> toClient'[i].from]
        \/ /\ recipient'.pending # NoFlight
           /\ a = [sequence |-> recipient'.pending.sequence, world |-> recipient'.pending.world]
    BY ToldAreAfter
  <2> QED BY <1>3, <1>6, <2>2, ToldAre
<1>10. WorldsInOrder'
  <2>1. Frames \subseteq Nat /\ LastSent \in Nat /\ world \in Nat /\ 0 \in Nat
    BY <1>1, Numbers DEF Kinds
  <2>2. LastSent <= LastSent' /\ world <= world'
    BY <1>8, <2>1
  <2>3. view' <= world' /\ client'.accepted <= LastSent'
    BY <1>1, <1>8 DEF WorldsInOrder
  <2>4. ASSUME NEW i \in Frames' PROVE i + 0 \in Frames /\ toClient'[i] = toClient[i + 0]
    <3>1. i \in Nat /\ i \in Frames /\ toClient'[i] = toClient[i]
      BY <1>6, <2>1
    <3>2. i + 0 = i
      BY <3>1
    <3> QED BY <3>1, <3>2
  <2>5. \A i \in Frames' : /\ view' <= toClient'[i].world
                           /\ client'.decoder.sequence < toClient'[i].sequence
                           /\ client'.accepted < toClient'[i].sequence
    BY <1>1, <1>6 DEF WorldsInOrder
  <2> QED BY <1>1, <1>7, <1>9, <2>1, <2>2, <2>3, <2>4, <2>5, OrderKept
<1>11. JoinComesFirst'
  <2>1. CASE toClient = <<>>
    <3>1. Len(toClient) = 0
      BY <2>1
    <3> QED BY <1>5, <3>1 DEF JoinComesFirst
  <2>2. CASE toClient # <<>>
    <3>1. 1 \in 1 .. Len(toClient)
      BY <1>4, <2>2
    <3> QED BY <1>1, <1>5, <2>2, <3>1 DEF JoinComesFirst
  <2> QED BY <2>1, <2>2
<1>12. DeltasFollow'
  <2>1. SUFFICES ASSUME NEW i \in Frames, toClient'[i].base # 0
        PROVE  /\ toClient'[i].sequence = toClient'[i].base + 1
               /\ \/ i > 1 /\ i - 1 \in Frames /\ toClient'[i].base = toClient'[i - 1].sequence
                  \/ i = 1 /\ (client.resync \/ toClient'[i].base = client.decoder.sequence)
    BY <1>6 DEF DeltasFollow
  <2> QED BY <1>1, <1>6, <2>1 DEF DeltasFollow
<1>13. NextFollows'
  BY <1>3 DEF NextFollows
<1>14. ReceiptsAreTrue'
  <2>1. recipient'.applied <= client'.accepted /\ client.accepted <= client'.accepted
    BY <1>1, <1>3 DEF ReceiptsAreTrue, CreditWasApplied, Kinds
  <2>2. recipient'.pending # NoFlight /\ recipient'.pending.applied =>
            recipient'.pending.sequence <= client'.accepted
    BY <1>1, <1>3 DEF ReceiptsAreTrue, CreditWasApplied
  <2> QED BY <1>7, <2>1, <2>2, ReceiptsStay
<1> QED BY <1>7, <1>10, <1>11, <1>12, <1>13, <1>14 DEF StreamInv, StreamStep, Shown

LEMMA HandleJoinStep ==
  ASSUME StreamInv, toServer # <<>>, toServer' = Tail(toServer), HandleJoin(Head(toServer)),
         UNCHANGED world, UNCHANGED clientVars
  PROVE  StreamStep
<1>1. /\ owner' = TRUE /\ UNCHANGED <<world, socket, client, view>>
      /\ \/ /\ socket = "open" /\ recipient' = Negotiated(recipient)
            /\ toClient' = Append(toClient, Joined)
         \/ socket = "open" /\ Submit(Negotiated(recipient), Append(toClient, Joined))
         \/ /\ socket = "closing" /\ recipient' = Negotiated(recipient)
            /\ UNCHANGED toClient
  BY DEF HandleJoin, clientVars
<1>2. /\ DOMAIN recipient = RecipientFields /\ recipient.generation \in Nat
      /\ recipient.sequence \in Nat
  BY RecipientIs DEF StreamInv
<1> DEFINE r == Negotiated(recipient)
<1>3. /\ DOMAIN r = RecipientFields /\ r.sequence = recipient.sequence
      /\ r.pending = recipient.pending /\ r.applied = recipient.applied
      /\ r.baseline = NoBaseline /\ r.generation = recipient.generation + 1
      /\ r.needsKeyframe = TRUE
  BY <1>2, NegotiatedFields
<1>4. r.generation \in Nat /\ r.baseline \in Told
  BY <1>2, <1>3, Baseline
<1>5. /\ toServer' \in Seq(Acks \cup {Join, Resync}) /\ 1 \in Nat
      /\ \A i \in 1 .. Len(toServer') :
            i + 1 \in 1 .. Len(toServer) /\ toServer'[i] = toServer[i + 1]
  BY Read
<1> HIDE DEF r
<1>6. CASE /\ socket = "open" /\ recipient' = Negotiated(recipient)
           /\ toClient' = Append(toClient, Joined)
  BY <1>1, <1>5, <1>6, AnswerStep
<1>7. CASE socket = "open" /\ Submit(r, Append(toClient, Joined))
  <2>1. Append(toClient, Joined) # <<>> /\ (~client.ready => Append(toClient, Joined)[1] = Joined)
    <3>1. toClient \in Seq(Snapshots \cup {Joined}) /\ Len(toClient) \in Nat
      BY DEF StreamInv, Kinds
    <3>2. CASE toClient = <<>>
      BY <3>1, <3>2
    <3>3. CASE toClient # <<>>
      <4>1. Len(toClient) > 0 /\ Append(toClient, Joined)[1] = toClient[1]
        BY <3>1, <3>3
      <4> QED BY <3>1, <3>3, <4>1 DEF StreamInv, JoinComesFirst
    <3> QED BY <3>2, <3>3
  <2> QED BY <1>1, <1>3, <1>4, <1>5, <1>7, <2>1, SubmitStep
<1>8. CASE socket = "closing" /\ recipient' = r /\ UNCHANGED toClient
  <2>1. Kinds'
    <3>1. DOMAIN recipient' = DOMAIN NewRecipient /\ recipient'.baseline \in Worlds
      BY <1>3, <1>8, Recipients
    <3>2. recipient'.generation \in Nat /\ recipient'.needsKeyframe \in BOOLEAN
      <4>1. recipient'.generation \in Nat
        BY <1>2, <1>3, <1>8
      <4>2. recipient'.needsKeyframe \in BOOLEAN
        BY <1>3, <1>8, Zenon
      <4> QED BY <4>1, <4>2
    <3>3. recipient'.pending # NoFlight =>
            /\ DOMAIN recipient'.pending = FrameFields
            /\ recipient'.pending.sequence = recipient'.sequence + 1
            /\ recipient'.pending.world \in Nat /\ recipient'.pending.generation \in Nat
            /\ recipient'.pending.applied \in BOOLEAN
      BY <1>3, <1>8, RecipientIs DEF StreamInv
    <3>4. recipient'.sequence \in Nat /\ recipient'.applied \in Nat /\ owner' \in BOOLEAN
      BY <1>1, <1>3, <1>8, RecipientIs DEF StreamInv
    <3> QED BY <1>1, <1>5, <1>8, <3>1, <3>2, <3>3, <3>4 DEF StreamInv, Kinds
  <2>2. LastSent <= LastSent'
    BY <1>1, <1>2, <1>3, <1>8 DEF LastSent
  <2>3. ReceiptsAreTrue'
    <3>1. recipient'.applied <= client'.accepted /\ client.accepted <= client'.accepted
      BY <1>1, <1>3, <1>8 DEF StreamInv, ReceiptsAreTrue, CreditWasApplied, Kinds
    <3>2. recipient'.pending # NoFlight /\ recipient'.pending.applied =>
              recipient'.pending.sequence <= client'.accepted
      BY <1>1, <1>3, <1>8 DEF StreamInv, ReceiptsAreTrue, CreditWasApplied
    <3> QED BY <1>5, <2>1, <3>1, <3>2, ReceiptsStay
  <2>4. socket' = "closing" /\ socket' # "open" /\ recipient'.pending = recipient.pending
    BY <1>1, <1>3, <1>8
  <2> QED BY <1>1, <1>4, <1>8, <2>1, <2>2, <2>3, <2>4, RecordStep
<1> QED BY <1>1, <1>6, <1>7, <1>8 DEF r

LEMMA ServerReadsStep ==
  ASSUME StreamInv, ServerReads
  PROVE  StreamStep
<1>1. /\ toServer # <<>> /\ toServer' = Tail(toServer) /\ UNCHANGED world
      /\ UNCHANGED clientVars
      /\ \/ HandleJoin(Head(toServer))
         \/ HandleAck(Head(toServer))
         \/ HandleResync(Head(toServer))
  BY DEF ServerReads
<1> QED BY <1>1, HandleJoinStep, HandleAckStep, HandleResyncStep

-----------------------------------------------------------------------------
(* The client's steps.                                                     *)

\* The first message is gone, and the others are as they were.
LEMMA FirstIsRead ==
  ASSUME Kinds, toClient # <<>>, toClient' = Tail(toClient)
  PROVE  /\ toClient' \in Seq(Snapshots \cup {Joined})
         /\ Len(toClient) \in Nat \ {0} /\ Len(toClient') = Len(toClient) - 1
         /\ Head(toClient) = toClient[1]
         /\ toClient[1].type = "snapshot" <=> 1 \in Frames
         /\ \A i \in Frames' : i \in Nat \ {0} /\ i + 1 \in Frames /\ toClient'[i] = toClient[i + 1]
         /\ \A i \in Frames : i > 1 => i - 1 \in Frames' /\ toClient'[i - 1] = toClient[i]
<1>1. toClient \in Seq(Snapshots \cup {Joined}) /\ DOMAIN toClient = 1 .. Len(toClient)
      /\ Len(toClient) \in Nat \ {0}
  BY DEF Kinds
<1> HIDE DEF Snapshots, Joined
<1>2. /\ toClient' \in Seq(Snapshots \cup {Joined}) /\ Len(toClient') = Len(toClient) - 1
      /\ DOMAIN toClient' = 1 .. Len(toClient) - 1 /\ Head(toClient) = toClient[1]
      /\ \A i \in 1 .. Len(toClient) - 1 : toClient'[i] = toClient[i + 1]
  BY <1>1
<1>3. /\ Frames = {i \in 1 .. Len(toClient) : toClient[i].type = "snapshot"}
      /\ Frames' = {i \in 1 .. Len(toClient) - 1 : toClient'[i].type = "snapshot"}
  BY <1>1, <1>2 DEF Frames
<1>4. ASSUME NEW i \in Frames'
      PROVE  i \in Nat \ {0} /\ i + 1 \in Frames /\ toClient'[i] = toClient[i + 1]
  BY <1>1, <1>2, <1>3
<1>5. ASSUME NEW i \in Frames, i > 1
      PROVE  i - 1 \in Frames' /\ toClient'[i - 1] = toClient[i]
  <2>1. i - 1 \in 1 .. Len(toClient) - 1 /\ (i - 1) + 1 = i
    BY <1>1, <1>3, <1>5
  <2> QED BY <1>2, <1>3, <2>1
<1> QED BY <1>1, <1>2, <1>3, <1>4, <1>5

\* The client moves past the first message.
LEMMA ReadStep ==
  ASSUME StreamInv, Kinds', toClient # <<>>, toClient' = Tail(toClient), client'.ready,
         UNCHANGED <<world, recipient, owner, socket>>, client'.decoder \in Told,
         view <= view', view' <= world,
         client.accepted <= client'.accepted, client'.accepted <= LastSent,
         \A i \in Frames : i > 1 => /\ view' <= toClient[i].world
                                    /\ client'.decoder.sequence < toClient[i].sequence
                                    /\ client'.accepted < toClient[i].sequence,
         \/ 1 \notin Frames
         \/ client'.resync
         \/ client'.decoder.sequence = toClient[1].sequence,
         \A i \in 1 .. Len(toServer') :
            \/ i \in 1 .. Len(toServer) /\ toServer'[i] = toServer[i]
            \/ toServer'[i].type # "ack"
            \/ toServer'[i].sequence <= client'.accepted
  PROVE  StreamStep
<1>1. /\ Kinds /\ WorldsInOrder /\ JoinComesFirst /\ DeltasFollow /\ NextFollows
      /\ ReceiptsAreTrue
  BY DEF StreamInv
<1>2. /\ Len(toClient) \in Nat \ {0} /\ Len(toClient') = Len(toClient) - 1
      /\ \A i \in Frames' : i \in Nat \ {0} /\ i + 1 \in Frames /\ toClient'[i] = toClient[i + 1]
      /\ \A i \in Frames : i > 1 => i - 1 \in Frames' /\ toClient'[i - 1] = toClient[i]
  BY <1>1, FirstIsRead
<1>3. LastSent' = LastSent /\ LastOffered' = LastOffered /\ world \in Nat /\ LastSent \in Nat
      /\ view \in Nat /\ view' \in Nat
  BY <1>1, Numbers DEF LastSent, LastOffered, Kinds
<1>4. Told' \subseteq Told
  <2>1. SUFFICES ASSUME NEW a \in Told' PROVE a \in Told
    OBVIOUS
  <2>2. \/ a = NoBaseline \/ a = client'.decoder \/ a = recipient'.baseline
        \/ \E i \in Frames' : a = [sequence |-> toClient'[i].sequence, world |-> toClient'[i].world]
        \/ \E i \in Frames' : a = [sequence |-> toClient'[i].base, world |-> toClient'[i].from]
        \/ /\ recipient'.pending # NoFlight
           /\ a = [sequence |-> recipient'.pending.sequence, world |-> recipient'.pending.world]
    BY ToldAreAfter
  <2> QED BY <1>2, <2>2, ToldAre
<1>5. WorldsInOrder'
  <2>1. LastSent <= LastSent' /\ world <= world' /\ view' <= world'
        /\ client'.accepted <= LastSent' /\ 1 \in Nat
    BY <1>3
  <2>2. ASSUME NEW i \in Frames'
        PROVE  /\ view' <= toClient'[i].world
               /\ client'.decoder.sequence < toClient'[i].sequence
               /\ client'.accepted < toClient'[i].sequence
    <3>1. i \in Nat \ {0} /\ i + 1 \in Frames /\ toClient'[i] = toClient[i + 1]
      BY <1>2
    <3>2. i + 1 > 1
      BY <3>1
    <3> QED BY <3>1, <3>2
  <2> QED BY <1>1, <1>2, <1>4, <2>1, <2>2, OrderKept
<1>6. JoinComesFirst'
  BY DEF JoinComesFirst
<1>7. DeltasFollow'
  <2>1. SUFFICES ASSUME NEW i \in Frames', toClient'[i].base # 0
        PROVE  /\ toClient'[i].sequence = toClient'[i].base + 1
               /\ \/ i > 1 /\ i - 1 \in Frames' /\ toClient'[i].base = toClient'[i - 1].sequence
                  \/ i = 1 /\ (client'.resync \/ toClient'[i].base = client'.decoder.sequence)
    BY DEF DeltasFollow
  <2>2. /\ i \in Nat \ {0} /\ i + 1 \in Frames /\ toClient'[i] = toClient[i + 1]
        /\ i + 1 > 1 /\ i + 1 # 1 /\ (i + 1) - 1 = i
    <3>1. i \in Nat \ {0} /\ i + 1 \in Frames /\ toClient'[i] = toClient[i + 1]
      BY <1>2
    <3>2. i + 1 > 1 /\ i + 1 # 1 /\ (i + 1) - 1 = i
      BY <3>1
    <3> QED BY <3>1, <3>2
  <2>3. /\ toClient[i + 1].sequence = toClient[i + 1].base + 1
        /\ i \in Frames /\ toClient[i + 1].base = toClient[i].sequence
    BY <1>1, <2>1, <2>2 DEF DeltasFollow
  <2>4. CASE i = 1
    BY <2>2, <2>3, <2>4
  <2>5. CASE i > 1
    <3>1. i - 1 \in Frames' /\ toClient'[i - 1] = toClient[i]
      BY <1>2, <2>3, <2>5
    <3> QED BY <2>2, <2>3, <2>5, <3>1
  <2>6. i = 1 \/ i > 1
    BY <2>2
  <2> QED BY <2>4, <2>5, <2>6
<1>8. NextFollows'
  <2>1. SUFFICES ASSUME socket = "open", ~recipient.needsKeyframe
                 PROVE  \/ /\ toClient' = <<>>
                           /\ client'.resync \/ client'.decoder.sequence = LastOffered
                        \/ /\ toClient' # <<>> /\ Len(toClient') \in Frames'
                           /\ toClient'[Len(toClient')].sequence = LastOffered
    <3>1. /\ LastOffered' = LastOffered
          /\ \/ ~(socket' = "open" /\ ~recipient'.needsKeyframe)
             \/ \/ /\ toClient' = <<>>
                   /\ client'.resync \/ client'.decoder.sequence = LastOffered
                \/ /\ toClient' # <<>> /\ Len(toClient') \in Frames'
                   /\ toClient'[Len(toClient')].sequence = LastOffered
      BY <1>3, <2>1
    <3> QED BY <1>1, <3>1 DEF NextFollows
  <2>2. Len(toClient) \in Frames /\ toClient[Len(toClient)].sequence = LastOffered
    BY <1>1, <2>1 DEF NextFollows
  <2>3. CASE Len(toClient) = 1
    <3>1. toClient' = <<>>
      BY <1>1, <1>2, <2>3, FirstIsRead
    <3> QED BY <2>2, <2>3, <3>1
  <2>4. CASE Len(toClient) > 1
    <3>1. Len(toClient') \in Frames' /\ toClient'[Len(toClient')] = toClient[Len(toClient)]
      BY <1>2, <2>2, <2>4
    <3>2. toClient' # <<>>
      <4>1. Len(toClient') > 0
        BY <1>2, <2>4
      <4> QED BY <4>1
    <3> QED BY <2>2, <3>1, <3>2
  <2> QED BY <1>2, <2>3, <2>4
<1>9. ReceiptsAreTrue'
  <2>1. client.accepted \in Nat /\ client'.accepted \in Nat /\ recipient.applied \in Nat /\ 0 \in Nat
    BY <1>1 DEF Kinds
  <2>2. recipient'.applied <= client'.accepted
    BY <1>1, <2>1 DEF ReceiptsAreTrue, CreditWasApplied
  <2>3. recipient'.pending # NoFlight /\ recipient'.pending.applied =>
            recipient'.pending.sequence <= client'.accepted
    <3>1. SUFFICES ASSUME recipient.pending # NoFlight, recipient.pending.applied
                   PROVE  recipient.pending.sequence <= client'.accepted
      OBVIOUS
    <3>2. recipient.pending.sequence \in Nat /\ recipient.pending.sequence <= client.accepted
      BY <1>1, <3>1, RecipientIs DEF ReceiptsAreTrue, CreditWasApplied
    <3> QED BY <2>1, <3>2
  <2>4. ASSUME NEW i \in 1 .. Len(toServer')
        PROVE  \/ i + 0 \in 1 .. Len(toServer) /\ toServer'[i] = toServer[i + 0]
               \/ toServer'[i].type # "ack"
               \/ toServer'[i].sequence <= client'.accepted
    <3>1. i + 0 = i
      OBVIOUS
    <3> QED BY <3>1
  <2> QED BY <2>1, <2>2, <2>3, <2>4, ReceiptsStay
<1>10. Shown
  BY <1>3 DEF Shown
<1> QED BY <1>5, <1>6, <1>7, <1>8, <1>9, <1>10 DEF StreamInv, StreamStep

Clients == [ready : BOOLEAN, decoder : Worlds, resync : BOOLEAN, accepted : Nat, joins : Nat]

LEMMA ClientIs ==
  ASSUME Kinds
  PROVE  /\ client \in Clients /\ view \in Nat /\ world \in Nat
         /\ toServer \in Seq(Acks \cup {Join, Resync}) /\ Len(toServer) \in Nat
BY DEF Kinds, Clients

\* One more message to the server.
LEMMA LineToServer ==
  ASSUME StreamInv, NEW m \in Acks \cup {Join, Resync}, toServer' = Append(toServer, m)
  PROVE  /\ toServer' \in Seq(Acks \cup {Join, Resync})
         /\ \A i \in 1 .. Len(toServer') :
               \/ i \in 1 .. Len(toServer) /\ toServer'[i] = toServer[i]
               \/ toServer'[i] = m
<1>1. toServer \in Seq(Acks \cup {Join, Resync}) /\ Len(toServer) \in Nat
  BY ClientIs DEF StreamInv
<1> HIDE DEF Acks, Join, Resync
<1> QED BY <1>1

\* A recovery request, once.
LEMMA Asked ==
  ASSUME StreamInv, NEW c, AskAgain(c)
  PROVE  /\ client' = [c EXCEPT !.resync = TRUE]
         /\ toServer' \in Seq(Acks \cup {Join, Resync})
         /\ \A i \in 1 .. Len(toServer') :
               \/ i \in 1 .. Len(toServer) /\ toServer'[i] = toServer[i]
               \/ toServer'[i].type # "ack"
<1>1. client' = [c EXCEPT !.resync = TRUE]
  BY DEF AskAgain
<1>2. toServer' = toServer \/ toServer' = Append(toServer, Resync)
  BY DEF AskAgain
<1>3. CASE toServer' = toServer
  BY <1>1, <1>3, ClientIs DEF StreamInv
<1>4. CASE toServer' = Append(toServer, Resync)
  <2>1. Resync.type # "ack"
    BY DEF Resync
  <2>2. Resync \in Acks \cup {Join, Resync}
    OBVIOUS
  <2> QED BY <1>1, <1>4, <2>1, <2>2, LineToServer
<1> QED BY <1>2, <1>3, <1>4

\* The kinds of what a read changes.
LEMMA KindsAfterRead ==
  ASSUME StreamInv, toClient # <<>>, toClient' = Tail(toClient), client' \in Clients,
         view' \in Nat, toServer' \in Seq(Acks \cup {Join, Resync}),
         UNCHANGED <<world, recipient, owner, socket>>
  PROVE  Kinds'
<1>1. Kinds
  BY DEF StreamInv
<1>2. toClient' \in Seq(Snapshots \cup {Joined})
  BY <1>1, FirstIsRead
<1> QED BY <1>1, <1>2 DEF Kinds, Clients

\* The first frame of the line, and the others after it.
LEMMA FirstFrame ==
  ASSUME StreamInv, toClient # <<>>, Head(toClient).type = "snapshot"
  PROVE  LET f == Head(toClient)
         IN  /\ f = toClient[1] /\ 1 \in Frames /\ f \in Snapshots
             /\ [sequence |-> f.sequence, world |-> f.world] \in Told
             /\ [sequence |-> f.base, world |-> f.from] \in Told
             /\ view <= f.world /\ f.world <= world /\ f.sequence <= LastSent
             /\ client.decoder.sequence < f.sequence /\ client.accepted < f.sequence
             /\ \A i \in Frames : i > 1 => /\ f.world <= toClient[i].world
                                           /\ f.sequence < toClient[i].sequence
<1> DEFINE f == Head(toClient)
<1>1. Kinds /\ WorldsInOrder
  BY DEF StreamInv
<1>2. f = toClient[1] /\ 1 \in Frames
  <2>1. Len(toClient) \in Nat \ {0} /\ DOMAIN toClient = 1 .. Len(toClient)
        /\ toClient \in Seq(Snapshots \cup {Joined})
    BY <1>1 DEF Kinds
  <2>2. f = toClient[1] /\ 1 \in 1 .. Len(toClient)
    BY <2>1
  <2> QED BY <2>1, <2>2 DEF Frames
<1> HIDE DEF f
<1>3. f \in Snapshots
  BY <1>1, <1>2, Line
<1>4. \A i \in Frames :
        /\ [sequence |-> toClient[i].sequence, world |-> toClient[i].world] \in Told
        /\ [sequence |-> toClient[i].base, world |-> toClient[i].from] \in Told
  BY ToldAre
<1>5. f.world <= world /\ f.sequence <= LastSent
  BY <1>1, <1>2, <1>4 DEF WorldsInOrder
<1>6. view <= f.world /\ client.decoder.sequence < f.sequence /\ client.accepted < f.sequence
  BY <1>1, <1>2 DEF WorldsInOrder
<1>7. ASSUME NEW i \in Frames, i > 1
      PROVE  f.world <= toClient[i].world /\ f.sequence < toClient[i].sequence
  <2>1. f.sequence < toClient[i].sequence
    BY <1>1, <1>2, <1>7 DEF WorldsInOrder
  <2>2. f.sequence \in Nat /\ toClient[i].sequence \in Nat
    BY <1>1, <1>3, Line DEF Snapshots
  <2>3. f.sequence <= toClient[i].sequence
    BY <2>1, <2>2
  <2> QED BY <1>1, <1>2, <1>4, <2>1, <2>3 DEF WorldsInOrder
<1> QED BY <1>2, <1>3, <1>4, <1>5, <1>6, <1>7 DEF f

\* A delta is read over the world it was made of.
LEMMA DecodedIs ==
  ASSUME StreamInv, toClient # <<>>, Head(toClient).type = "snapshot", Fits(Head(toClient))
  PROVE  Decoded(Head(toClient)) = Head(toClient).world
<1> DEFINE f == Head(toClient)
<1>1. /\ f \in Snapshots /\ [sequence |-> f.base, world |-> f.from] \in Told
      /\ client.decoder \in Told /\ client.decoder \in Worlds
  BY FirstFrame, Baseline, ClientIs DEF StreamInv, Clients
<1> HIDE DEF f
<1>2. CASE f.base = 0
  BY <1>2 DEF Decoded, f
<1>3. CASE f.base # 0
  <2>1. f.base = client.decoder.sequence
    BY <1>3 DEF Fits, f
  <2>2. f.from <= client.decoder.world /\ client.decoder.world <= f.from
    <3>1. \A a, b \in Told : a.sequence <= b.sequence => a.world <= b.world
      BY DEF StreamInv, WorldsInOrder
    <3>2. f.base <= client.decoder.sequence /\ client.decoder.sequence <= f.base
      BY <1>1, <2>1 DEF Worlds
    <3> QED BY <1>1, <3>1, <3>2
  <2>3. f.from = client.decoder.world
    BY <1>1, <2>2 DEF Snapshots, Worlds
  <2> QED BY <2>3 DEF Decoded, f
<1> QED BY <1>2, <1>3

LEMMA ReadJoinedStep ==
  ASSUME StreamInv, toClient # <<>>, toClient' = Tail(toClient), ReadJoined(Head(toClient)),
         UNCHANGED <<world, recipient, owner, socket>>
  PROVE  StreamStep
<1>1. /\ Head(toClient).type = "joined" /\ UNCHANGED <<toServer, view>>
      /\ client' = [client EXCEPT !.ready = TRUE, !.decoder = NoBaseline, !.resync = FALSE]
  BY DEF ReadJoined
<1>2. client \in Clients /\ view \in Nat /\ world \in Nat /\ Kinds /\ WorldsInOrder
      /\ toServer \in Seq(Acks \cup {Join, Resync})
  BY ClientIs DEF StreamInv
<1>3. 1 \notin Frames
  BY <1>1, <1>2, FirstIsRead
<1>4. /\ client' \in Clients /\ client'.ready /\ client'.decoder = NoBaseline
      /\ client'.accepted = client.accepted
  BY <1>1, <1>2, Recipients DEF Clients
<1>5. client.accepted <= client'.accepted /\ client'.accepted <= LastSent /\ client.accepted \in Nat
  BY <1>2, <1>4 DEF WorldsInOrder, Clients
<1>6. view <= view' /\ view' <= world
  BY <1>1, <1>2 DEF WorldsInOrder
<1>7. ASSUME NEW i \in Frames
      PROVE  /\ view' <= toClient[i].world
             /\ client'.decoder.sequence < toClient[i].sequence
             /\ client'.accepted < toClient[i].sequence
  <2>1. toClient[i].sequence \in Nat \ {0}
    BY <1>2, Line DEF Snapshots
  <2>2. 0 < toClient[i].sequence
    BY <2>1
  <2> QED BY <1>1, <1>2, <1>4, <2>2, Recipients DEF WorldsInOrder
<1>8. Kinds'
  BY <1>1, <1>2, <1>4, KindsAfterRead
<1>9. client'.decoder \in Told
  BY <1>4, Baseline
<1> QED BY <1>1, <1>3, <1>4, <1>5, <1>6, <1>7, <1>8, <1>9, ReadStep

LEMMA RejectFrameStep ==
  ASSUME StreamInv, toClient # <<>>, toClient' = Tail(toClient), RejectFrame(Head(toClient)),
         UNCHANGED <<world, recipient, owner, socket>>
  PROVE  StreamStep
<1>1. AskAgain(client) /\ client.ready /\ view' = view
  BY DEF RejectFrame
<1>2. client \in Clients /\ view \in Nat /\ world \in Nat /\ WorldsInOrder
  BY ClientIs DEF StreamInv
<1>3. /\ client' = [client EXCEPT !.resync = TRUE]
      /\ toServer' \in Seq(Acks \cup {Join, Resync})
      /\ \A i \in 1 .. Len(toServer') :
            \/ i \in 1 .. Len(toServer) /\ toServer'[i] = toServer[i]
            \/ toServer'[i].type # "ack"
  BY <1>1, Asked
<1>4. /\ client' \in Clients /\ client'.ready /\ client'.decoder = client.decoder
      /\ client'.accepted = client.accepted /\ client'.resync
  BY <1>1, <1>2, <1>3 DEF Clients
<1>5. client.accepted <= client'.accepted /\ client'.accepted <= LastSent /\ client.accepted \in Nat
  BY <1>2, <1>4 DEF WorldsInOrder, Clients
<1>6. view <= view' /\ view' <= world
  BY <1>1, <1>2 DEF WorldsInOrder
<1>7. \A i \in Frames : /\ view' <= toClient[i].world
                        /\ client'.decoder.sequence < toClient[i].sequence
                        /\ client'.accepted < toClient[i].sequence
  BY <1>1, <1>2, <1>4 DEF WorldsInOrder
<1>8. Kinds'
  BY <1>1, <1>2, <1>3, <1>4, KindsAfterRead
<1>9. client'.decoder \in Told
  BY <1>4, Baseline
<1> QED BY <1>3, <1>4, <1>5, <1>6, <1>7, <1>8, <1>9, ReadStep

\* A frame is decoded, and applied or not.
LEMMA FrameStep ==
  ASSUME StreamInv, toClient # <<>>, toClient' = Tail(toClient),
         Head(toClient).type = "snapshot", Fits(Head(toClient)),
         UNCHANGED <<world, recipient, owner, socket>>,
         client' \in Clients, client'.ready,
         client'.decoder = [sequence |-> Head(toClient).sequence, world |-> Decoded(Head(toClient))],
         \/ client'.accepted = client.accepted /\ view' = view
         \/ client'.accepted = Head(toClient).sequence /\ view' = Decoded(Head(toClient)),
         toServer' \in Seq(Acks \cup {Join, Resync}),
         \A i \in 1 .. Len(toServer') :
            \/ i \in 1 .. Len(toServer) /\ toServer'[i] = toServer[i]
            \/ toServer'[i].type # "ack"
            \/ toServer'[i].sequence <= client'.accepted
  PROVE  StreamStep
<1> DEFINE f == Head(toClient)
<1>1. /\ f = toClient[1] /\ 1 \in Frames /\ f \in Snapshots
      /\ [sequence |-> f.sequence, world |-> f.world] \in Told
      /\ view <= f.world /\ f.world <= world /\ f.sequence <= LastSent
      /\ client.decoder.sequence < f.sequence /\ client.accepted < f.sequence
      /\ \A i \in Frames : i > 1 => /\ f.world <= toClient[i].world
                                    /\ f.sequence < toClient[i].sequence
  BY FirstFrame
<1>2. Decoded(f) = f.world
  BY DecodedIs
<1>3. client'.decoder = [sequence |-> f.sequence, world |-> f.world]
  BY <1>2
<1>4. \/ client'.accepted = client.accepted /\ view' = view
      \/ client'.accepted = f.sequence /\ view' = f.world
  BY <1>2
<1> HIDE DEF f
<1>5. /\ client.accepted \in Nat /\ view \in Nat /\ world \in Nat /\ WorldsInOrder
      /\ f.sequence \in Nat /\ f.world \in Nat
  BY <1>1, ClientIs DEF StreamInv, Clients, Snapshots
<1>6. /\ view' \in Nat /\ view <= view' /\ view' <= world
      /\ client.accepted <= client'.accepted /\ client'.accepted <= LastSent
  BY <1>1, <1>4, <1>5 DEF WorldsInOrder
<1>7. \A i \in Frames : i > 1 => /\ view' <= toClient[i].world
                                 /\ client'.decoder.sequence < toClient[i].sequence
                                 /\ client'.accepted < toClient[i].sequence
  BY <1>1, <1>3, <1>4, <1>5 DEF WorldsInOrder
<1>8. Kinds'
  BY <1>6, KindsAfterRead
<1>9. client'.decoder \in Told /\ client'.decoder.sequence = toClient[1].sequence
  BY <1>1, <1>3
<1> QED BY <1>6, <1>7, <1>8, <1>9, ReadStep

LEMMA ApplyFrameStep ==
  ASSUME StreamInv, toClient # <<>>, toClient' = Tail(toClient), ApplyFrame(Head(toClient)),
         UNCHANGED <<world, recipient, owner, socket>>
  PROVE  StreamStep
<1> DEFINE f == Head(toClient)
           d == [sequence |-> f.sequence, world |-> Decoded(f)]
<1>1. /\ f.type = "snapshot" /\ client.ready /\ Fits(f) /\ view' = Decoded(f)
      /\ client' = [client EXCEPT !.decoder = d, !.resync = FALSE, !.accepted = f.sequence]
      /\ toServer' = Append(toServer, Ack(f.sequence))
  BY DEF ApplyFrame
<1>2. f \in Snapshots /\ Decoded(f) = f.world
  BY <1>1, FirstFrame, DecodedIs
<1>3. f.sequence \in Nat /\ d \in Worlds
  BY <1>2 DEF Snapshots, Worlds
<1>4. client \in Clients
  BY ClientIs DEF StreamInv
<1> HIDE DEF f, d
<1>5. /\ client' \in Clients /\ client'.ready /\ client'.decoder = d
      /\ client'.accepted = f.sequence
  BY <1>1, <1>3, <1>4 DEF Clients
<1>6. Ack(f.sequence) \in Acks /\ Ack(f.sequence).sequence = f.sequence
  BY <1>3 DEF Ack, Acks
<1>7. /\ toServer' \in Seq(Acks \cup {Join, Resync})
      /\ \A i \in 1 .. Len(toServer') :
            \/ i \in 1 .. Len(toServer) /\ toServer'[i] = toServer[i]
            \/ toServer'[i].sequence <= client'.accepted
  <2>1. f.sequence <= f.sequence
    BY <1>3
  <2>2. /\ toServer' \in Seq(Acks \cup {Join, Resync})
        /\ \A i \in 1 .. Len(toServer') :
              \/ i \in 1 .. Len(toServer) /\ toServer'[i] = toServer[i]
              \/ toServer'[i] = Ack(f.sequence)
    BY <1>1, <1>6, LineToServer
  <2> QED BY <1>5, <1>6, <2>1, <2>2
<1> QED BY <1>1, <1>5, <1>7, FrameStep DEF f, d

LEMMA FailToApplyStep ==
  ASSUME StreamInv, toClient # <<>>, toClient' = Tail(toClient), FailToApply(Head(toClient)),
         UNCHANGED <<world, recipient, owner, socket>>
  PROVE  StreamStep
<1> DEFINE f == Head(toClient)
           d == [sequence |-> f.sequence, world |-> Decoded(f)]
           c == [client EXCEPT !.decoder = d, !.resync = FALSE]
<1>1. f.type = "snapshot" /\ client.ready /\ Fits(f) /\ view' = view /\ AskAgain(c)
  BY DEF FailToApply
<1>2. f \in Snapshots /\ Decoded(f) = f.world
  BY <1>1, FirstFrame, DecodedIs
<1>3. f.sequence \in Nat /\ d \in Worlds
  BY <1>2 DEF Snapshots, Worlds
<1>4. client \in Clients
  BY ClientIs DEF StreamInv
<1> HIDE DEF f, d
<1>5. c \in Clients /\ c.ready /\ c.decoder = d /\ c.accepted = client.accepted
  BY <1>1, <1>3, <1>4 DEF Clients
<1> HIDE DEF c
<1>6. /\ client' = [c EXCEPT !.resync = TRUE]
      /\ toServer' \in Seq(Acks \cup {Join, Resync})
      /\ \A i \in 1 .. Len(toServer') :
            \/ i \in 1 .. Len(toServer) /\ toServer'[i] = toServer[i]
            \/ toServer'[i].type # "ack"
  BY <1>1, Asked
<1>7. /\ client' \in Clients /\ client'.ready /\ client'.decoder = d
      /\ client'.accepted = client.accepted
  BY <1>5, <1>6 DEF Clients
<1> QED BY <1>1, <1>6, <1>7, FrameStep DEF f, d

LEMMA ClientReadsStep ==
  ASSUME StreamInv, ClientReads
  PROVE  StreamStep
<1>1. /\ toClient # <<>> /\ toClient' = Tail(toClient)
      /\ UNCHANGED <<world, recipient, owner, socket>>
      /\ \/ ReadJoined(Head(toClient)) \/ RejectFrame(Head(toClient))
         \/ ApplyFrame(Head(toClient)) \/ FailToApply(Head(toClient))
  BY DEF ClientReads, serverVars
<1> QED BY <1>1, ReadJoinedStep, RejectFrameStep, ApplyFrameStep, FailToApplyStep

\* A request of the client's own.
LEMMA RequestStep ==
  ASSUME StreamInv, UNCHANGED <<world, toClient, view>>, UNCHANGED serverVars,
         NEW m \in {Join, Resync}, toServer' = Append(toServer, m), client' \in Clients,
         client'.ready = client.ready, client'.decoder = client.decoder,
         client'.accepted = client.accepted, client.resync => client'.resync
  PROVE  StreamStep
<1>1. /\ m.type # "ack" /\ m \in Acks \cup {Join, Resync}
  BY DEF Join, Resync
<1>2. /\ toServer' \in Seq(Acks \cup {Join, Resync})
      /\ \A i \in 1 .. Len(toServer') :
            \/ i \in 1 .. Len(toServer) /\ toServer'[i] = toServer[i]
            \/ toServer'[i].type # "ack"
  BY <1>1, LineToServer
<1>3. Kinds'
  BY <1>2 DEF StreamInv, Kinds, Clients, serverVars
<1>4. LastSent' = LastSent /\ LastOffered' = LastOffered
  BY DEF LastSent, LastOffered, serverVars
<1>5. LastSent <= LastSent' /\ world <= world' /\ client.accepted <= client'.accepted
  BY <1>4, Numbers DEF StreamInv, Kinds
<1>6. UNCHANGED <<recipient, owner, socket>>
  BY DEF serverVars
<1>7. ASSUME socket' = "open" /\ ~recipient'.needsKeyframe
      PROVE  /\ ~recipient.needsKeyframe /\ LastOffered' = LastOffered
             /\ recipient'.pending = NoFlight => recipient'.baseline.sequence = LastOffered
             /\ recipient'.pending # NoFlight =>
                   recipient'.pending.generation = recipient'.generation
  BY <1>4, <1>6, <1>7 DEF StreamInv, NextFollows
<1>8. WorldsInOrder' /\ JoinComesFirst' /\ DeltasFollow' /\ NextFollows'
  BY <1>3, <1>5, <1>6, <1>7, Baseline, LineStays
<1>9. ReceiptsAreTrue'
  <2>1. /\ recipient'.applied <= client'.accepted
        /\ recipient'.pending # NoFlight /\ recipient'.pending.applied =>
              recipient'.pending.sequence <= client'.accepted
    BY <1>6 DEF StreamInv, ReceiptsAreTrue, CreditWasApplied
  <2>2. ASSUME NEW i \in 1 .. Len(toServer')
        PROVE  \/ i + 0 \in 1 .. Len(toServer) /\ toServer'[i] = toServer[i + 0]
               \/ toServer'[i].type # "ack"
    <3>1. i + 0 = i
      OBVIOUS
    <3> QED BY <1>2, <3>1
  <2>3. 0 \in Nat
    OBVIOUS
  <2> QED BY <1>3, <1>5, <2>1, <2>2, <2>3, ReceiptsStay
<1> QED BY <1>3, <1>8, <1>9 DEF StreamInv, StreamStep, Shown

LEMMA SendJoinStep ==
  ASSUME StreamInv, SendJoin
  PROVE  StreamStep
<1>1. /\ client' = [client EXCEPT !.joins = @ + 1] /\ toServer' = Append(toServer, Join)
      /\ UNCHANGED <<world, toClient, view>> /\ UNCHANGED serverVars
  BY DEF SendJoin
<1>2. client \in Clients
  BY ClientIs DEF StreamInv
<1>3. /\ client' \in Clients /\ client'.ready = client.ready /\ client'.decoder = client.decoder
      /\ client'.accepted = client.accepted /\ client'.resync = client.resync
  BY <1>1, <1>2 DEF Clients
<1> QED BY <1>1, <1>3, RequestStep

LEMMA SendResyncStep ==
  ASSUME StreamInv, SendResync
  PROVE  StreamStep
<1>1. /\ client' = [client EXCEPT !.resync = TRUE] /\ toServer' = Append(toServer, Resync)
      /\ UNCHANGED <<world, toClient, view>> /\ UNCHANGED serverVars
  BY DEF SendResync
<1>2. client \in Clients
  BY ClientIs DEF StreamInv
<1>3. /\ client' \in Clients /\ client'.ready = client.ready /\ client'.decoder = client.decoder
      /\ client'.accepted = client.accepted /\ client'.resync
  BY <1>1, <1>2 DEF Clients
<1> QED BY <1>1, <1>3, RequestStep

\* Nothing that the invariant speaks of changes.
LEMMA StreamStutter ==
  ASSUME StreamInv,
         UNCHANGED <<world, recipient, owner, socket, toClient, toServer, client, view>>
  PROVE  StreamStep
BY DEF StreamInv, Kinds, WorldsInOrder, JoinComesFirst, DeltasFollow, NextFollows,
       ReceiptsAreTrue, CreditWasApplied, Told, Frames, LastSent, LastOffered, StreamStep, Shown

-----------------------------------------------------------------------------
(* A new socket.                                                           *)

Fresh ==
    /\ world \in Nat /\ view \in Nat /\ view <= world
    /\ recipient = NewRecipient /\ owner = FALSE /\ socket = "open"
    /\ toClient = <<>> /\ toServer = <<>> /\ client = NewClient

LEMMA FreshIsSound ==
  Fresh => StreamInv
<1>1. SUFFICES ASSUME Fresh PROVE StreamInv
  OBVIOUS
<1>2. /\ recipient.baseline = NoBaseline /\ recipient.sequence = 0
      /\ recipient.pending = NoFlight /\ recipient.needsKeyframe = TRUE
      /\ recipient.generation = 0 /\ recipient.applied = 0
  BY <1>1 DEF Fresh, NewRecipient
<1>3. /\ client \in Clients /\ client.decoder = NoBaseline /\ client.accepted = 0
      /\ client.ready = FALSE
  BY <1>1, Recipients DEF Fresh, NewClient, Clients
<1>4. Frames = {}
  BY <1>1 DEF Fresh, Frames
<1>5. Told = {NoBaseline}
  BY <1>2, <1>3, <1>4 DEF Told
<1>6. LastSent = 0
  BY <1>1, <1>2 DEF Fresh, LastSent
<1>7. Kinds
  <2>1. /\ toClient \in Seq(Snapshots \cup {Joined}) /\ toServer \in Seq(Acks \cup {Join, Resync})
    BY <1>1 DEF Fresh
  <2>2. recipient.needsKeyframe \in BOOLEAN
    BY <1>2, Zenon
  <2> QED BY <1>1, <1>2, <1>3, <2>1, <2>2, Recipients DEF Fresh, Kinds, Clients
<1>8. WorldsInOrder
  <2>1. \A a \in Told : a.sequence = 0 /\ a.world = 0
    BY <1>5, Recipients
  <2> QED BY <1>1, <1>3, <1>4, <1>6, <2>1 DEF Fresh, WorldsInOrder
<1>9. JoinComesFirst /\ DeltasFollow /\ NextFollows
  BY <1>1, <1>2, <1>4 DEF Fresh, JoinComesFirst, DeltasFollow, NextFollows
<1>10. ReceiptsAreTrue
  BY <1>1, <1>2, <1>3 DEF Fresh, ReceiptsAreTrue, CreditWasApplied
<1> QED BY <1>7, <1>8, <1>9, <1>10 DEF StreamInv

LEMMA FreshAfter ==
  Fresh' => StreamInv'
BY FreshIsSound, PTL

LEMMA ReconnectStep ==
  ASSUME StreamInv, Reconnect
  PROVE  StreamStep
<1>1. world \in Nat /\ view \in Nat /\ view <= world
  BY DEF StreamInv, Kinds, WorldsInOrder
<1>2. Fresh'
  BY <1>1 DEF Reconnect, Fresh
<1> QED BY <1>2, FreshAfter DEF StreamStep, Shown, Reconnect

LEMMA StreamInit ==
  Init => StreamInv
<1>1. Init => Fresh
  BY DEF Init, Fresh
<1> QED BY <1>1, FreshIsSound

-----------------------------------------------------------------------------
(* Every step.                                                             *)

LEMMA StreamNext ==
  ASSUME StreamInv, [Next]_vars
  PROVE  StreamStep
<1>1. CASE Expire \/ Backpressure
  <2>1. CloseSocket /\ UNCHANGED <<world, recipient, offered, toClient, toServer>>
        /\ UNCHANGED clientVars
    BY <1>1 DEF Expire, Backpressure
  <2> QED BY <2>1, CloseStep
<1>2. CASE LoseSocket
  <2>1. UNCHANGED <<world, recipient, owner, socket, toClient, toServer, client, view>>
    BY <1>2 DEF LoseSocket, serverVars
  <2> QED BY <2>1, StreamStutter
<1>3. CASE UNCHANGED vars
  <2>1. UNCHANGED <<world, recipient, owner, socket, toClient, toServer, client, view>>
    BY <1>3 DEF vars
  <2> QED BY <2>1, StreamStutter
<1>4. CASE Step \/ Offer \/ TransportAccepts \/ TransportFails
  BY <1>4, StepStep, OfferStep, TransportAcceptsStep, TransportFailsStep
<1>5. CASE ServerReads \/ SendJoin \/ SendResync \/ ClientReads \/ Reconnect
  BY <1>5, ServerReadsStep, SendJoinStep, SendResyncStep, ClientReadsStep, ReconnectStep
<1> QED BY <1>1, <1>2, <1>3, <1>4, <1>5 DEF Next

\* The state of a connection is sound: frames, receipts and baselines fit the worlds that
\* were published and one another, whatever is refused, lost, timed out or rejoined.
THEOREM StreamIsSound == Spec => []StreamInv
<1>1. StreamInv /\ [Next]_vars => StreamInv'
  BY StreamNext DEF StreamStep
<1> QED BY <1>1, StreamInit, PTL DEF Spec

\* What the pilot sees is always a published world, whole, and never an older one.
THEOREM ShowsPublishedWorldsHolds == Spec => ShowsPublishedWorlds
<1>1. Init => Promise!Init
  BY DEF Init, Promise!Init
<1>2. StreamInv /\ [Next]_vars => StreamInv' /\ [Promise!Next]_<<world, view>>
  <2>1. SUFFICES ASSUME StreamInv, [Next]_vars
                 PROVE  StreamInv' /\ [Promise!Next]_<<world, view>>
    OBVIOUS
  <2>2. StreamInv' /\ Shown
    BY <2>1, StreamNext DEF StreamStep
  <2> QED BY <2>2 DEF Shown, Promise!Next, Promise!Publish, Promise!Show
<1> QED BY <1>1, <1>2, StreamInit, PTL DEF Spec, ShowsPublishedWorlds, Promise!Spec

-----------------------------------------------------------------------------
(* The window.                                                             *)

\* Frames with numbers of their own.
Numbered(frames) ==
    /\ IsFiniteSet(frames) /\ frames \subseteq Flights
    /\ \A f, g \in frames : f.sequence = g.sequence => f = g

\* What the server's books say of the frames a pilot is charged for.
Books(r, frames) ==
    /\ r.outstanding = Bytes(frames)
    /\ FitTheWindow(frames)
    /\ r.recovery # 0 => r.resync /\ \E f \in frames : f.sequence = r.recovery /\ f.recovery
    /\ \A f \in frames : f.recovery => f.sequence = r.recovery

LEMMA BytesAreNat ==
  ASSUME NEW F, Numbered(F)
  PROVE  Bytes(F) \in Nat
<1>1. [f \in F |-> f.bytes] \in [F -> Nat]
  BY DEF Numbered, Flights
<1> QED BY <1>1, TotalIsNat DEF Numbered, Bytes

LEMMA PartIsNumbered ==
  ASSUME NEW F, Numbered(F), NEW G \in SUBSET F
  PROVE  Numbered(G)
<1>1. IsFiniteSet(G)
  BY FS_Subset DEF Numbered
<1> QED BY <1>1 DEF Numbered

\* The bytes of some frames and of the others.
LEMMA BytesSplit ==
  ASSUME NEW F, Numbered(F), NEW G \in SUBSET F
  PROVE  /\ Bytes(F) = Bytes(G) + Bytes(F \ G)
         /\ Bytes(G) \in Nat /\ Bytes(F \ G) \in Nat
<1> DEFINE w == [f \in F |-> f.bytes]
<1>1. w \in [F -> Nat]
  BY DEF Numbered, Flights
<1>2. /\ [f \in G |-> f.bytes] = [f \in G |-> w[f]]
      /\ [f \in F \ G |-> f.bytes] = [f \in F \ G |-> w[f]]
  OBVIOUS
<1> HIDE DEF w
<1>3. /\ Total(w) = Total([f \in G |-> w[f]]) + Total([f \in F \ G |-> w[f]])
      /\ Total([f \in G |-> w[f]]) \in Nat /\ Total([f \in F \ G |-> w[f]]) \in Nat
  BY <1>1, TotalSplits DEF Numbered
<1> QED BY <1>2, <1>3 DEF Bytes, w

LEMMA BytesOfOne ==
  ASSUME NEW f \in Flights
  PROVE  Bytes({f}) = f.bytes
<1> DEFINE w == [g \in {f} |-> g.bytes]
<1>1. w \in [{f} -> Nat] /\ w[f] = f.bytes
  BY DEF Flights
<1> HIDE DEF w
<1>2. Total(w) = f.bytes
  BY <1>1, TotalOfOne
<1> QED BY <1>2 DEF Bytes, w

LEMMA BytesOfNone ==
  Bytes({}) = 0
<1>1. [f \in {} |-> f.bytes] \in [{} -> Nat]
  OBVIOUS
<1> QED BY <1>1, TotalOfNone DEF Bytes

\* No frame is larger than all together.
LEMMA FrameInBytes ==
  ASSUME NEW F, Numbered(F), NEW f \in F
  PROVE  f.bytes <= Bytes(F)
<1>1. {f} \in SUBSET F /\ f \in Flights
  BY DEF Numbered
<1>2. Bytes({f}) = f.bytes
  BY <1>1, BytesOfOne
<1>3. Bytes(F) = Bytes({f}) + Bytes(F \ {f}) /\ Bytes({f}) \in Nat /\ Bytes(F \ {f}) \in Nat
  BY <1>1, BytesSplit
<1> QED BY <1>2, <1>3

\* One frame more.
LEMMA BytesGrow ==
  ASSUME NEW F, Numbered(F), NEW f \in Flights, \A g \in F : g.sequence # f.sequence
  PROVE  Numbered(F \cup {f}) /\ Bytes(F \cup {f}) = Bytes(F) + f.bytes
         /\ Cardinality(F \cup {f}) = Cardinality(F) + 1
<1>1. f \notin F
  OBVIOUS
<1>2. IsFiniteSet(F \cup {f}) /\ Cardinality(F \cup {f}) = Cardinality(F) + 1
  BY <1>1, FS_AddElement DEF Numbered
<1>3. Numbered(F \cup {f})
  BY <1>2 DEF Numbered
<1>4. (F \cup {f}) \ F = {f}
  BY <1>1
<1>5. Bytes(F \cup {f}) = Bytes(F) + Bytes({f})
  BY <1>3, <1>4, BytesSplit
<1> QED BY <1>2, <1>3, <1>5, BytesOfOne

\* Frames leave, retired or failed: their bytes are given back, and what is left still
\* fits the window.
LEMMA BooksShrink ==
  ASSUME NEW F, Numbered(F), NEW r, Books(r, F), NEW G \in SUBSET F, NEW x,
         x.outstanding = r.outstanding - Bytes(G),
         (\E f \in G : f.recovery) => x.recovery = 0,
         (~ \E f \in G : f.recovery) => x.recovery = r.recovery,
         r.resync /\ (~ \E f \in G : f.recovery) => x.resync
  PROVE  Numbered(F \ G) /\ Books(x, F \ G)
<1>1. Numbered(F \ G)
  BY PartIsNumbered
<1>2. x.outstanding = Bytes(F \ G)
  <2>1. Bytes(F) = Bytes(G) + Bytes(F \ G) /\ Bytes(G) \in Nat /\ Bytes(F \ G) \in Nat
    BY BytesSplit
  <2> QED BY <2>1 DEF Books
<1>3. FitTheWindow(F \ G)
  <2> DEFINE A == Ordinary(F)
             B == Ordinary(F \ G)
  <2>1. A \in SUBSET F /\ B \in SUBSET A
    BY DEF Ordinary
  <2> HIDE DEF A, B
  <2>2. Numbered(A) /\ IsFiniteSet(A)
    BY <2>1, PartIsNumbered DEF Numbered
  <2>3. /\ Cardinality(B) <= Cardinality(A) /\ IsFiniteSet(B)
        /\ Cardinality(A) = Cardinality(B) => A = B
    BY <2>1, <2>2, FS_Subset
  <2>4. Cardinality(A) \in Nat /\ Cardinality(B) \in Nat
    BY <2>2, <2>3, FS_CardinalityType
  <2>5. Bytes(B) <= Bytes(A) /\ Bytes(A) \in Nat /\ Bytes(B) \in Nat
    <3>1. Bytes(A) = Bytes(B) + Bytes(A \ B) /\ Bytes(B) \in Nat /\ Bytes(A \ B) \in Nat
      BY <2>1, <2>2, BytesSplit
    <3> QED BY <3>1
  <2>6. Cardinality(A) <= WindowFrames /\ (Bytes(A) <= WindowBytes \/ Cardinality(A) = 1)
    BY DEF Books, FitTheWindow, A
  <2>7. WindowFrames \in Nat /\ WindowBytes \in Nat
    BY StreamAssumption
  <2>8. Cardinality(B) <= WindowFrames
    BY <2>3, <2>4, <2>6, <2>7
  <2>9. Bytes(B) <= WindowBytes \/ Cardinality(B) = 1
    <3>1. CASE Bytes(A) <= WindowBytes
      BY <2>5, <2>7, <3>1
    <3>2. CASE Cardinality(A) = 1 /\ Cardinality(B) # 1
      <4>1. B = {}
        BY <2>3, <2>4, <3>2, FS_EmptySet
      <4> QED BY <2>7, <4>1, BytesOfNone
    <3> QED BY <2>6, <3>1, <3>2
  <2>10. \A f, g \in F \ G : f.bytes > WindowBytes /\ g.bytes > WindowBytes => f = g
    BY DEF Books, FitTheWindow
  <2> QED BY <2>8, <2>9, <2>10 DEF FitTheWindow, B
<1>4. \A f \in F \ G : f.recovery => f.sequence = x.recovery
  <2>1. SUFFICES ASSUME NEW f \in F \ G, f.recovery, NEW g \in G, g.recovery
                 PROVE  FALSE
    BY DEF Books
  <2>2. f.sequence = r.recovery /\ g.sequence = r.recovery
    BY <2>1 DEF Books
  <2>3. f = g
    BY <2>2 DEF Numbered
  <2> QED BY <2>1, <2>3
<1>5. x.recovery # 0 => x.resync /\ \E f \in F \ G : f.sequence = x.recovery /\ f.recovery
  <2>1. SUFFICES ASSUME x.recovery # 0
                 PROVE  x.resync /\ \E f \in F \ G : f.sequence = x.recovery /\ f.recovery
    OBVIOUS
  <2>2. x.recovery = r.recovery /\ ~ \E f \in G : f.recovery
    BY <2>1
  <2>3. r.resync /\ \E f \in F : f.sequence = r.recovery /\ f.recovery
    BY <2>1, <2>2 DEF Books
  <2> QED BY <2>2, <2>3
<1> QED BY <1>1, <1>2, <1>3, <1>4, <1>5 DEF Books

\* A frame that was admitted is charged for.
LEMMA BooksGrow ==
  ASSUME NEW F, Numbered(F), NEW r, Books(r, F), r.recovery = 0, r.outstanding <= WindowBytes,
         NEW f \in Flights, \A g \in F : g.sequence # f.sequence, f.recovery <=> r.resync,
         \/ r.resync
         \/ f.bytes > WindowBytes /\ F = {}
         \/ Cardinality(F) < WindowFrames /\ r.outstanding + f.bytes <= WindowBytes,
         NEW x, x.outstanding = r.outstanding + f.bytes, x.resync <=> r.resync,
         r.resync => x.recovery = f.sequence, ~r.resync => x.recovery = 0
  PROVE  Numbered(F \cup {f}) /\ Books(x, F \cup {f})
<1>1. /\ Numbered(F \cup {f}) /\ Bytes(F \cup {f}) = Bytes(F) + f.bytes
      /\ Cardinality(F \cup {f}) = Cardinality(F) + 1
  BY BytesGrow
<1>2. r.outstanding = Bytes(F) /\ r.outstanding \in Nat
  BY BytesAreNat DEF Books
<1>3. f.bytes \in Nat \ {0} /\ f.sequence \in Nat \ {0}
  BY DEF Flights
<1>4. WindowFrames \in Nat \ {0} /\ WindowBytes \in Nat \ {0}
  BY StreamAssumption
<1>5. \A g \in F : ~g.recovery /\ g.bytes <= WindowBytes /\ g.bytes \in Nat
  <2>1. SUFFICES ASSUME NEW g \in F PROVE ~g.recovery /\ g.bytes <= WindowBytes /\ g.bytes \in Nat
    OBVIOUS
  <2>2. g.recovery \in BOOLEAN /\ g.sequence \in Nat \ {0} /\ g.bytes \in Nat
    BY DEF Numbered, Flights
  <2>3. g.bytes <= Bytes(F)
    BY FrameInBytes
  <2>4. ~g.recovery
    BY <2>2 DEF Books
  <2> QED BY <1>2, <1>4, <2>2, <2>3, <2>4
<1>6. FitTheWindow(F \cup {f})
  <2>1. \A g, h \in F \cup {f} : g.bytes > WindowBytes /\ h.bytes > WindowBytes => g = h
    BY <1>4, <1>5
  <2>2. Ordinary(F) = F
    BY <1>5 DEF Ordinary
  <2>3. Cardinality(F) <= WindowFrames /\ (Bytes(F) <= WindowBytes \/ Cardinality(F) = 1)
    BY <2>2 DEF Books, FitTheWindow
  <2>4. Cardinality(F) \in Nat
    BY FS_CardinalityType DEF Numbered
  <2>5. CASE r.resync
    <3>1. Ordinary(F \cup {f}) = F
      BY <1>5, <2>5 DEF Ordinary
    <3> QED BY <2>1, <2>3, <3>1 DEF FitTheWindow
  <2>6. CASE ~r.resync
    <3>1. Ordinary(F \cup {f}) = F \cup {f}
      BY <1>5, <2>6 DEF Ordinary
    <3>2. CASE F = {}
      <4>1. Cardinality(F) = 0
        BY <3>2, FS_EmptySet
      <4>2. Cardinality(F \cup {f}) = 1
        BY <1>1, <4>1
      <4>3. 1 <= WindowFrames
        BY <1>4
      <4> QED BY <2>1, <3>1, <4>2, <4>3 DEF FitTheWindow
    <3>3. CASE Cardinality(F) < WindowFrames /\ r.outstanding + f.bytes <= WindowBytes
      <4>1. Cardinality(F \cup {f}) <= WindowFrames
        BY <1>1, <1>4, <2>4, <3>3
      <4>2. Bytes(F \cup {f}) <= WindowBytes
        BY <1>1, <1>2, <3>3
      <4> QED BY <2>1, <3>1, <4>1, <4>2 DEF FitTheWindow
    <3> QED BY <2>6, <3>2, <3>3
  <2> QED BY <2>5, <2>6
<1>7. \A g \in F \cup {f} : g.recovery => g.sequence = x.recovery
  BY <1>5
<1>8. x.recovery # 0 => x.resync /\ \E g \in F \cup {f} : g.sequence = x.recovery /\ g.recovery
  OBVIOUS
<1> QED BY <1>1, <1>2, <1>6, <1>7, <1>8 DEF Books

\* The state of a recipient's window.
WindowOf(r) ==
    /\ DOMAIN r = RecipientFields /\ r.sequence \in Nat
    /\ r.pending # NoFlight =>
          /\ DOMAIN r.pending = FrameFields
          /\ r.pending.sequence = r.sequence + 1 /\ Flight(r.pending) \in Flights
    /\ Numbered(r.flights)
    /\ \A f \in r.flights : f.sequence <= r.sequence
    /\ r.resync \in BOOLEAN
    /\ Books(r, Outstanding(r))

LEMMA OutstandingAre ==
  ASSUME NEW r, WindowOf(r)
  PROVE  /\ Numbered(Outstanding(r)) /\ r.flights \subseteq Outstanding(r)
         /\ r.pending = NoFlight => Outstanding(r) = r.flights
         /\ r.pending # NoFlight =>
              /\ Outstanding(r) = r.flights \cup {Flight(r.pending)}
              /\ \A f \in r.flights : f.sequence # r.pending.sequence
<1>1. CASE r.pending = NoFlight
  BY <1>1 DEF WindowOf, Outstanding
<1>2. CASE r.pending # NoFlight
  <2>1. Outstanding(r) = r.flights \cup {Flight(r.pending)}
    BY <1>2 DEF Outstanding
  <2>2. Flight(r.pending) \in Flights /\ Flight(r.pending).sequence = r.sequence + 1
        /\ r.pending.sequence = r.sequence + 1
    BY <1>2 DEF WindowOf, Flight
  <2>3. \A f \in r.flights : f.sequence # r.sequence + 1
    <3>1. \A f \in r.flights : f.sequence \in Nat
      BY DEF WindowOf, Numbered, Flights
    <3> QED BY <3>1 DEF WindowOf
  <2>4. Numbered(r.flights \cup {Flight(r.pending)})
    BY <2>2, <2>3, BytesGrow DEF WindowOf
  <2> QED BY <1>2, <2>1, <2>2, <2>3, <2>4
<1> QED BY <1>1, <1>2

\* Credit up to a frame that was sent.
LEMMA CreditedWindow ==
  ASSUME NEW r, WindowOf(r), NEW n \in Nat, n <= r.sequence
  PROVE  WindowOf(Credited(r, n))
<1> DEFINE x == Credited(r, n)
           G == {f \in r.flights : f.sequence <= n}
           recovered == \E f \in G : f.recovery
<1>1. /\ DOMAIN x = RecipientFields /\ x.sequence = r.sequence /\ x.pending = r.pending
      /\ x.flights = r.flights \ G /\ x.outstanding = r.outstanding - Bytes(G)
      /\ x.recovery = (IF recovered THEN 0 ELSE r.recovery)
      /\ x.resync = (r.resync /\ ~recovered)
  BY DEF Credited, WindowOf, RecipientFields
<1> HIDE DEF x
<1>2. G \in SUBSET Outstanding(r) /\ Numbered(Outstanding(r)) /\ G \subseteq r.flights
  BY OutstandingAre
<1>3. Outstanding(x) = Outstanding(r) \ G
  <2>1. CASE r.pending = NoFlight
    BY <1>1, <2>1 DEF Outstanding
  <2>2. CASE r.pending # NoFlight
    <3>1. Flight(r.pending).sequence = r.pending.sequence
      BY DEF Flight
    <3>2. Flight(r.pending) \notin G
      BY <2>2, <3>1, OutstandingAre
    <3> QED BY <1>1, <2>2, <3>2 DEF Outstanding
  <2> QED BY <2>1, <2>2
<1>4. r.resync /\ (~ \E f \in G : f.recovery) => x.resync
  BY <1>1
<1>5. x.resync \in BOOLEAN
  BY <1>1
<1>6. Numbered(x.flights)
  <2>1. r.flights \ G \in SUBSET r.flights
    OBVIOUS
  <2> QED BY <1>1, <2>1, PartIsNumbered DEF WindowOf
<1> HIDE DEF G
<1>7. Books(x, Outstanding(x))
  <2>1. Books(r, Outstanding(r))
    BY DEF WindowOf
  <2>2. /\ (\E f \in G : f.recovery) => x.recovery = 0
        /\ (~ \E f \in G : f.recovery) => x.recovery = r.recovery
    BY <1>1
  <2>3. x.outstanding = r.outstanding - Bytes(G)
    BY <1>1
  <2>4. Books(x, Outstanding(r) \ G)
    BY <1>2, <1>4, <2>1, <2>2, <2>3, BooksShrink
  <2> QED BY <1>3, <2>4
<1> QED BY <1>1, <1>5, <1>6, <1>7 DEF WindowOf, x

\* The frame that the transport accepted is in flight.
LEMMA AcceptedWindow ==
  ASSUME NEW r, WindowOf(r), r.pending # NoFlight
  PROVE  WindowOf(Accepted(r))
<1> DEFINE p == r.pending
           sent == [r EXCEPT
              !.pending = NoFlight,
              !.sequence = p.sequence,
              !.flights = @ \cup {Flight(p)},
              !.baseline = IF p.generation = r.generation
                           THEN [sequence |-> p.sequence, world |-> p.world] ELSE @,
              !.needsKeyframe = @ \/ p.generation # r.generation]
<1>1. Accepted(r) = IF p.applied THEN Credited(sent, p.sequence) ELSE sent
  BY DEF Accepted
<1>2. /\ DOMAIN sent = RecipientFields /\ sent.pending = NoFlight /\ sent.sequence = p.sequence
      /\ sent.flights = r.flights \cup {Flight(p)} /\ sent.outstanding = r.outstanding
      /\ sent.recovery = r.recovery /\ sent.resync = r.resync
  BY DEF WindowOf, RecipientFields
<1> HIDE DEF sent
<1>3. p.sequence = r.sequence + 1 /\ r.sequence \in Nat
  BY DEF WindowOf
<1>4. Outstanding(sent) = Outstanding(r) /\ Numbered(sent.flights)
  BY <1>2, OutstandingAre DEF Outstanding
<1>5. \A f \in sent.flights : f.sequence <= sent.sequence
  <2>1. Flight(p).sequence = p.sequence
    BY DEF Flight
  <2>2. \A f \in r.flights : f.sequence \in Nat /\ f.sequence <= r.sequence
    BY DEF WindowOf, Numbered, Flights
  <2> QED BY <1>2, <1>3, <2>1, <2>2
<1>6. WindowOf(sent)
  BY <1>2, <1>3, <1>4, <1>5 DEF WindowOf, Books
<1>7. p.sequence \in Nat /\ p.sequence <= sent.sequence
  BY <1>2, <1>3
<1> QED BY <1>1, <1>6, <1>7, CreditedWindow

\* The frame that the transport refused is not.
LEMMA FailedWindow ==
  ASSUME NEW r, WindowOf(r), r.pending # NoFlight, NEW x,
         x = [r EXCEPT
            !.pending = NoFlight,
            !.outstanding = @ - r.pending.bytes,
            !.recovery = IF @ = r.pending.sequence THEN 0 ELSE @,
            !.needsKeyframe = TRUE]
  PROVE  WindowOf(x)
<1> DEFINE f == Flight(r.pending)
           F == Outstanding(r)
<1>1. /\ DOMAIN x = RecipientFields /\ x.sequence = r.sequence /\ x.pending = NoFlight
      /\ x.flights = r.flights /\ x.outstanding = r.outstanding - r.pending.bytes
      /\ x.recovery = (IF r.recovery = r.pending.sequence THEN 0 ELSE r.recovery)
      /\ x.resync = r.resync
  BY DEF WindowOf, RecipientFields
<1>2. /\ f \in Flights /\ f.sequence = r.pending.sequence /\ f.bytes = r.pending.bytes
      /\ r.pending.sequence \in Nat \ {0}
  BY DEF WindowOf, Flight
<1>3. /\ Numbered(F) /\ F = r.flights \cup {f} /\ \A g \in r.flights : g.sequence # f.sequence
  BY <1>2, OutstandingAre
<1>4. Outstanding(x) = F \ {f}
  BY <1>1, <1>3 DEF Outstanding
<1>5. Bytes({f}) = r.pending.bytes
  BY <1>2, BytesOfOne
<1> HIDE DEF f, F
<1>6. Books(r, F)
  BY DEF WindowOf, F
<1>7. r.recovery = r.pending.sequence <=> \E g \in {f} : g.recovery
  <2>1. ASSUME f.recovery PROVE r.recovery = r.pending.sequence
    BY <1>2, <1>3, <1>6, <2>1 DEF Books
  <2>2. ASSUME r.recovery = r.pending.sequence PROVE f.recovery
    <3>1. PICK g \in F : g.sequence = f.sequence /\ g.recovery
      BY <1>2, <1>6, <2>2 DEF Books
    <3>2. g = f
      BY <1>3, <3>1
    <3> QED BY <3>1, <3>2
  <2> QED BY <2>1, <2>2
<1>8. /\ (\E g \in {f} : g.recovery) => x.recovery = 0
      /\ (~ \E g \in {f} : g.recovery) => x.recovery = r.recovery
  BY <1>1, <1>7
<1>9. {f} \in SUBSET F /\ (r.resync /\ (~ \E g \in {f} : g.recovery) => x.resync)
  BY <1>1, <1>3
<1>10. Books(x, Outstanding(x))
  <2>1. x.outstanding = r.outstanding - Bytes({f})
    BY <1>1, <1>5
  <2>2. Books(x, F \ {f})
    BY <1>3, <1>6, <1>8, <1>9, <2>1, BooksShrink
  <2> QED BY <1>4, <2>2
<1> QED BY <1>1, <1>10 DEF WindowOf

\* A receipt, a rejoin and a request for a keyframe.
LEMMA AcknowledgedWindow ==
  ASSUME NEW r, WindowOf(r), NEW n \in Nat
  PROVE  WindowOf(Acknowledged(r, n))
<1> DEFINE x == Acknowledged(r, n)
<1>1. CASE n <= r.applied \/ (~(n <= r.sequence) /\ n # r.pending.sequence)
  <2>1. ~(n <= r.applied) /\ n <= r.sequence => FALSE
    BY <1>1
  <2>2. x = r
    BY <1>1, <2>1 DEF Acknowledged
  <2> QED BY <2>2
<1>2. CASE ~(n <= r.applied) /\ n <= r.sequence
  <2>1. x = Credited(r, n)
    BY <1>2 DEF Acknowledged
  <2> QED BY <1>2, <2>1, CreditedWindow
<1>3. CASE ~(n <= r.applied) /\ ~(n <= r.sequence) /\ n = r.pending.sequence
  <2>1. x = [r EXCEPT !.pending.applied = TRUE]
    BY <1>3 DEF Acknowledged
  <2>2. x = [r EXCEPT !.pending = [r.pending EXCEPT !.applied = TRUE]]
    BY <2>1
  <2> HIDE DEF x
  <2>3. /\ DOMAIN x = RecipientFields /\ x.sequence = r.sequence
        /\ x.pending = [r.pending EXCEPT !.applied = TRUE]
        /\ x.flights = r.flights /\ x.outstanding = r.outstanding
        /\ x.recovery = r.recovery /\ x.resync = r.resync
    BY <2>2 DEF WindowOf, RecipientFields
  <2>4. r.pending # NoFlight
    <3>1. NoFlight.sequence = 0 /\ r.sequence \in Nat
      BY DEF NoFlight, WindowOf
    <3> QED BY <1>3, <3>1
  <2>5. /\ DOMAIN x.pending = FrameFields /\ x.pending.sequence = r.pending.sequence
        /\ Flight(x.pending) = Flight(r.pending)
    BY <2>3, <2>4 DEF WindowOf, FrameFields, Flight
  <2>6. x.pending # NoFlight
    BY <2>5 DEF FrameFields, NoFlight
  <2>7. Outstanding(x) = Outstanding(r)
    BY <2>3, <2>4, <2>5, <2>6 DEF Outstanding
  <2> QED BY <2>3, <2>4, <2>5, <2>7 DEF WindowOf, Books, x
<1> QED BY <1>1, <1>2, <1>3

LEMMA AskedWindow ==
  ASSUME NEW r, WindowOf(r)
  PROVE  /\ WindowOf(Negotiated(r))
         /\ WindowOf([r EXCEPT !.needsKeyframe = TRUE, !.resync = TRUE])
<1> DEFINE x == [r EXCEPT !.needsKeyframe = TRUE, !.resync = TRUE]
<1>1. /\ DOMAIN x = RecipientFields /\ x.sequence = r.sequence /\ x.pending = r.pending
      /\ x.flights = r.flights /\ x.outstanding = r.outstanding
      /\ x.recovery = r.recovery /\ x.resync = TRUE
  BY DEF WindowOf, RecipientFields
<1> DEFINE y == Negotiated(r)
<1>2. /\ DOMAIN y = RecipientFields /\ y.sequence = r.sequence /\ y.pending = r.pending
      /\ y.flights = r.flights /\ y.outstanding = r.outstanding
      /\ y.recovery = r.recovery /\ y.resync = r.resync
  BY DEF WindowOf, RecipientFields, Negotiated
<1> HIDE DEF x, y
<1>3. Outstanding(x) = Outstanding(r) /\ Outstanding(y) = Outstanding(r)
  BY <1>1, <1>2 DEF Outstanding
<1>4. WindowOf(x)
  <2>1. Books(x, Outstanding(x))
    BY <1>1, <1>3 DEF WindowOf, Books
  <2> QED BY <1>1, <2>1 DEF WindowOf
<1>5. WindowOf(y)
  BY <1>2, <1>3 DEF WindowOf, Books
<1> QED BY <1>4, <1>5 DEF x, y

\* A frame is submitted.
LEMMA SubmittedWindow ==
  ASSUME NEW r, WindowOf(r), NEW line, Submit(r, line)
  PROVE  WindowOf(recipient')
<1>1. CanOffer(r)
  BY DEF Submit
<1>2. PICK bytes \in Sizes :
        /\ CanAdmit(r, bytes)
        /\ recipient' = [r EXCEPT
              !.pending = [sequence |-> r.sequence + 1, bytes |-> bytes, recovery |-> r.resync,
                           generation |-> r.generation, world |-> world, applied |-> FALSE],
              !.outstanding = @ + bytes,
              !.recovery = IF r.resync THEN r.sequence + 1 ELSE @,
              !.needsKeyframe = FALSE]
  BY DEF Submit
<1> DEFINE p == [sequence |-> r.sequence + 1, bytes |-> bytes, recovery |-> r.resync,
                 generation |-> r.generation, world |-> world, applied |-> FALSE]
           f == [sequence |-> r.sequence + 1, bytes |-> bytes, recovery |-> r.resync]
<1>3. /\ DOMAIN p = FrameFields /\ p.sequence = r.sequence + 1 /\ Flight(p) = f
  BY DEF FrameFields, Flight
<1>4. p # NoFlight
  BY <1>3 DEF FrameFields, NoFlight
<1>5. recipient' = [r EXCEPT
              !.pending = p,
              !.outstanding = @ + bytes,
              !.recovery = IF r.resync THEN r.sequence + 1 ELSE @,
              !.needsKeyframe = FALSE]
  BY <1>2
<1> HIDE DEF p
<1>6. /\ DOMAIN recipient' = RecipientFields /\ recipient'.sequence = r.sequence
      /\ recipient'.pending = p /\ recipient'.flights = r.flights
      /\ recipient'.outstanding = r.outstanding + bytes
      /\ recipient'.recovery = (IF r.resync THEN r.sequence + 1 ELSE r.recovery)
      /\ recipient'.resync = r.resync
  BY <1>5 DEF WindowOf, RecipientFields
<1>7. r.sequence \in Nat /\ r.resync \in BOOLEAN /\ bytes \in Nat \ {0}
  BY StreamAssumption DEF WindowOf
<1>8. f \in Flights /\ f.sequence = r.sequence + 1 /\ f.bytes = bytes /\ f.recovery = r.resync
  BY <1>7 DEF Flights
<1> HIDE DEF f
<1>9. /\ r.pending = NoFlight /\ r.recovery = 0 /\ r.outstanding <= WindowBytes
  BY <1>1 DEF CanOffer
<1>10. /\ Outstanding(r) = r.flights /\ Numbered(r.flights)
       /\ Outstanding(recipient') = r.flights \cup {f}
  BY <1>3, <1>4, <1>6, <1>9, OutstandingAre DEF Outstanding
<1>11. \A g \in r.flights : g.sequence # f.sequence
  <2>1. \A g \in r.flights : g.sequence \in Nat /\ g.sequence <= r.sequence
    BY DEF WindowOf, Numbered, Flights
  <2> QED BY <1>7, <1>8, <2>1
<1>12. \/ r.resync
       \/ f.bytes > WindowBytes /\ r.flights = {}
       \/ Cardinality(r.flights) < WindowFrames /\ r.outstanding + f.bytes <= WindowBytes
  BY <1>2, <1>8 DEF CanAdmit
<1>13. Books(r, r.flights)
  BY <1>10 DEF WindowOf
<1>14. /\ recipient'.outstanding = r.outstanding + f.bytes
       /\ recipient'.resync <=> r.resync
       /\ r.resync => recipient'.recovery = f.sequence
       /\ ~r.resync => recipient'.recovery = 0
  BY <1>6, <1>8, <1>9
<1>15. Books(recipient', Outstanding(recipient'))
  <2>1. f.recovery <=> r.resync
    BY <1>8
  <2>2. Books(recipient', r.flights \cup {f})
    BY <1>8, <1>9, <1>10, <1>11, <1>12, <1>13, <1>14, <2>1, BooksGrow
  <2> QED BY <1>10, <2>2
<1> QED BY <1>3, <1>6, <1>7, <1>8, <1>10, <1>15 DEF WindowOf

LEMMA NewWindow ==
  WindowOf(NewRecipient)
<1> DEFINE r == NewRecipient
<1>1. /\ DOMAIN r = RecipientFields /\ r.sequence = 0 /\ r.pending = NoFlight /\ r.flights = {}
      /\ r.outstanding = 0 /\ r.recovery = 0 /\ r.resync = FALSE
  BY DEF NewRecipient, RecipientFields
<1> HIDE DEF r
<1>2. Outstanding(r) = {} /\ Ordinary({}) = {}
  BY <1>1 DEF Outstanding, Ordinary
<1>3. Numbered({}) /\ Cardinality({}) = 0
  BY FS_EmptySet DEF Numbered
<1>4. FitTheWindow({})
  BY <1>2, <1>3, BytesOfNone, StreamAssumption DEF FitTheWindow
<1>5. Books(r, Outstanding(r))
  BY <1>1, <1>2, <1>4, BytesOfNone DEF Books
<1>6. r.sequence \in Nat /\ Numbered(r.flights) /\ \A f \in r.flights : f.sequence <= r.sequence
  BY <1>1, <1>3
<1>7. r.resync \in BOOLEAN
  BY <1>1, Zenon
<1> QED BY <1>1, <1>5, <1>6, <1>7 DEF WindowOf, r

-----------------------------------------------------------------------------
(* The books.                                                              *)

LEMMA WindowIs ==
  ASSUME Kinds
  PROVE  WindowInv <=> WindowOf(recipient)
<1>1. WindowInv => WindowOf(recipient)
  BY RecipientIs DEF WindowInv, WindowOf, FramesAreCounted, WindowIsKept, RecoveryIsInFlight,
     Numbered, Books
<1>2. WindowOf(recipient) => WindowInv
  BY DEF WindowInv, WindowOf, FramesAreCounted, WindowIsKept, RecoveryIsInFlight, Numbered, Books
<1> QED BY <1>1, <1>2

LEMMA WindowIsAfter ==
  (Kinds => (WindowInv <=> WindowOf(recipient)))'
<1>1. Kinds => (WindowInv <=> WindowOf(recipient))
  BY WindowIs
<1> QED BY <1>1, PTL

\* The messages to the server, in the state of the window.
LEMMA ServerReadsWindow ==
  ASSUME StreamInv, WindowOf(recipient), ServerReads
  PROVE  WindowOf(recipient')
<1> DEFINE m == Head(toServer)
<1>1. CASE HandleJoin(m)
  <2>1. WindowOf(Negotiated(recipient))
    BY AskedWindow
  <2>2. \/ recipient' = Negotiated(recipient)
        \/ Submit(Negotiated(recipient), Append(toClient, Joined))
    BY <1>1 DEF HandleJoin
  <2> QED BY <2>1, <2>2, SubmittedWindow
<1>2. CASE HandleAck(m)
  <2>1. m \in Acks \cup {Join, Resync} /\ m.type = "ack"
    <3>1. toServer \in Seq(Acks \cup {Join, Resync}) /\ toServer # <<>>
      BY DEF StreamInv, Kinds, ServerReads
    <3> HIDE DEF Acks, Join, Resync
    <3>2. m \in Acks \cup {Join, Resync}
      BY <3>1, ReadHead
    <3> QED BY <1>2, <3>2 DEF HandleAck
  <2>2. m.sequence \in Nat
    BY <2>1 DEF Acks, Join, Resync
  <2>3. recipient' = recipient \/ recipient' = Acknowledged(recipient, m.sequence)
    BY <1>2 DEF HandleAck
  <2> HIDE DEF m
  <2> QED BY <2>2, <2>3, AcknowledgedWindow
<1>3. CASE HandleResync(m)
  <2>1. \/ recipient' = recipient
        \/ recipient' = [recipient EXCEPT !.needsKeyframe = TRUE, !.resync = TRUE]
    BY <1>3 DEF HandleResync
  <2> QED BY <2>1, AskedWindow
<1> QED BY <1>1, <1>2, <1>3 DEF ServerReads

LEMMA WindowNext ==
  ASSUME StreamInv, WindowInv, [Next]_vars
  PROVE  WindowInv'
<1>1. Kinds /\ Kinds'
  BY StreamNext DEF StreamStep, StreamInv
<1>2. WindowOf(recipient)
  BY <1>1, WindowIs
<1>3. WindowOf(recipient')
  <2>1. CASE Step \/ Expire \/ Backpressure \/ SendJoin \/ SendResync \/ ClientReads \/ LoseSocket
             \/ UNCHANGED vars
    <3>1. UNCHANGED recipient
      BY <2>1 DEF Step, Expire, Backpressure, SendJoin, SendResync, ClientReads, LoseSocket, vars,
         serverVars
    <3> QED BY <1>2, <3>1
  <2>2. CASE Offer
    BY <1>2, <2>2, SubmittedWindow DEF Offer
  <2>3. CASE TransportAccepts
    BY <1>2, <2>3, AcceptedWindow DEF TransportAccepts
  <2>4. CASE TransportFails
    BY <1>2, <2>4, FailedWindow DEF TransportFails
  <2>5. CASE ServerReads
    BY <1>2, <2>5, ServerReadsWindow
  <2>6. CASE Reconnect
    BY <2>6, NewWindow DEF Reconnect
  <2> QED BY <2>1, <2>2, <2>3, <2>4, <2>5, <2>6 DEF Next
<1> QED BY <1>1, <1>3, WindowIsAfter

LEMMA WindowInit ==
  Init => WindowInv
<1>1. SUFFICES ASSUME Init PROVE WindowInv
  OBVIOUS
<1>2. Kinds /\ recipient = NewRecipient
  BY <1>1, StreamInit DEF StreamInv, Init
<1> QED BY <1>2, WindowIs, NewWindow

LEMMA FramesFit ==
  StreamInv => SnapshotsFollowJoined /\ NextFrameFits
<1>1. SUFFICES ASSUME StreamInv PROVE SnapshotsFollowJoined /\ NextFrameFits
  OBVIOUS
<1>2. Kinds /\ WorldsInOrder /\ JoinComesFirst /\ DeltasFollow
  BY <1>1 DEF StreamInv
<1>3. toClient # <<>> => Head(toClient) = toClient[1] /\ 1 \in 1 .. Len(toClient)
  BY <1>2 DEF Kinds
<1>4. SnapshotsFollowJoined
  BY <1>2, <1>3 DEF JoinComesFirst, SnapshotsFollowJoined
<1>5. NextFrameFits
  <2>1. SUFFICES ASSUME ~client.resync, toClient # <<>>, Head(toClient).type = "snapshot"
                 PROVE  Fits(toClient[1])
    BY <1>3 DEF NextFrameFits
  <2>2. 1 \in Frames
    BY <1>2, <1>3, <2>1, Line DEF Frames
  <2>3. /\ toClient[1].sequence \in Nat /\ client.decoder.sequence \in Nat
    BY <1>2, <2>2, Line DEF Snapshots, Kinds, Worlds
  <2>4. client.decoder.sequence < toClient[1].sequence
    BY <1>2, <2>2 DEF WorldsInOrder
  <2>5. toClient[1].base # 0 => /\ toClient[1].sequence = toClient[1].base + 1
                                /\ toClient[1].base = client.decoder.sequence
    BY <1>2, <2>1, <2>2 DEF DeltasFollow
  <2>6. toClient[1].base # 0 => client.decoder # NoBaseline
    BY <2>5, Recipients
  <2> QED BY <2>3, <2>4, <2>5, <2>6 DEF Fits
<1> QED BY <1>4, <1>5

\* The frames charged to a pilot are those in flight, they fit the window with the one
\* reserved recovery frame beside it, and the recovery a pilot waits for is among them.
THEOREM WindowIsSound == Spec => [](StreamInv /\ WindowInv)
<1>1. StreamInv /\ WindowInv /\ [Next]_vars => StreamInv' /\ WindowInv'
  BY StreamNext, WindowNext DEF StreamStep
<1> QED BY <1>1, StreamInit, WindowInit, PTL DEF Spec

\* The books of a connection are exact, whichever callback, receipt, rejoin or failure
\* came first: the window and its recovery frame are the frames in flight, credit is for
\* frames that were applied, and the client can decode what comes next.
THEOREM BooksAreExactHolds == Spec => []BooksAreExact
<1>1. StreamInv /\ WindowInv => BooksAreExact
  BY FramesFit DEF StreamInv, ReceiptsAreTrue, WindowInv, BooksAreExact
<1> QED BY <1>1, WindowIsSound, PTL
=============================================================================
