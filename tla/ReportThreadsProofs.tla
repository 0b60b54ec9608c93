------------------------- MODULE ReportThreadsProofs -------------------------
(***************************************************************************)
(* Proofs about ReportThreads: one report thread at a time, within the     *)
(* budget, for any number of requests, threads and replacements.           *)
(***************************************************************************)
EXTENDS ReportThreads, FiniteSetTheorems, SequenceTheorems, TLAPS

-----------------------------------------------------------------------------
(* Counting.                                                               *)

\* A set within one element counts at most one.
LEMMA AtMostOne ==
  ASSUME NEW c, NEW S \in SUBSET {c}
  PROVE  Cardinality(S) <= 1
<1>1. IsFiniteSet({c}) /\ Cardinality({c}) = 1
  BY FS_Singleton
<1>2. Cardinality(S) <= Cardinality({c})
  BY <1>1, FS_Subset
<1> QED BY <1>1, <1>2

\* Starts are finitely many, and some of them are no more than all.
LEMMA Fewer ==
  ASSUME NEW S \in SUBSET Starts, NEW T \in SUBSET S
  PROVE  /\ IsFiniteSet(S) /\ Cardinality(S) \in Nat
         /\ Cardinality(T) \in Nat /\ Cardinality(T) <= Cardinality(S)
<1>1. IsFiniteSet(S)
  BY ReportThreadsAssumption, FS_Subset
<1>2. IsFiniteSet(T) /\ Cardinality(T) <= Cardinality(S)
  BY <1>1, FS_Subset
<1> QED BY <1>1, <1>2, FS_CardinalityType

\* Taking the head of a port, and adding to it, leaves a port.
LEMMA PortsStay ==
  ASSUME NEW S, NEW s \in Seq(S), NEW e \in S
  PROVE  /\ Append(s, e) \in Seq(S)
         /\ s # <<>> => Tail(s) \in Seq(S) /\ Head(s) \in S
  BY AppendProperties, HeadTailProperties

-----------------------------------------------------------------------------
(* The inductive invariant.                                                *)

LEMMA InitInv == Init => IInv
<1> SUFFICES ASSUME Init PROVE IInv
  OBVIOUS
<1> USE DEF Init
<1>1. ReportsTypeOK
  BY ReportThreadsAssumption DEF ReportsTypeOK, ThreadStates, Outcomes, Stats
<1>2. PredecessorsAreGone /\ TheCurrentThreadIsJudged
  BY DEF PredecessorsAreGone, TheCurrentThreadIsJudged, Waiting
<1>3. BudgetIsKept
  <2>1. {s \in Starts : age[s] < Window} = {}
    BY ReportThreadsAssumption
  <2>2. Cardinality(replacements) = 0
    BY FS_EmptySet
  <2> QED BY <2>1, <2>2, ReportThreadsAssumption DEF BudgetIsKept
<1> QED BY <1>1, <1>2, <1>3 DEF IInv

\* The budget does not see the steps of the others.
LEMMA BudgetRests ==
  ASSUME BudgetIsKept, UNCHANGED <<age, replacements, handover>>
  PROVE  BudgetIsKept'
BY DEF BudgetIsKept

\* A failure of the current thread ends every request that waits.
LEMMA FailInv ==
  ASSUME IInv, NEW cause, Fail(current, cause),
         UNCHANGED <<current, postedTo>>,
         IF cause = "close" THEN closing' = "waiting" ELSE UNCHANGED closing
  PROVE  /\ failed' \in [Threads -> BOOLEAN] /\ stats' \in Stats
         /\ outcome' \in [Requests -> Outcomes] /\ terminated' \in [Threads -> BOOLEAN]
         /\ TheCurrentThreadIsJudged'
         /\ failed'[current]
<1>1. /\ failed \in [Threads -> BOOLEAN] /\ stats \in Stats /\ current \in Threads
      /\ outcome \in [Requests -> Outcomes] /\ terminated \in [Threads -> BOOLEAN]
      /\ closing \in {"open", "waiting", "settled"}
  BY DEF IInv, ReportsTypeOK
<1>2. failed[current] => Waiting = {}
  BY DEF IInv, TheCurrentThreadIsJudged
<1>3. CASE failed[current]
  BY <1>1, <1>2, <1>3 DEF Fail, IInv, TheCurrentThreadIsJudged, Waiting
<1>4. CASE ~failed[current]
  <2>1. failed' = [failed EXCEPT ![current] = TRUE]
    BY <1>4 DEF Fail
  <2>2. outcome' \in [Requests -> Outcomes]
    BY <1>1, <1>4 DEF Fail, RejectPending, Outcomes
  <2>3. Waiting' = {}
    BY <1>1, <1>4, <2>2 DEF Fail, RejectPending, Waiting
  <2>4. stats' \in Stats /\ (cause # "close" => stats' = "failed")
        /\ terminated' \in [Threads -> BOOLEAN]
    BY <1>1, <1>4 DEF Fail, Stats
  <2> QED BY <1>1, <2>1, <2>2, <2>3, <2>4 DEF TheCurrentThreadIsJudged
<1> QED BY <1>3, <1>4

LEMMA RequestDeadlineInv ==
  ASSUME IInv, NEW r \in Requests, RequestDeadline(r)
  PROVE  IInv'
<1>1. postedTo[r] = current
  BY DEF RequestDeadline, IInv, TheCurrentThreadIsJudged
<1>2. /\ UNCHANGED <<current, handover, replacements, closing, postedTo, os, errored, inbox,
                     outbox, age>>
      /\ Fail(current, "timeout")
  BY <1>1 DEF RequestDeadline
<1>3. /\ failed' \in [Threads -> BOOLEAN] /\ stats' \in Stats
      /\ outcome' \in [Requests -> Outcomes] /\ terminated' \in [Threads -> BOOLEAN]
      /\ TheCurrentThreadIsJudged'
      /\ failed'[current]
  BY <1>2, FailInv
<1>4. ReportsTypeOK'
  BY <1>2, <1>3 DEF IInv, ReportsTypeOK
<1>5. PredecessorsAreGone'
  BY <1>2, <1>3 DEF IInv, PredecessorsAreGone
<1>6. BudgetIsKept'
  BY <1>2, BudgetRests DEF IInv
<1> QED BY <1>3, <1>4, <1>5, <1>6 DEF IInv

LEMMA ReceiveErrorInv ==
  ASSUME IInv, NEW t \in Threads, ReceiveError(t)
  PROVE  IInv'
<1>1. t = current
  BY DEF ReceiveError, IInv, PredecessorsAreGone
<1>2. /\ UNCHANGED <<current, handover, replacements, closing, postedTo, os, inbox, outbox, age>>
      /\ Fail(current, "uncaught")
      /\ errored' = [errored EXCEPT ![t] = FALSE]
  BY <1>1 DEF ReceiveError
<1>3. /\ failed' \in [Threads -> BOOLEAN] /\ stats' \in Stats
      /\ outcome' \in [Requests -> Outcomes] /\ terminated' \in [Threads -> BOOLEAN]
      /\ TheCurrentThreadIsJudged'
      /\ failed'[current]
  BY <1>2, FailInv
<1>4. ReportsTypeOK'
  BY <1>2, <1>3 DEF IInv, ReportsTypeOK
<1>5. PredecessorsAreGone'
  BY <1>2, <1>3 DEF IInv, ReportsTypeOK, PredecessorsAreGone
<1>6. BudgetIsKept'
  BY <1>2, BudgetRests DEF IInv
<1> QED BY <1>3, <1>4, <1>5, <1>6 DEF IInv

LEMMA ReceiveExitInv ==
  ASSUME IInv, NEW t \in Threads, ReceiveExit(t)
  PROVE  IInv'
<1>1. t = current
  BY DEF ReceiveExit, IInv, PredecessorsAreGone
<1>2. /\ UNCHANGED <<current, handover, replacements, closing, postedTo, errored, inbox, outbox, age>>
      /\ os' = [os EXCEPT ![t] = "reaped"]
      /\ ~errored[t] /\ outbox[t] = <<>>
  BY DEF ReceiveExit
<1>3. /\ failed' \in [Threads -> BOOLEAN] /\ stats' \in Stats
      /\ outcome' \in [Requests -> Outcomes] /\ terminated' \in [Threads -> BOOLEAN]
      /\ TheCurrentThreadIsJudged'
      /\ failed'[current] \/ closing # "open"
  <2>1. CASE closing = "open"
    BY <1>1, <1>2, <2>1, FailInv DEF ReceiveExit
  <2>2. CASE closing # "open"
    BY <1>2, <2>2 DEF ReceiveExit, IInv, ReportsTypeOK, TheCurrentThreadIsJudged, Waiting
  <2> QED BY <2>1, <2>2
<1>4. ReportsTypeOK'
  BY <1>2, <1>3 DEF IInv, ReportsTypeOK, ThreadStates
<1>5. PredecessorsAreGone'
  BY <1>1, <1>2, <1>3 DEF IInv, ReportsTypeOK, PredecessorsAreGone
<1>6. BudgetIsKept'
  BY <1>2, BudgetRests DEF IInv
<1> QED BY <1>3, <1>4, <1>5, <1>6 DEF IInv

\* A replacement is asked for when the budget has room for it.
LEMMA RecoverInv ==
  ASSUME IInv, Recover, UNCHANGED age
  PROVE  /\ BudgetIsKept'
         /\ replacements' \subseteq Starts
         /\ handover' \in {"none", "waiting", "overdue"}
<1>1. /\ replacements \subseteq Starts /\ handover \in {"none", "waiting", "overdue"}
      /\ BudgetIsKept
  BY DEF IInv, ReportsTypeOK
<1>2. CASE UNCHANGED <<handover, replacements>>
  BY <1>1, <1>2, BudgetRests
<1>3. CASE /\ replacements' = Remembered
           /\ handover' = IF Cardinality(Remembered) >= MaxReplacements THEN "none" ELSE "waiting"
  <2>1. Remembered \subseteq replacements /\ Remembered \subseteq Starts
    BY <1>1 DEF Remembered
  <2>2. /\ Cardinality(replacements) \in Nat /\ Cardinality(Remembered) \in Nat
        /\ Cardinality(Remembered) <= Cardinality(replacements)
    BY <1>1, <2>1, Fewer
  <2>3. {s \in Starts : age[s] < Window} \subseteq Remembered
    BY <1>1 DEF BudgetIsKept, Remembered
  <2> QED BY <1>1, <1>3, <2>1, <2>2, <2>3, ReportThreadsAssumption DEF BudgetIsKept
<1> QED BY <1>2, <1>3 DEF Recover

LEMMA MakeRequestInv ==
  ASSUME IInv, NEW r \in Requests, MakeRequest(r)
  PROVE  IInv'
<1>1. UNCHANGED <<current, failed, closing, stats, os, terminated, errored, outbox, age>>
  BY DEF MakeRequest
<1>2. PredecessorsAreGone'
  BY <1>1 DEF IInv, PredecessorsAreGone
<1>3. CASE /\ Settle(r, "refused")
           /\ BudgetIsKept' /\ replacements' \subseteq Starts
           /\ handover' \in {"none", "waiting", "overdue"}
           /\ UNCHANGED <<postedTo, inbox>>
  <2>1. outcome' \in [Requests -> Outcomes]
    BY <1>3 DEF Settle, Outcomes, IInv, ReportsTypeOK
  <2>2. Waiting' \subseteq Waiting
    BY <1>3 DEF Settle, Waiting, IInv, ReportsTypeOK
  <2>3. ReportsTypeOK'
    BY <1>1, <1>3, <2>1 DEF IInv, ReportsTypeOK
  <2>4. TheCurrentThreadIsJudged'
    BY <1>1, <1>3, <2>2 DEF IInv, TheCurrentThreadIsJudged
  <2> QED BY <1>2, <1>3, <2>3, <2>4 DEF IInv
<1>4. CASE /\ closing = "open" /\ ~failed[current]
           /\ Settle(r, "waiting")
           /\ postedTo' = [postedTo EXCEPT ![r] = current]
           /\ inbox' = [inbox EXCEPT ![current] = Append(@, r)]
           /\ UNCHANGED <<handover, replacements>>
  <2>1. outcome' \in [Requests -> Outcomes] /\ Waiting' \subseteq Waiting \cup {r}
    BY <1>4 DEF Settle, Outcomes, Waiting, IInv, ReportsTypeOK
  <2>2. postedTo' \in [Requests -> Threads]
    BY <1>4 DEF IInv, ReportsTypeOK
  <2>3. inbox' \in [Threads -> Seq(Requests \cup {"close"})]
    <3>1. inbox[current] \in Seq(Requests \cup {"close"})
      BY DEF IInv, ReportsTypeOK
    <3>2. Append(inbox[current], r) \in Seq(Requests \cup {"close"})
      BY <3>1, PortsStay
    <3> QED BY <1>4, <3>2 DEF IInv, ReportsTypeOK
  <2>4. ReportsTypeOK'
    BY <1>1, <1>4, <2>1, <2>2, <2>3 DEF IInv, ReportsTypeOK
  <2>5. TheCurrentThreadIsJudged'
    BY <1>1, <1>4, <2>1, <2>2 DEF IInv, ReportsTypeOK, TheCurrentThreadIsJudged
  <2>6. BudgetIsKept'
    BY <1>1, <1>4, BudgetRests DEF IInv
  <2> QED BY <1>2, <2>4, <2>5, <2>6 DEF IInv
<1>5. BudgetIsKept /\ replacements \subseteq Starts /\ handover \in {"none", "waiting", "overdue"}
  BY DEF IInv, ReportsTypeOK
<1>6. ASSUME UNCHANGED <<handover, replacements>>
      PROVE  BudgetIsKept' /\ replacements' \subseteq Starts
             /\ handover' \in {"none", "waiting", "overdue"}
  BY <1>1, <1>5, <1>6, BudgetRests
<1>7. ASSUME Recover
      PROVE  BudgetIsKept' /\ replacements' \subseteq Starts
             /\ handover' \in {"none", "waiting", "overdue"}
  BY <1>1, <1>7, RecoverInv
<1> QED BY <1>3, <1>4, <1>6, <1>7 DEF MakeRequest

LEMMA ReceiveReplyInv ==
  ASSUME IInv, NEW t \in Threads, ReceiveReply(t)
  PROVE  IInv'
<1>1. t = current \/ os[t] = "free" \/ os[t] = "reaped"
  BY DEF IInv, PredecessorsAreGone
<1>2. t = current /\ outbox[t] # <<>>
  BY <1>1 DEF ReceiveReply, IInv, PredecessorsAreGone
<1>3. /\ UNCHANGED <<current, failed, handover, replacements, closing, postedTo, os, terminated,
                     errored, inbox, age>>
      /\ outbox' = [outbox EXCEPT ![t] = Tail(@)]
  BY DEF ReceiveReply
<1>4. outbox[t] \in Seq(Replies)
  BY DEF IInv, ReportsTypeOK
<1>5. Tail(outbox[t]) \in Seq(Replies) /\ Head(outbox[t]) \in Replies
  BY <1>2, <1>4, HeadTailProperties
<1>6. outcome' \in [Requests -> Outcomes] /\ Waiting' \subseteq Waiting /\ stats' \in Stats
      /\ (failed[current] => stats' = stats)
  <2>1. CASE UNCHANGED <<stats, outcome>>
    BY <2>1 DEF IInv, ReportsTypeOK, Waiting
  <2>2. CASE Heeded(t) /\ stats' \in {"measured", "fault"} /\ UNCHANGED outcome
    BY <1>2, <2>2 DEF IInv, ReportsTypeOK, Waiting, Stats, Heeded
  <2>3. CASE /\ Head(outbox[t]) \in Requests
             /\ Settle(Head(outbox[t]), "answered")
             /\ UNCHANGED stats
    BY <2>3 DEF IInv, ReportsTypeOK, Waiting, Settle, Outcomes
  <2> QED BY <2>1, <2>2, <2>3 DEF ReceiveReply
<1>7. ReportsTypeOK'
  BY <1>3, <1>5, <1>6 DEF IInv, ReportsTypeOK
<1>8. PredecessorsAreGone'
  BY <1>1, <1>2, <1>3 DEF IInv, ReportsTypeOK, PredecessorsAreGone
<1>9. TheCurrentThreadIsJudged'
  BY <1>3, <1>6 DEF IInv, TheCurrentThreadIsJudged
<1>10. BudgetIsKept'
  BY <1>3, BudgetRests DEF IInv
<1> QED BY <1>7, <1>8, <1>9, <1>10 DEF IInv

LEMMA RecycleInv ==
  ASSUME IInv, NEW r \in Requests, Recycle(r)
  PROVE  IInv'
<1>1. /\ UNCHANGED <<current, failed, handover, replacements, closing, stats, postedTo, os,
                     terminated, errored, inbox, outbox, age>>
      /\ Settle(r, "unmade")
  BY DEF Recycle, threadVars
<1>2. outcome' \in [Requests -> Outcomes] /\ Waiting' \subseteq Waiting
  BY <1>1 DEF IInv, ReportsTypeOK, Waiting, Settle, Outcomes
<1>3. ReportsTypeOK'
  BY <1>1, <1>2 DEF IInv, ReportsTypeOK
<1>4. PredecessorsAreGone' /\ TheCurrentThreadIsJudged'
  BY <1>1, <1>2 DEF IInv, PredecessorsAreGone, TheCurrentThreadIsJudged
<1>5. BudgetIsKept'
  BY <1>1, BudgetRests DEF IInv
<1> QED BY <1>3, <1>4, <1>5 DEF IInv

LEMMA HandoverDeadlineInv ==
  ASSUME IInv, HandoverDeadline
  PROVE  IInv'
<1>1. /\ UNCHANGED <<current, failed, replacements, closing, stats, outcome, postedTo, os,
                     terminated, errored, inbox, outbox, age>>
      /\ handover = "waiting" /\ handover' = "overdue"
  BY DEF HandoverDeadline, threadVars
<1>2. ReportsTypeOK'
  BY <1>1 DEF IInv, ReportsTypeOK
<1>3. PredecessorsAreGone' /\ TheCurrentThreadIsJudged' /\ BudgetIsKept'
  BY <1>1 DEF IInv, PredecessorsAreGone, TheCurrentThreadIsJudged, Waiting, BudgetIsKept
<1> QED BY <1>2, <1>3 DEF IInv

\* The one start that the budget had room for.
LEMMA ReplaceInv ==
  ASSUME IInv, Replace
  PROVE  IInv'
<1>1. /\ UNCHANGED <<closing, stats, outcome, postedTo, errored, outbox>>
      /\ handover # "none" /\ handover' = "none"
      /\ os[current] = "reaped"
  BY DEF Replace, PredecessorGone
<1>2. BudgetIsKept' /\ replacements' \subseteq Starts /\ age' \in [Starts -> 0 .. Window]
  <2>1. CASE StillWanted
    <3>1. PICK s \in Starts \ replacements :
            age' = [age EXCEPT ![s] = 0] /\ replacements' = replacements \cup {s}
      BY <2>1 DEF Replace
    <3>2. /\ replacements \subseteq Starts /\ age \in [Starts -> 0 .. Window]
          /\ Cardinality(replacements) < MaxReplacements
          /\ {x \in Starts : age[x] < Window} \subseteq replacements
      BY <1>1 DEF IInv, ReportsTypeOK, BudgetIsKept
    <3>3. IsFiniteSet(replacements) /\ Cardinality(replacements) \in Nat
      BY <3>2, Fewer
    <3>4. Cardinality(replacements') = Cardinality(replacements) + 1
      BY <3>1, <3>3, FS_AddElement
    <3>5. {x \in Starts : age'[x] < Window} \subseteq replacements'
      BY <3>1, <3>2
    <3>6. age' \in [Starts -> 0 .. Window]
      BY <3>1, <3>2, ReportThreadsAssumption
    <3> QED BY <1>1, <3>1, <3>2, <3>3, <3>4, <3>5, <3>6, ReportThreadsAssumption DEF BudgetIsKept
  <2>2. CASE ~StillWanted
    BY <1>1, <2>2 DEF Replace, IInv, ReportsTypeOK, BudgetIsKept
  <2> QED BY <2>1, <2>2
<1>3. CASE SpawnThrows
  <2>1. ReportsTypeOK'
    BY <1>1, <1>2, <1>3 DEF SpawnThrows, IInv, ReportsTypeOK
  <2>2. PredecessorsAreGone' /\ TheCurrentThreadIsJudged'
    BY <1>1, <1>3 DEF SpawnThrows, IInv, PredecessorsAreGone, TheCurrentThreadIsJudged, Waiting
  <2> QED BY <1>2, <2>1, <2>2 DEF IInv
<1>4. ASSUME StillWanted, NEW t \in Threads, Spawn(t)
      PROVE  IInv'
  <2>1. Waiting' = {}
    BY <1>1, <1>4 DEF StillWanted, IInv, PredecessorsAreGone, TheCurrentThreadIsJudged, Waiting
  <2>2. ReportsTypeOK'
    BY <1>1, <1>2, <1>4 DEF Spawn, IInv, ReportsTypeOK, ThreadStates
  <2>3. PredecessorsAreGone'
    BY <1>1, <1>4 DEF Spawn, IInv, ReportsTypeOK, PredecessorsAreGone
  <2>4. TheCurrentThreadIsJudged'
    BY <1>4, <2>1 DEF Spawn, IInv, ReportsTypeOK, TheCurrentThreadIsJudged
  <2> QED BY <1>2, <2>2, <2>3, <2>4 DEF IInv
<1> QED BY <1>3, <1>4 DEF Replace

LEMMA TickInv ==
  ASSUME IInv, Tick
  PROVE  IInv'
<1>1. /\ UNCHANGED <<current, failed, handover, replacements, closing, stats, outcome, postedTo,
                     os, terminated, errored, inbox, outbox>>
      /\ age' = [s \in Starts |-> IF age[s] < Window THEN age[s] + 1 ELSE Window]
  BY DEF Tick, gameVars, threadVars
<1>2. age \in [Starts -> 0 .. Window] /\ Window \in Nat
  BY ReportThreadsAssumption DEF IInv, ReportsTypeOK
<1>3. age' \in [Starts -> 0 .. Window]
  BY <1>1, <1>2
<1>4. {s \in Starts : age'[s] < Window} \subseteq {s \in Starts : age[s] < Window}
  BY <1>1, <1>2
<1>5. ReportsTypeOK'
  BY <1>1, <1>3 DEF IInv, ReportsTypeOK
<1>6. PredecessorsAreGone' /\ TheCurrentThreadIsJudged' /\ BudgetIsKept'
  BY <1>1, <1>4 DEF IInv, PredecessorsAreGone, TheCurrentThreadIsJudged, Waiting, BudgetIsKept
<1> QED BY <1>5, <1>6 DEF IInv

LEMMA CloseInv ==
  ASSUME IInv, Close
  PROVE  IInv'
<1>1. /\ UNCHANGED <<current, handover, replacements, postedTo, os, errored, outbox, age>>
      /\ closing = "open" /\ closing' = "waiting"
  BY DEF Close
<1>2. CASE failed[current]
  <2>1. UNCHANGED <<failed, stats, outcome, terminated, inbox>> /\ Waiting = {}
    BY <1>2 DEF Close, IInv, TheCurrentThreadIsJudged
  <2>2. ReportsTypeOK'
    BY <1>1, <2>1 DEF IInv, ReportsTypeOK
  <2>3. PredecessorsAreGone' /\ TheCurrentThreadIsJudged' /\ BudgetIsKept'
    BY <1>1, <2>1
    DEF IInv, PredecessorsAreGone, TheCurrentThreadIsJudged, Waiting, BudgetIsKept
  <2> QED BY <2>2, <2>3 DEF IInv
<1>3. CASE ~failed[current]
  <2>1. Fail(current, "close") /\ inbox' = [inbox EXCEPT ![current] = Append(@, "close")]
    BY <1>3 DEF Close
  <2>2. /\ failed' \in [Threads -> BOOLEAN] /\ stats' \in Stats
        /\ outcome' \in [Requests -> Outcomes] /\ terminated' \in [Threads -> BOOLEAN]
        /\ TheCurrentThreadIsJudged'
        /\ failed'[current]
    BY <1>1, <2>1, FailInv
  <2>3. inbox' \in [Threads -> Seq(Requests \cup {"close"})]
    <3>1. inbox[current] \in Seq(Requests \cup {"close"})
      BY DEF IInv, ReportsTypeOK
    <3>2. Append(inbox[current], "close") \in Seq(Requests \cup {"close"})
      BY <3>1, PortsStay
    <3> QED BY <2>1, <3>2 DEF IInv, ReportsTypeOK
  <2>4. ReportsTypeOK'
    BY <1>1, <2>2, <2>3 DEF IInv, ReportsTypeOK
  <2>5. PredecessorsAreGone' /\ BudgetIsKept'
    BY <1>1, <2>2, BudgetRests DEF IInv, PredecessorsAreGone
  <2> QED BY <2>2, <2>4, <2>5 DEF IInv
<1> QED BY <1>2, <1>3

LEMMA CloseSettlesInv ==
  ASSUME IInv, CloseOnExit \/ CloseDeadline
  PROVE  IInv'
<1>1. /\ UNCHANGED <<current, failed, handover, replacements, stats, outcome, postedTo, os,
                     errored, inbox, outbox, age>>
      /\ closing = "waiting" /\ closing' = "settled"
      /\ terminated' \in [Threads -> BOOLEAN]
  BY DEF CloseOnExit, CloseDeadline, threadVars, IInv, ReportsTypeOK
<1>2. ReportsTypeOK'
  BY <1>1 DEF IInv, ReportsTypeOK
<1>3. PredecessorsAreGone' /\ TheCurrentThreadIsJudged' /\ BudgetIsKept'
  BY <1>1 DEF IInv, PredecessorsAreGone, TheCurrentThreadIsJudged, Waiting, BudgetIsKept
<1> QED BY <1>2, <1>3 DEF IInv

\* Only the current thread runs, so only its ports move.
LEMMA ThreadInv ==
  ASSUME IInv, NEW t \in Threads, Handle(t) \/ Report(t) \/ Die(t)
  PROVE  IInv'
<1>1. /\ UNCHANGED <<current, failed, handover, replacements, closing, stats, outcome, postedTo,
                     terminated, age>>
      /\ os[t] = "running"
  BY DEF Handle, Report, Die, gameVars
<1>2. t = current
  BY <1>1 DEF IInv, PredecessorsAreGone
<1>3. /\ inbox[t] \in Seq(Requests \cup {"close"}) /\ outbox[t] \in Seq(Replies)
      /\ os \in [Threads -> ThreadStates]
      /\ errored \in [Threads -> BOOLEAN]
      /\ inbox \in [Threads -> Seq(Requests \cup {"close"})]
      /\ outbox \in [Threads -> Seq(Replies)]
  BY DEF IInv, ReportsTypeOK
<1>4. /\ os' \in [Threads -> ThreadStates] /\ os'[t] \in {"running", "dead"}
      /\ errored' \in [Threads -> BOOLEAN]
      /\ inbox' \in [Threads -> Seq(Requests \cup {"close"})]
      /\ outbox' \in [Threads -> Seq(Replies)]
      /\ \A u \in Threads : u # t => /\ os'[u] = os[u] /\ errored'[u] = errored[u]
                                     /\ outbox'[u] = outbox[u]
  <2>1. CASE Handle(t)
    <3>1. Tail(inbox[t]) \in Seq(Requests \cup {"close"}) /\ Head(inbox[t]) \in Requests \cup {"close"}
      BY <1>3, <2>1, HeadTailProperties DEF Handle
    <3>2. CASE Head(inbox[t]) = "close"
      BY <1>1, <1>3, <2>1, <3>1, <3>2 DEF Handle, ThreadStates
    <3>3. CASE Head(inbox[t]) # "close"
      <4>1. Append(outbox[t], Head(inbox[t])) \in Seq(Replies)
        BY <1>3, <3>1, <3>3, PortsStay DEF Replies
      <4> QED BY <1>1, <1>3, <2>1, <3>1, <3>3, <4>1 DEF Handle, ThreadStates
    <3> QED BY <3>2, <3>3
  <2>2. CASE Report(t)
    <3>1. PICK reply \in {"measured", "fault"} : outbox' = [outbox EXCEPT ![t] = Append(@, reply)]
      BY <2>2 DEF Report
    <3>2. Append(outbox[t], reply) \in Seq(Replies)
      BY <1>3, PortsStay DEF Replies
    <3> QED BY <1>1, <1>3, <2>2, <3>1, <3>2 DEF Report
  <2>3. CASE Die(t)
    <3>1. <<>> \in Seq(Requests \cup {"close"})
      OBVIOUS
    <3> QED BY <1>1, <1>3, <2>3, <3>1 DEF Die, ThreadStates
  <2> QED BY <2>1, <2>2, <2>3
<1>5. ReportsTypeOK'
  BY <1>1, <1>4 DEF IInv, ReportsTypeOK
<1>6. PredecessorsAreGone'
  BY <1>1, <1>2, <1>4 DEF IInv, PredecessorsAreGone
<1>7. TheCurrentThreadIsJudged' /\ BudgetIsKept'
  BY <1>1 DEF IInv, TheCurrentThreadIsJudged, Waiting, BudgetIsKept
<1> QED BY <1>5, <1>6, <1>7 DEF IInv

LEMMA NextInv == IInv /\ [Next]_vars => IInv'
<1> SUFFICES ASSUME IInv, [Next]_vars PROVE IInv'
  OBVIOUS
<1>1. CASE UNCHANGED vars
  <2>1. ReportsTypeOK'
    BY <1>1 DEF vars, gameVars, threadVars, IInv, ReportsTypeOK
  <2>2. PredecessorsAreGone' /\ TheCurrentThreadIsJudged' /\ BudgetIsKept'
    BY <1>1 DEF vars, gameVars, threadVars, IInv, PredecessorsAreGone, TheCurrentThreadIsJudged,
                Waiting, BudgetIsKept
  <2> QED BY <2>1, <2>2 DEF IInv
<1>2. ASSUME NEW r \in Requests, MakeRequest(r) \/ RequestDeadline(r) \/ Recycle(r)
      PROVE  IInv'
  BY <1>2, MakeRequestInv, RequestDeadlineInv, RecycleInv
<1>3. ASSUME NEW t \in Threads,
             ReceiveReply(t) \/ ReceiveError(t) \/ ReceiveExit(t) \/ Handle(t) \/ Report(t) \/ Die(t)
      PROVE  IInv'
  BY <1>3, ReceiveReplyInv, ReceiveErrorInv, ReceiveExitInv, ThreadInv
<1> QED BY <1>1, <1>2, <1>3, HandoverDeadlineInv, ReplaceInv, TickInv, CloseInv, CloseSettlesInv
    DEF Next

\* The inductive invariant holds in every reachable state, for every number of requests and
\* threads and every budget.
THEOREM InvHolds == Spec => []IInv
BY InitInv, NextInv, PTL DEF Spec

\* At most one thread has the store open, at most MaxReplacements replacements start in any
\* window, and requests, deadlines and /health go by the current thread.
THEOREM OneThreadCountsHolds == Spec => []OneThreadCounts
<1>1. IInv => OneThreadCounts
  <2> SUFFICES ASSUME IInv PROVE OneThreadCounts
    OBVIOUS
  <2>1. Cardinality({t \in Threads : os[t] = "running"}) <= 1
    <3>1. {t \in Threads : os[t] = "running"} \subseteq {current}
      BY DEF IInv, PredecessorsAreGone
    <3> QED BY <3>1, AtMostOne
  <2>2. Cardinality({s \in Starts : age[s] < Window}) <= MaxReplacements
    <3>1. /\ replacements \subseteq Starts
          /\ {s \in Starts : age[s] < Window} \subseteq replacements
          /\ Cardinality(replacements) <= MaxReplacements
      BY DEF IInv, ReportsTypeOK, BudgetIsKept
    <3>2. /\ Cardinality({s \in Starts : age[s] < Window}) \in Nat
          /\ Cardinality(replacements) \in Nat
          /\ Cardinality({s \in Starts : age[s] < Window}) <= Cardinality(replacements)
      BY <3>1, Fewer
    <3> QED BY <3>1, <3>2, ReportThreadsAssumption
  <2> QED BY <2>1, <2>2 DEF OneThreadCounts, IInv
<1> QED BY <1>1, InvHolds, PTL

\* Once close() was called no thread is constructed.
THEOREM NothingStartsAfterCloseHolds == Spec => NothingStartsAfterClose
<1>1. [Next]_vars => [closing # "open" => current' = current]_vars
  <2> SUFFICES ASSUME Next, closing # "open" PROVE current' = current
    OBVIOUS
  <2>1. CASE Replace
    BY <2>1 DEF Replace, StillWanted, SpawnThrows
  <2>2. CASE \E r \in Requests : MakeRequest(r) \/ RequestDeadline(r) \/ Recycle(r)
    BY <2>2 DEF MakeRequest, RequestDeadline, Recycle
  <2>3. CASE \E t \in Threads : \/ ReceiveReply(t) \/ ReceiveError(t) \/ ReceiveExit(t)
                                \/ Handle(t) \/ Report(t) \/ Die(t)
    BY <2>3 DEF ReceiveReply, ReceiveError, ReceiveExit, Handle, Report, Die, gameVars
  <2>4. CASE HandoverDeadline \/ Tick \/ Close \/ CloseOnExit \/ CloseDeadline
    BY <2>4 DEF HandoverDeadline, Tick, Close, CloseOnExit, CloseDeadline, gameVars
  <2> QED BY <2>1, <2>2, <2>3, <2>4 DEF Next
<1> QED BY <1>1, PTL DEF Spec, NothingStartsAfterClose

\* Nor does the number of names for starts hold a replacement back: one is always left for
\* the start that is under way, so the bound leaves nothing out.
THEOREM AStartIsAlwaysLeft ==
  Spec => [](handover # "none" => \E s \in Starts \ replacements : age[s] = Window)
<1>1. IInv => (handover # "none" => \E s \in Starts \ replacements : age[s] = Window)
  <2> SUFFICES ASSUME IInv, handover # "none"
               PROVE  \E s \in Starts \ replacements : age[s] = Window
    OBVIOUS
  <2>1. /\ replacements \subseteq Starts /\ age \in [Starts -> 0 .. Window]
        /\ {s \in Starts : age[s] < Window} \subseteq replacements
        /\ Cardinality(replacements) < MaxReplacements
    BY DEF IInv, ReportsTypeOK, BudgetIsKept
  <2>2. replacements # Starts
    BY <2>1, Fewer, ReportThreadsAssumption, FS_CardinalityType
  <2>3. PICK s \in Starts : s \notin replacements
    BY <2>1, <2>2
  <2>4. age[s] = Window
    BY <2>1, <2>3, ReportThreadsAssumption
  <2> QED BY <2>3, <2>4
<1> QED BY <1>1, InvHolds, PTL
=============================================================================
