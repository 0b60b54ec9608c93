---------------------------- MODULE ReportThreads ----------------------------
(***************************************************************************)
(* The game thread's hold on the debug-report thread: DebugReportWorker in *)
(* server/debugReports/client.ts, with the requests its HTTP layer admits  *)
(* and the thread (worker.ts) as far as the game thread can tell.          *)
(*                                                                         *)
(* Requests are recycled once nothing refers to them any more (the code    *)
(* numbers them afresh), and so are threads and the starts that the budget *)
(* remembers.  The clock is kept as their ages, in parts of the budget's   *)
(* window, so that the system never ends; the three deadlines of ten, ten  *)
(* and two seconds may run out whenever they are armed.  What is logged    *)
(* about a fault is left out.                                              *)
(***************************************************************************)
EXTENDS Naturals, Sequences, FiniteSets, SequencesExt

CONSTANTS
    Requests,           \* requests under way at a time
    Threads,            \* names for threads
    Starts,             \* names for starts of a replacement
    MaxPending,         \* at most this many requests wait (8 in the code)
    MaxReplacements,    \* MAX_REPLACEMENTS
    Window,             \* REPLACEMENT_WINDOW_MS, in ticks of the model
    MaxReplies          \* bound on the replies a thread has in flight

ASSUME ReportThreadsAssumption ==
    /\ MaxPending \in Nat \ {0}
    /\ MaxReplacements \in Nat \ {0}
    /\ Window \in Nat \ {0}
    /\ MaxReplies \in Nat \ {0}
    /\ Threads # {}
    /\ IsFiniteSet(Starts) /\ Cardinality(Starts) > MaxReplacements
    /\ Requests \cap {"measured", "fault", "close"} = {}

VARIABLES
    \* the game thread
    current,        \* the most recent thread
    failed,         \* threads whose failure is recorded
    handover,       \* the replacement in progress
    replacements,   \* the starts that the budget remembers
    closing,        \* close() was not called, waits, has settled
    stats,          \* what /health shows of the queue
    outcome,        \* what became of each request
    postedTo,       \* the thread a request was posted to
    \* the threads
    os,             \* see ThreadStates
    terminated,     \* terminate() was called
    errored,        \* an uncaught error is still to be reported
    inbox,          \* requests posted
    outbox,         \* replies on their way back
    \* the clock
    age             \* ticks since each start; Window, for one in no window any more

gameVars == <<current, failed, handover, replacements, closing, stats, outcome, postedTo>>
threadVars == <<os, terminated, errored, inbox, outbox>>
vars == <<gameVars, threadVars, age>>

\* Not constructed (any more); with an open store; ended, which the game thread
\* has not been told yet; and ended, its exit event handled.
ThreadStates == {"free", "running", "dead", "reaped"}
Outcomes == {"unmade", "waiting", "answered", "failed", "refused"}
Stats == {"unknown", "measured", "fault", "failed", "closing"}
Replies == Requests \cup {"measured", "fault"}

ReportsTypeOK ==
    /\ current \in Threads
    /\ failed \in [Threads -> BOOLEAN]
    /\ handover \in {"none", "waiting", "overdue"}
    /\ replacements \subseteq Starts
    /\ closing \in {"open", "waiting", "settled"}
    /\ stats \in Stats
    /\ outcome \in [Requests -> Outcomes]
    /\ postedTo \in [Requests -> Threads]
    /\ os \in [Threads -> ThreadStates]
    /\ terminated \in [Threads -> BOOLEAN]
    /\ errored \in [Threads -> BOOLEAN]
    /\ inbox \in [Threads -> Seq(Requests \cup {"close"})]
    /\ outbox \in [Threads -> Seq(Replies)]
    /\ age \in [Starts -> 0 .. Window]

Init ==
    /\ current \in Threads
    /\ failed = [t \in Threads |-> FALSE]
    /\ handover = "none"
    /\ replacements = {}
    /\ closing = "open"
    /\ stats = "unknown"
    /\ outcome = [r \in Requests |-> "unmade"]
    /\ postedTo = [r \in Requests |-> current]
    /\ os = [t \in Threads |-> IF t = current THEN "running" ELSE "free"]
    /\ terminated = [t \in Threads |-> FALSE]
    /\ errored = [t \in Threads |-> FALSE]
    /\ inbox = [t \in Threads |-> <<>>]
    /\ outbox = [t \in Threads |-> <<>>]
    /\ age = [s \in Starts |-> Window]

Waiting == {r \in Requests : outcome[r] = "waiting"}

-----------------------------------------------------------------------------
(* Failing a thread.                                                       *)

\* Mutant: a failing thread leaves its requests to their own deadlines.
RejectNone(t) == outcome

\* Every request that waits is rejected.
RejectPending(t) == [r \in Requests |-> IF r \in Waiting THEN "failed" ELSE outcome[r]]

\* fail(): the first failure of a thread is recorded, published and ends every
\* request; unless the service is being closed, the thread is terminated too.
Fail(t, cause) ==
    \/ /\ failed[t]
       /\ UNCHANGED <<failed, stats, outcome, terminated>>
    \/ /\ ~failed[t]
       /\ failed' = [failed EXCEPT ![t] = TRUE]
       /\ outcome' = IF Waiting = {} THEN outcome ELSE RejectPending(t)
       /\ IF cause = "close"
          THEN /\ stats' = IF stats = "measured" THEN "closing" ELSE "failed"
               /\ UNCHANGED terminated
          ELSE /\ stats' = "failed"
               /\ terminated' = [terminated EXCEPT ![t] = TRUE]

\* A request's deadline fails the thread it was posted to.
RequestDeadline(r) ==
    /\ r \in Waiting
    /\ Fail(postedTo[r], "timeout")
    /\ UNCHANGED <<current, handover, replacements, closing, postedTo, os, errored, inbox,
                   outbox, age>>

\* The worker's "error" event.
ReceiveError(t) ==
    /\ errored[t]
    /\ errored' = [errored EXCEPT ![t] = FALSE]
    /\ Fail(t, "uncaught")
    /\ UNCHANGED <<current, handover, replacements, closing, postedTo, os, inbox, outbox, age>>

\* The worker's "exit" event, after everything else it had to say.
ReceiveExit(t) ==
    /\ os[t] = "dead"
    /\ ~errored[t]
    /\ outbox[t] = <<>>
    /\ os' = [os EXCEPT ![t] = "reaped"]
    /\ IF closing = "open"
       THEN Fail(t, "exit")
       ELSE UNCHANGED <<failed, stats, outcome, terminated>>
    /\ UNCHANGED <<current, handover, replacements, closing, postedTo, errored, inbox, outbox,
                   age>>

-----------------------------------------------------------------------------
(* Requests.                                                               *)

Settle(r, how) == outcome' = [outcome EXCEPT ![r] = how]

\* The replacements of the last window.
Remembered == {s \in replacements : age[s] < Window}

\* recover(): asks for a replacement unless one is under way or the budget is spent.
Recover ==
    \/ /\ handover # "none"
       /\ UNCHANGED <<handover, replacements>>
    \/ /\ handover = "none"
       /\ replacements' = Remembered
       /\ handover' = IF Cardinality(Remembered) >= MaxReplacements THEN "none" ELSE "waiting"

\* request(): refused when closing, when the thread has failed, when too many wait.
MakeRequest(r) ==
    /\ outcome[r] = "unmade"
    /\ \/ /\ closing # "open"
          /\ Settle(r, "refused")
          /\ UNCHANGED <<handover, replacements, postedTo, inbox>>
       \/ /\ closing = "open"
          /\ failed[current]
          /\ Recover
          /\ Settle(r, "refused")
          /\ UNCHANGED <<postedTo, inbox>>
       \/ /\ closing = "open"
          /\ ~failed[current]
          /\ Cardinality(Waiting) >= MaxPending
          /\ Settle(r, "refused")
          /\ UNCHANGED <<handover, replacements, postedTo, inbox>>
       \/ /\ closing = "open"
          /\ ~failed[current]
          /\ Cardinality(Waiting) < MaxPending
          /\ Settle(r, "waiting")
          /\ postedTo' = [postedTo EXCEPT ![r] = current]
          /\ inbox' = [inbox EXCEPT ![current] = Append(@, r)]
          /\ UNCHANGED <<handover, replacements>>
    /\ UNCHANGED <<current, failed, closing, stats, os, terminated, errored, outbox, age>>

\* The "message" listener drops what a thread says after its failure.
Heeded(t) == ~failed[t]

\* receive()
ReceiveReply(t) ==
    /\ outbox[t] # <<>>
    /\ outbox' = [outbox EXCEPT ![t] = Tail(@)]
    /\ LET reply == Head(outbox[t]) IN
         \/ /\ ~Heeded(t)
            /\ UNCHANGED <<stats, outcome>>
         \/ /\ Heeded(t)
            /\ reply \in {"measured", "fault"}
            /\ stats' = reply
            /\ UNCHANGED outcome
         \/ /\ Heeded(t)
            /\ reply \in Requests
            /\ IF reply \in Waiting THEN Settle(reply, "answered") ELSE UNCHANGED outcome
            /\ UNCHANGED stats
    /\ UNCHANGED <<current, failed, handover, replacements, closing, postedTo, os, terminated,
                   errored, inbox, age>>

\* A request of this name may be made again once nothing refers to it.
Recycle(r) ==
    /\ outcome[r] \in {"answered", "failed", "refused"}
    /\ \A t \in Threads : /\ os[t] = "running" => ~Contains(inbox[t], r)
                          /\ ~Contains(outbox[t], r)
    /\ Settle(r, "unmade")
    /\ UNCHANGED <<current, failed, handover, replacements, closing, stats, postedTo,
                   threadVars, age>>

-----------------------------------------------------------------------------
(* Replacing a thread.                                                     *)

HandoverDeadline ==
    /\ handover = "waiting"
    /\ os[current] # "reaped"
    /\ closing = "open"
    /\ handover' = "overdue"
    /\ UNCHANGED <<current, failed, replacements, closing, stats, outcome, postedTo, threadVars,
                   age>>

\* Mutant: the replacement starts once its predecessor is told to stop.
TerminatedIsEnough == terminated[current]

\* The predecessor's exit is when its connection to the store is gone.
PredecessorGone == os[current] = "reaped"

Spawn(t) ==
    /\ t # current
    /\ os[t] \in {"free", "reaped"}
    /\ current' = t
    /\ os' = [os EXCEPT ![t] = "running"]
    /\ failed' = [failed EXCEPT ![t] = FALSE]
    /\ terminated' = [terminated EXCEPT ![t] = FALSE]
    /\ inbox' = [inbox EXCEPT ![t] = <<>>]

SpawnThrows == UNCHANGED <<current, os, failed, terminated, inbox>>

\* Mutant: a replacement under way is started whatever happened since.
WantedRegardless == TRUE

\* No replacement starts once close() was called.
StillWanted == closing = "open"

\* The continuation of exited.then(): construction may throw, which spends the slot.
Replace ==
    /\ handover # "none"
    /\ handover' = "none"
    /\ PredecessorGone
    /\ \/ /\ StillWanted
          /\ \E s \in Starts \ replacements :
                /\ age[s] = Window
                /\ age' = [age EXCEPT ![s] = 0]     \* counted from its start
                /\ replacements' = replacements \cup {s}
          /\ (\E t \in Threads : Spawn(t)) \/ SpawnThrows
       \/ /\ ~StillWanted
          /\ SpawnThrows
          /\ UNCHANGED <<replacements, age>>
    /\ UNCHANGED <<closing, stats, outcome, postedTo, errored, outbox>>

Tick ==
    /\ age' = [s \in Starts |-> IF age[s] < Window THEN age[s] + 1 ELSE Window]
    /\ UNCHANGED <<gameVars, threadVars>>

-----------------------------------------------------------------------------
(* Closing.                                                                *)

\* close(): a live thread is asked to close; a failed one was terminated before.
Close ==
    /\ closing = "open"
    /\ closing' = "waiting"
    /\ IF failed[current]
       THEN UNCHANGED <<failed, stats, outcome, terminated, inbox>>
       ELSE /\ Fail(current, "close")
            /\ inbox' = [inbox EXCEPT ![current] = Append(@, "close")]
    /\ UNCHANGED <<current, handover, replacements, postedTo, os, errored, outbox, age>>

CloseOnExit ==
    /\ closing = "waiting"
    /\ os[current] = "reaped"
    /\ closing' = "settled"
    /\ UNCHANGED <<current, failed, handover, replacements, stats, outcome, postedTo, threadVars,
                   age>>

CloseDeadline ==
    /\ closing = "waiting"
    /\ os[current] # "reaped"
    /\ closing' = "settled"
    /\ terminated' = [terminated EXCEPT ![current] = TRUE]
    /\ UNCHANGED <<current, failed, handover, replacements, stats, outcome, postedTo, os, errored,
                   inbox, outbox, age>>

-----------------------------------------------------------------------------
(* The thread (worker.ts).                                                 *)

\* A message is handled: answered, or the thread closes its store and ends.
Handle(t) ==
    /\ os[t] = "running"
    /\ inbox[t] # <<>>
    /\ inbox' = [inbox EXCEPT ![t] = Tail(@)]
    /\ IF Head(inbox[t]) = "close"
       THEN /\ os' = [os EXCEPT ![t] = "dead"]
            /\ UNCHANGED outbox
       ELSE /\ outbox' = [outbox EXCEPT ![t] = Append(@, Head(inbox[t]))]
            /\ UNCHANGED os
    /\ UNCHANGED <<gameVars, terminated, errored, age>>

\* A delivery tick reports the depth of the queue, or that the store failed.
Report(t) ==
    /\ os[t] = "running"
    /\ Len(outbox[t]) < MaxReplies
    /\ \E reply \in {"measured", "fault"} : outbox' = [outbox EXCEPT ![t] = Append(@, reply)]
    /\ UNCHANGED <<gameVars, os, terminated, errored, inbox, age>>

\* The thread ends: by itself, of an uncaught error (a store that cannot be
\* opened is one), or because it was terminated.
Die(t) ==
    /\ os[t] = "running"
    /\ os' = [os EXCEPT ![t] = "dead"]
    /\ \/ errored' = [errored EXCEPT ![t] = TRUE]
       \/ UNCHANGED errored
    /\ inbox' = [inbox EXCEPT ![t] = <<>>]
    /\ UNCHANGED <<gameVars, terminated, outbox, age>>

-----------------------------------------------------------------------------

Next ==
    \/ \E r \in Requests : MakeRequest(r) \/ RequestDeadline(r) \/ Recycle(r)
    \/ \E t \in Threads : \/ ReceiveReply(t) \/ ReceiveError(t) \/ ReceiveExit(t)
                          \/ Handle(t) \/ Report(t) \/ Die(t)
    \/ HandoverDeadline \/ Replace \/ Tick
    \/ Close \/ CloseOnExit \/ CloseDeadline

Spec == Init /\ [][Next]_vars

\* Timers run out, events are delivered and time passes; a terminated thread ends
\* (its SQLite call returns); visitors keep trying; and construction does not
\* throw every time.
Progress ==
    /\ \A r \in Requests : /\ WF_vars(RequestDeadline(r))
                           /\ WF_vars(Recycle(r))
                           /\ WF_vars(MakeRequest(r))
    /\ \A t \in Threads : /\ WF_vars(ReceiveReply(t))
                          /\ WF_vars(ReceiveError(t))
                          /\ WF_vars(ReceiveExit(t))
                          /\ WF_vars(Handle(t))
                          /\ WF_vars(terminated[t] /\ Die(t))
    /\ WF_vars(Replace)
    /\ SF_vars(Replace /\ current' # current)
    /\ WF_vars(Tick)
    /\ WF_vars(CloseOnExit)
    /\ WF_vars(CloseDeadline)

FairSpec == Spec /\ Progress

-----------------------------------------------------------------------------
(* Properties.                                                             *)

\* A request that waits was posted to the current thread, which has not failed: its
\* deadline judges that thread and never a successor. And once a thread has failed,
\* /health shows the failure, never a depth measured before it, until another thread
\* measures the queue.
TheCurrentThreadIsJudged ==
    /\ \A r \in Waiting : postedTo[r] = current /\ ~failed[current] /\ closing = "open"
    /\ closing = "open" /\ failed[current] => stats = "failed"

\* One thread counts. At most one has the store open, so a replacement never finds
\* the database locked and no row is delivered by two threads (client.ts: "One thread
\* exists at a time"); at most MaxReplacements replacements start in any window,
\* however late a handover ends (docs/agent-operations.md: "in any rolling hour");
\* and requests, deadlines and /health go by that thread.
OneThreadCounts ==
    /\ Cardinality({t \in Threads : os[t] = "running"}) <= 1
    /\ Cardinality({s \in Starts : age[s] < Window}) <= MaxReplacements
    /\ TheCurrentThreadIsJudged

\* A thread that is not the current one has ended and been heard to the end, or was never
\* constructed; and the current one has not ended unnoticed.
PredecessorsAreGone ==
    /\ os[current] # "free"
    /\ \A t \in Threads : t # current => os[t] \in {"free", "reaped"}
    /\ \A t \in Threads : os[t] \in {"free", "reaped"} => ~errored[t] /\ outbox[t] = <<>>
    /\ os[current] = "reaped" => failed[current] \/ closing # "open"

\* The budget remembers every start of the last window, and has room for the one that is
\* under way.
BudgetIsKept ==
    /\ {s \in Starts : age[s] < Window} \subseteq replacements
    /\ Cardinality(replacements) <= MaxReplacements
    /\ handover # "none" => Cardinality(replacements) < MaxReplacements

\* The inductive invariant.
IInv == ReportsTypeOK /\ PredecessorsAreGone /\ BudgetIsKept /\ TheCurrentThreadIsJudged

\* Once close() was called no thread is constructed, so the one it stops is the
\* only one there is.
NothingStartsAfterClose == [][closing # "open" => current' = current]_vars

\* Every request is answered, refused or rejected, and close() settles; and while
\* visitors keep trying, a failed thread is replaced in the end, the budget
\* notwithstanding, unless the service is closed.
EverybodyIsAnswered ==
    /\ \A r \in Requests : outcome[r] = "waiting" ~> outcome[r] # "waiting"
    /\ closing = "waiting" ~> closing = "settled"
    /\ failed[current] /\ closing = "open" ~> ~failed[current] \/ closing # "open"
=============================================================================
