----------------------------- MODULE WorldWriter -----------------------------
(***************************************************************************)
(* The writer thread of the world database and the adapter the game thread *)
(* hands its batches to (server/world/WorkerWorldPersistence.ts and        *)
(* worldStoreWorker.ts).  The adapter's client is the engine, which        *)
(* EngineWriter composes with this module.                                 *)
(*                                                                         *)
(* Batches are numbered in the order they were handed over; a reset of the *)
(* world is a request like a batch and is not told apart.  Threads talk    *)
(* over FIFO ports, and Node empties the port of a thread that ended       *)
(* before it reports the exit.  Time is abstracted: a timeout may fire     *)
(* whenever it is armed.                                                   *)
(***************************************************************************)
EXTENDS Naturals, Sequences, FiniteSets

CONSTANTS
    MaxPending,     \* MAX_PENDING_REQUESTS
    MaxBatches      \* bound on the batches a client hands over

ASSUME WriterAssumption == MaxPending \in Nat \ {0} /\ MaxBatches \in Nat

VARIABLES
    \* the adapter, on the game thread
    handed,     \* number of the last batch handed over
    pending,    \* batches without an answer
    waited,     \* somebody waits for whenIdle
    failure,    \* a failure was reported
    closing,    \* see Closings
    \* the ports
    toWorker,   \* requests on their way to the thread
    toGame,     \* its replies and events on their way back
    \* the writer thread
    worker,     \* see WorkerStates
    writing,    \* the batch in the thread's open transaction
    spoiled,    \* a transaction failed: nothing more may land
    terminated, \* terminate() was called
    \* the database
    db          \* batches committed

adapterVars == <<handed, pending, waited, failure, closing>>
writerVars == <<handed, pending, waited, failure, closing, toWorker, toGame,
                worker, writing, spoiled, terminated, db>>

ShutdownRequest == 0
NoBatch == 0

\* shutdown() has not been called; the thread was asked to close; the thread is
\* being terminated after a failure; and the three ways shutdown settles.
Closings == {"open", "draining", "terminating", "resolved", "rejected", "unreleased"}

\* A thread in a native SQLite call may never come back: "stuck".
WorkerStates == {"starting", "idle", "writing", "stuck", "gone"}

Done(b) == [type |-> "done", batch |-> b]
Failed == [type |-> "failed"]
Error == [type |-> "error"]
Exit == [type |-> "exit"]

WriterInit ==
    /\ handed = 0
    /\ pending = {}
    /\ waited = FALSE
    /\ failure = FALSE
    /\ closing = "open"
    /\ toWorker = <<>>
    /\ toGame = <<>>
    /\ worker = "starting"
    /\ writing = NoBatch
    /\ spoiled = FALSE
    /\ terminated = FALSE
    /\ db = {}

-----------------------------------------------------------------------------
(* The adapter.                                                            *)

\* fail: the first failure drops what is pending and wakes whoever waits.
\* Repeating it changes nothing.
Fail ==
    /\ failure' = TRUE
    /\ pending' = {}
    /\ waited' = FALSE

\* Mutant: a batch may be handed over after shutdown.
AcceptingWhileClosing == ~failure

Accepting == closing = "open" /\ ~failure

\* send: at MaxPending requests without an answer the adapter gives up instead.
Persist ==
    /\ Accepting
    /\ \/ /\ Cardinality(pending) < MaxPending
          /\ handed' = handed + 1
          /\ pending' = pending \cup {handed'}
          /\ toWorker' = Append(toWorker, handed')
          /\ UNCHANGED <<waited, failure>>
       \/ /\ Cardinality(pending) >= MaxPending
          /\ Fail
          /\ UNCHANGED <<handed, toWorker>>
    /\ UNCHANGED <<closing, toGame, worker, writing, spoiled, terminated, db>>

WhenIdle ==
    /\ pending # {}
    /\ waited' = TRUE
    /\ UNCHANGED <<handed, pending, failure, closing, toWorker, toGame, worker, writing,
                   spoiled, terminated, db>>

\* The answer to the last batch in flight wakes whoever waits.
ReceiveDone(reply) ==
    /\ reply.type = "done"
    /\ pending' = pending \ {reply.batch}
    /\ waited' = (waited /\ pending' # {})
    /\ UNCHANGED <<failure, closing>>

ReceiveFailure(reply) ==
    /\ reply.type \in {"failed", "error"}
    /\ Fail
    /\ UNCHANGED closing

\* Only shutdown ends the thread on purpose.
ReceiveExit(reply) ==
    /\ reply.type = "exit"
    /\ \/ closing = "open" /\ Fail /\ UNCHANGED closing
       \/ /\ closing = "draining"
          /\ closing' = IF failure THEN "rejected" ELSE "resolved"
          /\ UNCHANGED <<pending, waited, failure>>
       \/ /\ closing \notin {"open", "draining"}
          /\ UNCHANGED <<pending, waited, failure, closing>>

\* receive, and the thread's error and exit events.
Receive ==
    /\ toGame # <<>>
    /\ toGame' = Tail(toGame)
    /\ \/ ReceiveDone(Head(toGame))
       \/ ReceiveFailure(Head(toGame))
       \/ ReceiveExit(Head(toGame))
    /\ UNCHANGED <<handed, toWorker, worker, writing, spoiled, terminated, db>>

\* failIfStalled, until a failure or shutdown stops the watchdog.
Stall ==
    /\ Accepting
    /\ pending # {}
    /\ Fail
    /\ terminated' = TRUE
    /\ UNCHANGED <<handed, closing, toWorker, toGame, worker, writing, spoiled, db>>

\* shutdown: a request behind every batch, or terminate after a failure.
Shutdown ==
    /\ closing = "open"
    /\ \/ /\ failure
          /\ terminated' = TRUE
          /\ closing' = "terminating"
          /\ UNCHANGED toWorker
       \/ /\ ~failure
          /\ toWorker' = Append(toWorker, ShutdownRequest)
          /\ closing' = "draining"
          /\ UNCHANGED terminated
    /\ UNCHANGED <<handed, pending, waited, failure, toGame, worker, writing, spoiled, db>>

\* Mutant: a terminate that ran out of time is taken for a released thread.
TerminateSettlesEarly ==
    /\ closing = "terminating"
    /\ closing' = "rejected"
    /\ UNCHANGED <<handed, pending, waited, failure, toWorker, toGame, worker, writing,
                   spoiled, terminated, db>>

TerminateSettles ==
    /\ closing = "terminating"
    /\ worker = "gone"
    /\ closing' = "rejected"
    /\ UNCHANGED <<handed, pending, waited, failure, toWorker, toGame, worker, writing,
                   spoiled, terminated, db>>

\* SHUTDOWN_TIMEOUT_MS ran out.
Deadline ==
    /\ closing \in {"draining", "terminating"}
    /\ terminated' = TRUE
    /\ closing' = "unreleased"
    /\ UNCHANGED <<handed, pending, waited, failure, toWorker, toGame, worker, writing,
                   spoiled, db>>

-----------------------------------------------------------------------------
(* The thread.                                                             *)

\* The database opens and its rows are indexed.
Start ==
    /\ worker = "starting"
    /\ ~terminated
    /\ worker' = "idle"
    /\ UNCHANGED adapterVars /\ UNCHANGED <<toWorker, toGame, writing, spoiled, terminated, db>>

StartFails ==
    /\ worker = "starting"
    /\ worker' = "gone"
    /\ toGame' = toGame \o <<Failed, Error, Exit>>
    /\ UNCHANGED adapterVars /\ UNCHANGED <<toWorker, writing, spoiled, terminated, db>>

Serving == worker = "idle" /\ ~terminated /\ toWorker # <<>>

\* A batch behind a failed one is refused.
Take ==
    /\ Serving
    /\ Head(toWorker) # ShutdownRequest
    /\ toWorker' = Tail(toWorker)
    /\ \/ /\ ~spoiled
          /\ worker' = "writing"
          /\ writing' = Head(toWorker)
          /\ UNCHANGED toGame
       \/ /\ spoiled
          /\ toGame' = Append(toGame, Failed)
          /\ UNCHANGED <<worker, writing>>
    /\ UNCHANGED adapterVars /\ UNCHANGED <<spoiled, terminated, db>>

\* A thread terminated inside the commit ends when the native call returns.
Commit ==
    /\ worker = "writing"
    /\ db' = db \cup {writing}
    /\ writing' = NoBatch
    /\ IF terminated
       THEN worker' = "gone" /\ toGame' = Append(toGame, Exit)
       ELSE worker' = "idle" /\ toGame' = Append(toGame, Done(writing))
    /\ UNCHANGED adapterVars /\ UNCHANGED <<toWorker, spoiled, terminated>>

\* The transaction throws and rolls back.
CommitFails ==
    /\ worker = "writing"
    /\ ~terminated
    /\ spoiled' = TRUE
    /\ worker' = "idle"
    /\ writing' = NoBatch
    /\ toGame' = Append(toGame, Failed)
    /\ UNCHANGED adapterVars /\ UNCHANGED <<toWorker, terminated, db>>

\* The shutdown request: close the database, answer, and end.
Close ==
    /\ Serving
    /\ Head(toWorker) = ShutdownRequest
    /\ toWorker' = Tail(toWorker)
    /\ worker' = "gone"
    /\ \E answer \in {Done(ShutdownRequest), Failed} : toGame' = toGame \o <<answer, Exit>>
    /\ UNCHANGED adapterVars /\ UNCHANGED <<writing, spoiled, terminated, db>>

\* Opening the database, a transaction or a close never returns.
GetStuck ==
    /\ \/ worker \in {"starting", "writing"}
       \/ Serving /\ Head(toWorker) = ShutdownRequest
    /\ worker' = "stuck"
    /\ UNCHANGED adapterVars /\ UNCHANGED <<toWorker, toGame, writing, spoiled, terminated, db>>

\* The thread dies of an error nobody caught, an exhausted heap included.
Die ==
    /\ worker \in {"starting", "idle", "writing"}
    /\ worker' = "gone"
    /\ writing' = NoBatch
    /\ toGame' = toGame \o <<Error, Exit>>
    /\ UNCHANGED adapterVars /\ UNCHANGED <<toWorker, spoiled, terminated, db>>

\* A terminated thread stops, rolling back, unless it is stuck in a native call.
Stop ==
    /\ terminated
    /\ worker \in {"starting", "idle", "writing"}
    /\ worker' = "gone"
    /\ writing' = NoBatch
    /\ toGame' = Append(toGame, Exit)
    /\ UNCHANGED adapterVars /\ UNCHANGED <<toWorker, spoiled, terminated, db>>

-----------------------------------------------------------------------------
Adapter == Receive \/ Stall \/ TerminateSettles \/ Deadline
Opening == Start \/ StartFails
Writing == Commit \/ CommitFails
Thread == Opening \/ Take \/ Writing \/ Close \/ GetStuck \/ Die \/ Stop

-----------------------------------------------------------------------------
(* Properties.                                                             *)

Requests == Nat
Events == [type : {"done"}, batch : Requests] \cup {Failed, Error, Exit}

\* Type invariant of the adapter, the ports and the thread.
WriterTypeOK ==
    /\ handed \in Nat
    /\ pending \subseteq 1 .. handed
    /\ waited \in BOOLEAN
    /\ failure \in BOOLEAN
    /\ closing \in Closings
    /\ toWorker \in Seq(Requests)
    /\ toGame \in Seq(Events)
    /\ worker \in WorkerStates
    /\ writing \in 0 .. handed
    /\ spoiled \in BOOLEAN
    /\ terminated \in BOOLEAN
    /\ db \subseteq 1 .. handed

AllLanded == db = 1 .. handed

\* closing and failure, as BatchLog sees them.
Fate ==
    IF closing = "resolved" THEN "closed"
    ELSE IF failure \/ closing \in {"rejected", "unreleased"} THEN "failed"
    ELSE "serving"

Log == INSTANCE BatchLog WITH durable <- db, fate <- Fate

\* The adapter and the thread keep the promise of BatchLog: batches land in the order
\* they were handed over, each once, and close() resolves only when all have landed.
KeepsTheLog == Log!Spec
=============================================================================
