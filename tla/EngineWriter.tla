---------------------------- MODULE EngineWriter ----------------------------
(***************************************************************************)
(* The engine's side of world persistence, composed with the adapter and   *)
(* the writer thread of WorldWriter: the flush every second, the flush of  *)
(* the last departure, the flush that waits for an idle writer, the fatal  *)
(* tick, the orderly shutdown and its exit code, crashes and restarts      *)
(* (server/core/GameEngine.ts, createServer.ts close, server.ts).          *)
(*                                                                         *)
(* What a batch carries is abstracted to whether memory holds a change no  *)
(* batch carries.  An empty batch is not told apart from no batch.         *)
(***************************************************************************)
EXTENDS WorldWriter

VARIABLES
    dirty,          \* memory holds a change that no batch carries
    paused,         \* no pilot is in
    flushWaiting,   \* flushWaitingForIdle
    fatal,          \* persistenceFailure
    phase,          \* see Phases
    code,           \* requestedExitCode
    cut             \* the transports were cut at their deadline

engineVars == <<dirty, paused, flushWaiting, fatal, phase, code, cut>>
allVars == <<writerVars, engineVars>>

\* The loop runs; the loop is stopped and the transports close; the engine waits
\* for an idle writer; the adapter shuts down; and the two ways a process ends.
Phases == {"running", "stopping", "draining", "releasing", "exited", "killed"}

Up == phase \notin {"exited", "killed"}

\* A deferred flush runs as a microtask, before the event loop's next callback.
Microtask == flushWaiting /\ ~waited
Free == Up /\ ~Microtask

EngineInit ==
    /\ WriterInit
    /\ dirty = FALSE
    /\ paused = TRUE
    /\ flushWaiting = FALSE
    /\ fatal = FALSE
    /\ phase = "running"
    /\ code = 0
    /\ cut = FALSE

-----------------------------------------------------------------------------
(* Flushes.                                                                *)

\* checkpointWorld with an idle writer.  The rest of a frame that flushed early
\* may leave memory changed again.
HandOver(left) ==
    /\ pending = {}
    /\ \/ /\ Accepting
          /\ Persist
          /\ dirty' = left
          /\ UNCHANGED fatal
       \/ /\ ~Accepting
          /\ fatal' = TRUE
          /\ dirty' = TRUE
          /\ UNCHANGED writerVars

Play ==
    /\ Free
    /\ phase \in {"running", "stopping"}
    /\ ~paused
    /\ handed < MaxBatches
    /\ dirty' = TRUE
    /\ UNCHANGED writerVars
    /\ UNCHANGED <<paused, flushWaiting, fatal, phase, code, cut>>

\* Mutant: the flush of a frame does not look whether the writer is idle.
PeriodicFlushBusy ==
    /\ Free
    /\ phase = "running" /\ ~fatal /\ ~paused /\ dirty
    /\ Persist
    /\ dirty' = FALSE
    /\ UNCHANGED <<paused, flushWaiting, fatal, phase, code, cut>>

\* The flush at the end of a second's last frame.
PeriodicFlush ==
    /\ Free
    /\ phase = "running" /\ ~fatal /\ ~paused /\ dirty
    /\ HandOver(FALSE)
    /\ UNCHANGED <<paused, flushWaiting, phase, code, cut>>

\* Mutant: a departure that finds the writer busy leaves its flush to the next
\* second, which a paused world never sees.
DepartureFlushSkipped(left) ==
    \/ HandOver(left) /\ UNCHANGED flushWaiting
    \/ /\ pending # {}
       /\ dirty' = TRUE
       /\ UNCHANGED writerVars
       /\ UNCHANGED <<flushWaiting, fatal>>

\* checkpointWorld, or flushWhenIdle while a batch is in flight.
DepartureFlush(left) ==
    \/ HandOver(left) /\ UNCHANGED flushWaiting
    \/ /\ WhenIdle
       /\ flushWaiting' = TRUE
       /\ dirty' = TRUE
       /\ UNCHANGED fatal

\* The last pilot is removed: by a message, by a frame, or when its socket ends.
\* Sockets cut at the deadline end later than the steps that follow the cut.
Pause ==
    /\ Free
    /\ phase \in {"running", "stopping"} \/ (cut /\ phase \in {"draining", "releasing"})
    /\ ~paused
    /\ handed < MaxBatches
    /\ paused' = TRUE
    /\ \/ /\ ~fatal
          /\ \E left \in BOOLEAN : (left => phase = "running") /\ DepartureFlush(left)
       \/ /\ fatal
          /\ dirty' = TRUE
          /\ UNCHANGED writerVars /\ UNCHANGED <<flushWaiting, fatal>>
    /\ UNCHANGED <<phase, code, cut>>

Resume ==
    /\ Free
    /\ phase \in {"running", "stopping"}
    /\ paused
    /\ paused' = FALSE
    /\ UNCHANGED writerVars
    /\ UNCHANGED <<dirty, flushWaiting, fatal, phase, code, cut>>

\* flushWhenIdle's continuation.
DeferredFlush ==
    /\ Up /\ Microtask
    /\ flushWaiting' = FALSE
    /\ \/ ~fatal /\ HandOver(FALSE)
       \/ fatal /\ UNCHANGED writerVars /\ UNCHANGED <<dirty, fatal>>
    /\ UNCHANGED <<paused, phase, code, cut>>

-----------------------------------------------------------------------------
(* The end of the process.                                                 *)

\* A frame, paused or not, throws the failure: uncaughtException, shutdown(1).
TickFatal ==
    /\ Free
    /\ phase = "running" /\ fatal
    /\ phase' = "stopping"
    /\ code' = 1
    /\ UNCHANGED writerVars
    /\ UNCHANGED <<dirty, paused, flushWaiting, fatal, cut>>

\* The bound keeps the final batches of one process after another finite.
Sigterm ==
    /\ Free
    /\ phase = "running"
    /\ handed <= MaxBatches
    /\ phase' = "stopping"
    /\ UNCHANGED writerVars
    /\ UNCHANGED <<dirty, paused, flushWaiting, fatal, code, cut>>

\* The sockets have closed, or are cut after two seconds, which is an error.
TransportsClose ==
    /\ Free
    /\ phase = "stopping"
    /\ phase' = "draining"
    /\ cut' \in BOOLEAN
    /\ code' = IF cut' THEN 1 ELSE code
    /\ UNCHANGED writerVars
    /\ UNCHANGED <<dirty, paused, flushWaiting, fatal>>

\* persist and then shutdown.
FinalBatch ==
    /\ handed' = handed + 1
    /\ pending' = {handed'}
    /\ toWorker' = toWorker \o <<handed', ShutdownRequest>>
    /\ closing' = "draining"
    /\ dirty' = FALSE
    /\ UNCHANGED <<waited, failure, toGame, worker, writing, spoiled, terminated, db>>

\* whenPersistenceIdle is satisfied.
Quiet == ~flushWaiting /\ pending = {}

\* The writer drained: the final flush, unless a failure forbids it.
Drained ==
    /\ Free
    /\ phase = "draining"
    /\ Quiet
    /\ phase' = "releasing"
    /\ \/ ~fatal /\ FinalBatch
       \/ fatal /\ Shutdown /\ UNCHANGED dirty
    /\ UNCHANGED <<paused, flushWaiting, fatal, code, cut>>

\* SHUTDOWN_IDLE_WAIT_MS ran out: the final flush is forfeit and reported.
Skip ==
    /\ Free
    /\ phase = "draining"
    /\ ~Quiet
    /\ phase' = "releasing"
    /\ code' = 1
    /\ Shutdown
    /\ UNCHANGED <<dirty, paused, flushWaiting, fatal, cut>>

\* Once the adapter's shutdown has settled: process.exit, which joins the writer
\* thread, or SIGKILL when that thread was not released.
ExitProcess ==
    /\ Free
    /\ phase = "releasing"
    /\ closing \in {"resolved", "rejected", "unreleased"}
    /\ phase' = "exited"
    /\ code' = IF closing = "resolved" /\ ~fatal THEN code ELSE 1
    /\ UNCHANGED writerVars
    /\ UNCHANGED <<dirty, paused, flushWaiting, fatal, cut>>

\* A power cut, the platform's SIGKILL, a second uncaught exception.
Crash ==
    /\ Up
    /\ phase' = "killed"
    /\ UNCHANGED writerVars
    /\ UNCHANGED <<dirty, paused, flushWaiting, fatal, code, cut>>

\* A new process loads what the database holds and starts a new thread.
Restart ==
    /\ ~Up
    /\ handed' = Cardinality(db)
    /\ pending' = {} /\ waited' = FALSE /\ failure' = FALSE /\ closing' = "open"
    /\ toWorker' = <<>> /\ toGame' = <<>>
    /\ worker' = "starting" /\ writing' = NoBatch
    /\ spoiled' = FALSE /\ terminated' = FALSE
    /\ dirty' = FALSE /\ paused' = TRUE /\ flushWaiting' = FALSE /\ fatal' = FALSE
    /\ phase' = "running" /\ code' = 0 /\ cut' = FALSE
    /\ UNCHANGED db

-----------------------------------------------------------------------------
\* An event of the adapter on the game thread; a failure reaches the engine.
OnGameThread(A) ==
    /\ Free
    /\ A
    /\ fatal' = (fatal \/ failure')
    /\ UNCHANGED <<dirty, paused, flushWaiting, phase, code, cut>>

OnWriterThread(A) == Up /\ A /\ UNCHANGED engineVars

Ending == TransportsClose \/ Drained \/ Skip \/ ExitProcess

EngineNext ==
    \/ Play \/ PeriodicFlush \/ Pause \/ Resume \/ DeferredFlush
    \/ TickFatal \/ Sigterm \/ Ending \/ Crash \/ Restart
    \/ OnGameThread(Adapter)
    \/ OnWriterThread(Thread)

\* The event loop, its timers and microtasks run, and so does a writer thread
\* that is not stuck.  Nobody has to play, stop the server or restart it.
EngineFairness ==
    /\ WF_allVars(PeriodicFlush) /\ WF_allVars(DeferredFlush) /\ WF_allVars(TickFatal)
    /\ WF_allVars(TransportsClose) /\ WF_allVars(Drained \/ Skip) /\ WF_allVars(ExitProcess)
    /\ WF_allVars(OnGameThread(Receive)) /\ WF_allVars(OnGameThread(Stall))
    /\ WF_allVars(OnGameThread(TerminateSettles)) /\ WF_allVars(OnGameThread(Deadline))
    /\ WF_allVars(OnWriterThread(Opening)) /\ WF_allVars(OnWriterThread(Take))
    /\ WF_allVars(OnWriterThread(Writing)) /\ WF_allVars(OnWriterThread(Close))
    /\ WF_allVars(OnWriterThread(Stop))

EngineSpec == EngineInit /\ [][EngineNext]_allVars /\ EngineFairness

-----------------------------------------------------------------------------
(* Properties.                                                             *)

\* Type invariant of the engine and the writer.
EngineTypeOK ==
    /\ WriterTypeOK
    /\ dirty \in BOOLEAN /\ paused \in BOOLEAN /\ flushWaiting \in BOOLEAN
    /\ fatal \in BOOLEAN /\ cut \in BOOLEAN
    /\ phase \in Phases
    /\ code \in {0, 1}
    /\ failure => fatal

\* "A slow disk can never queue up more than one batch behind the one in flight":
\* a crash at any moment loses at most the last batch, and the changes since.
CrashLosesOneBatch == 1 .. handed - 1 \subseteq db

\* An exit the platform takes for a clean one has lost no change; and process.exit,
\* which joins the writer thread, is only called when that thread has ended: a stuck
\* one is left to SIGKILL.
ExitIsClean ==
    /\ phase = "exited" /\ code = 0 => AllLanded /\ ~dirty
    /\ phase = "exited" /\ closing # "unreleased" => worker = "gone"

\* The database holds a prefix of the batches. A thread that can still write has the
\* others before it, in their order and behind the one it is writing, up to the last one
\* handed over; a shutdown request is behind them all.
PortsMatch ==
    \E n \in 0 .. handed :
        /\ db = 1 .. n
        /\ worker = "writing" => writing = n + 1
        /\ worker \in {"starting", "idle", "writing"} /\ ~spoiled =>
              LET taken == IF worker = "writing" THEN n + 1 ELSE n
              IN  /\ \A i \in 1 .. Len(toWorker) : toWorker[i] # ShutdownRequest
                                                   => toWorker[i] = taken + i
                  /\ \A i \in 1 .. Len(toWorker) : toWorker[i] = ShutdownRequest
                        => i = Len(toWorker) /\ closing # "open" /\ handed = taken + i - 1
                  /\ (\A i \in 1 .. Len(toWorker) : toWorker[i] # ShutdownRequest)
                        => handed = taken + Len(toWorker)

\* A failure that the game thread has not read yet, before the k-th reply.
BadNews(k) == \E i \in 1 .. k - 1 : toGame[i].type \in {"failed", "error"}

\* What the replies on their way say is so: a batch that is done has landed, a thread
\* that reports its exit has ended, and an exit nobody forced and no failure precedes is
\* the end of a thread that wrote everything.
RepliesAreTrue ==
    \A k \in 1 .. Len(toGame) :
        /\ toGame[k].type = "done" => toGame[k].batch \in db \cup {ShutdownRequest}
        /\ toGame[k].type = "exit" =>
              /\ worker = "gone"
              /\ terminated \/ failure \/ BadNews(k) \/ (AllLanded /\ closing # "open")

\* What the adapter assumes of the thread.
AdapterIsRight ==
    /\ ~failure => 1 .. handed \subseteq db \cup pending
    /\ spoiled => failure \/ BadNews(Len(toGame) + 1)
    /\ terminated => failure \/ closing = "unreleased"
    /\ closing = "terminating" => failure
    /\ closing \in {"resolved", "rejected"} => worker = "gone"
    /\ closing = "resolved" => AllLanded

\* The orderly shutdown: the adapter closes in its last phase, and a clean code means
\* that the last batch has everything.
StopIsOrderly ==
    /\ phase \in {"running", "stopping", "draining"} => closing = "open"
    /\ cut => code = 1
    /\ phase = "releasing" /\ code = 0 /\ ~fatal => ~dirty

\* The inductive invariant: the writer's part of it, and the engine's.
WriterInv == WriterTypeOK /\ PortsMatch /\ RepliesAreTrue /\ AdapterIsRight /\ CrashLosesOneBatch
IInv == EngineTypeOK /\ WriterInv /\ StopIsOrderly /\ ExitIsClean

\* A change made while the world runs is carried by a later batch, even when the
\* world pauses with the writer busy, unless the process stops; what was handed over
\* lands or the process ends, for the loop cannot go on trusting memory behind a dead
\* writer; and a failed commit is fatal, with pilots or without, and every stop comes
\* to an end.
ChangesLandOrTheProcessEnds ==
    /\ \A n \in 0 .. MaxBatches :
          (phase = "running" /\ ~paused /\ dirty /\ handed = n) ~> (handed > n \/ phase # "running")
    /\ ~AllLanded ~> (AllLanded \/ ~Up)
    /\ (fatal \/ phase = "stopping") ~> ~Up
=============================================================================
