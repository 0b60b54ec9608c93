------------------------------- MODULE MCServer -------------------------------
(***************************************************************************)
(* Two parts of the server that share no state of the model, checked in    *)
(* one run: the engine's saves and its end (EngineWriter), or the          *)
(* snapshots of one connection (SnapshotStream).  `part' says which one    *)
(* moves.                                                                  *)
(***************************************************************************)
EXTENDS EngineWriter, SnapshotStream

VARIABLE part

MCInit ==
    /\ EngineInit /\ Init
    /\ part \in {"saves", "snapshots"}

MCNext ==
    /\ UNCHANGED part
    /\ \/ part = "saves" /\ EngineNext /\ UNCHANGED vars
       \/ part = "snapshots" /\ Next /\ UNCHANGED allVars

\* EngineFairness and Fairness, in the part that moves: an action is never enabled in
\* the other.
MCFairness ==
    /\ WF_allVars(part = "saves" /\ PeriodicFlush)
    /\ WF_allVars(part = "saves" /\ DeferredFlush)
    /\ WF_allVars(part = "saves" /\ TickFatal)
    /\ WF_allVars(part = "saves" /\ TransportsClose)
    /\ WF_allVars(part = "saves" /\ (Drained \/ Skip))
    /\ WF_allVars(part = "saves" /\ ExitProcess)
    /\ WF_allVars(part = "saves" /\ OnGameThread(Receive))
    /\ WF_allVars(part = "saves" /\ OnGameThread(Stall))
    /\ WF_allVars(part = "saves" /\ OnGameThread(TerminateSettles))
    /\ WF_allVars(part = "saves" /\ OnGameThread(Deadline))
    /\ WF_allVars(part = "saves" /\ OnWriterThread(Opening))
    /\ WF_allVars(part = "saves" /\ OnWriterThread(Take))
    /\ WF_allVars(part = "saves" /\ OnWriterThread(Writing))
    /\ WF_allVars(part = "saves" /\ OnWriterThread(Close))
    /\ WF_allVars(part = "saves" /\ OnWriterThread(Stop))
    /\ WF_vars(part = "snapshots" /\ OfferDue)
    /\ WF_vars(part = "snapshots" /\ Expire)
    /\ WF_vars(part = "snapshots" /\ TransportAccepts)
    /\ WF_vars(part = "snapshots" /\ ServerReads)
    /\ WF_vars(part = "snapshots" /\ FirstJoin)
    /\ WF_vars(part = "snapshots" /\ ClientReads)
    /\ WF_vars(part = "snapshots" /\ SeeClose)
    /\ WF_vars(part = "snapshots" /\ Reconnect)

MCSpec == MCInit /\ [][MCNext]_<<part, allVars, vars>> /\ MCFairness
=============================================================================
