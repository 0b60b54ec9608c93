------------------------------- MODULE MCReports -------------------------------
(***************************************************************************)
(* The two sides of the debug reports, which share no state of the model,  *)
(* checked in one run: the game thread that supervises the report thread   *)
(* (ReportThreads), or the delivery that thread does (ReportDelivery).     *)
(* `part' says which one moves.                                            *)
(***************************************************************************)
EXTENDS ReportThreads, ReportDelivery

VARIABLE part

\* Nothing tells two threads apart, so one of them is the first; the part that does not
\* move has one initial state.
MCInit ==
    /\ Init /\ DeliveryInit
    /\ part \in {"threads", "delivery"}
    /\ current = CHOOSE t \in Threads : TRUE
    /\ part = "threads" => configured

MCNext ==
    /\ UNCHANGED part
    /\ \/ part = "threads" /\ Next /\ UNCHANGED deliveryVars
       \/ part = "delivery" /\ DeliveryNext /\ UNCHANGED vars

\* Progress and DeliveryProgress, in the part that moves: an action is never enabled in the
\* other.
MCFairness ==
    /\ \A r \in Requests : /\ WF_vars(part = "threads" /\ RequestDeadline(r))
                           /\ WF_vars(part = "threads" /\ Recycle(r))
                           /\ WF_vars(part = "threads" /\ MakeRequest(r))
    /\ \A t \in Threads : /\ WF_vars(part = "threads" /\ ReceiveReply(t))
                          /\ WF_vars(part = "threads" /\ ReceiveError(t))
                          /\ WF_vars(part = "threads" /\ ReceiveExit(t))
                          /\ WF_vars(part = "threads" /\ Handle(t))
                          /\ WF_vars(part = "threads" /\ terminated[t] /\ Die(t))
    /\ WF_vars(part = "threads" /\ Replace)
    /\ SF_vars(part = "threads" /\ Replace /\ current' # current)
    /\ WF_vars(part = "threads" /\ Tick)
    /\ WF_vars(part = "threads" /\ CloseOnExit)
    /\ WF_vars(part = "threads" /\ CloseDeadline)
    /\ WF_deliveryVars(part = "delivery" /\ DeliverNext)
    /\ WF_deliveryVars(part = "delivery" /\ JobStep)
    /\ WF_deliveryVars(part = "delivery" /\ Arrive(job.request))
    /\ WF_deliveryVars(part = "delivery" /\ Start)
    /\ WF_deliveryVars(part = "delivery" /\ closed /\ ThreadEnds)
    /\ \A r \in Reports : WF_deliveryVars(part = "delivery" /\ Wake(r))

MCSpec == MCInit /\ [][MCNext]_<<part, vars, deliveryVars>> /\ MCFairness
=============================================================================
