------------------------------ MODULE MCSessions ------------------------------
(***************************************************************************)
(* Three parts of the game that share no state of the model, checked in    *)
(* one run: who holds a pilot (PilotSessions), how far its ship may travel *)
(* and the clock that grants it (PoseBudget), or the campaign the pilots   *)
(* play (Frontier).  `part' says which one moves.                          *)
(***************************************************************************)
EXTENDS PilotSessions, PoseBudget, Frontier

VARIABLE part

MCInit ==
    /\ Init /\ PoseInit /\ FrontierInit
    /\ part \in {"holders", "travel", "ore"}

MCNext ==
    /\ UNCHANGED part
    /\ \/ part = "holders" /\ Next /\ UNCHANGED <<poseVars, frontierVars>>
       \/ part = "travel" /\ PoseNext /\ UNCHANGED <<vars, frontierVars>>
       \/ part = "ore" /\ FrontierNext /\ UNCHANGED <<vars, poseVars>>

\* The fairness of FairSpec in the part it is about: an action is never enabled in the
\* others.
MCFairness ==
    /\ \A t \in Tabs : WF_vars(part = "holders" /\ (\/ ReceiveJoined(t) \/ ReceiveExpired(t)
                                                    \/ ReceiveError(t) \/ ReceiveClose(t)
                                                    \/ NoticeCut(t)))
    /\ \A s \in Sockets : WF_vars(part = "holders" /\ (HandleJoin(s) \/ Leave(s) \/ CloseEvent(s)))
    /\ \A p \in Pilots : WF_vars(part = "holders" /\ GraceEnds(p))
    /\ WF_vars(part = "holders" /\ Frame)

MCSpec == MCInit /\ [][MCNext]_<<part, vars, poseVars, frontierVars>> /\ MCFairness

\* Bound: two records wait for the next batch at most, and the sacs of the hive behind
\* the scanner are not hit.
SmallFrontier ==
    /\ Cardinality(changed) <= 2
    /\ \A s \in Expanded, i \in Sacs : campaign.hive[s].sacs[i] = SacHealth
=============================================================================
