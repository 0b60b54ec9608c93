------------------------------- MODULE MCPilots -------------------------------
(***************************************************************************)
(* Two parts of a pilot that share no state of the model, checked in one   *)
(* run: the lives of two pilots on the server (PilotLife), or the          *)
(* movement of one between browser and server (PilotMotion).               *)
(***************************************************************************)
EXTENDS PilotLife, PilotMotion

VARIABLE part

MCInit == Init /\ MotionInit /\ part \in {"life", "motion"}

MCNext ==
    /\ UNCHANGED part
    /\ \/ part = "life" /\ Next /\ UNCHANGED motionVars
       \/ part = "motion" /\ MotionNext /\ UNCHANGED vars

\* The fairness of FairSpec and of MotionFairSpec, each in the part that runs.
MCFairness ==
    /\ WF_vars(part = "life" /\ AnyFrame)
    /\ WF_vars(part = "life" /\ Elapse)
    /\ WF_motionVars(part = "motion" /\ Broadcast)
    /\ WF_motionVars(part = "motion" /\ ReadJoined)
    /\ WF_motionVars(part = "motion" /\ ReadSnapshot)
    /\ WF_motionVars(part = "motion" /\ SendPose)
    /\ WF_motionVars(part = "motion" /\ ReadUpdate)
    /\ WF_motionVars(part = "motion" /\ EndFurnaceTravel)
    /\ WF_motionVars(part = "motion" /\ FinishContourBridge)
    /\ WF_motionVars(part = "motion" /\ DropBridge)

MCSpec == MCInit /\ [][MCNext]_<<part, vars, motionVars>> /\ MCFairness
=============================================================================
