------------------------------ MODULE BatchLog ------------------------------
(***************************************************************************)
(* What the engine is promised by world persistence (the comments of       *)
(* server/world/worldPersistence.ts): batches land in the order they were  *)
(* handed over, none lands after one that was lost, a close that succeeds  *)
(* has committed them all, and a new process continues from what landed.   *)
(***************************************************************************)
EXTENDS Naturals

VARIABLES
    handed,     \* batches handed over, numbered from 1
    durable,    \* the batches the database holds
    fate        \* "serving", "failed" or "closed"

logVars == <<handed, durable, fate>>

Init ==
    /\ handed = 0
    /\ durable = {}
    /\ fate = "serving"

Hand ==
    /\ fate = "serving"
    /\ handed' = handed + 1
    /\ UNCHANGED <<durable, fate>>

\* The oldest batch that has not landed lands; one may still land after a failure.
Land ==
    /\ \E b \in 1 .. handed : durable = 1 .. b - 1 /\ durable' = 1 .. b
    /\ UNCHANGED <<handed, fate>>

Fail ==
    /\ fate = "serving"
    /\ fate' = "failed"
    /\ UNCHANGED <<handed, durable>>

Close ==
    /\ fate = "serving"
    /\ durable = 1 .. handed
    /\ fate' = "closed"
    /\ UNCHANGED <<handed, durable>>

\* A new process hands over its batches on top of the ones that landed.
Resume ==
    /\ \E n \in 0 .. handed : durable = 1 .. n /\ handed' = n
    /\ fate' = "serving"
    /\ UNCHANGED durable

Next == Hand \/ Land \/ Fail \/ Close \/ Resume

Spec == Init /\ [][Next]_logVars
=============================================================================
