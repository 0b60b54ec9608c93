------------------------------ MODULE WorldView ------------------------------
(***************************************************************************)
(* What a pilot is promised of the worlds the server publishes: whatever   *)
(* the browser shows is a world that was published, whole, and never one   *)
(* older than what it showed before (shared/snapshotProtocol.ts).          *)
(***************************************************************************)
EXTENDS Naturals

VARIABLES
    world,  \* number of the newest world
    view    \* the world shown, 0 before the first

Init == world = 1 /\ view = 0

Publish == world' = world + 1 /\ UNCHANGED view

Show == view' \in view + 1 .. world /\ UNCHANGED world

Next == Publish \/ Show

Spec == Init /\ [][Next]_<<world, view>>
=============================================================================
