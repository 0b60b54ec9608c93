--------------------------- MODULE MCRegionalField ---------------------------
(* Small worlds for TLC: two sectors side by side and one slot, whose rock  *)
(* starts in the first.                                                     *)
EXTENDS RegionalField

CONSTANTS s1, s2, d1

\* An observer sees only its own sector: either one may sleep.
MCNearOwn == [s \in Sectors |-> {s}]
\* From the second sector an observer sees both.
MCNear == [s \in Sectors |-> IF s = s1 THEN {s1} ELSE {s1, s2}]
MCAdjacent == [s \in Sectors |-> Sectors \ {s}]
MCHome == [r \in Slots |-> s1]
=============================================================================
