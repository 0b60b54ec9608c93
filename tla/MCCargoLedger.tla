---------------------------- MODULE MCCargoLedger ----------------------------
(* A small economy for TLC.                                                *)
EXTENDS CargoLedger, TLC

CONSTANTS c1, c2, p2, q1, q2

\* Nothing in the specification tells two points, or two pods, apart.
Interchangeable == Permutations({c1, c2}) \cup Permutations({q1, q2})

\* Bound: two points while there is one pilot, one point once a second has joined.
SmallWorld ==
    \/ p2 \notin live /\ record[p2] = NoRow /\ db.rows[p2] = NoRow
    \/ Cardinality(Mentioned(Now) \cup Mentioned(db) \cup Mentioned(Saved)) <= 1
=============================================================================
