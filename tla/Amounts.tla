------------------------------- MODULE Amounts -------------------------------
(***************************************************************************)
(* The sum of the values of a function: how many units they are, counted   *)
(* one by one.  Written this way, and not with recursion or a fold, what a *)
(* sum does when a value changes follows from the cardinality of sets.     *)
(***************************************************************************)
EXTENDS Naturals, FiniteSets

\* The units of w: w[x] of them for every x.
Units(w) == UNION {{x} \X (1 .. w[x]) : x \in DOMAIN w}

Total(w) == Cardinality(Units(w))
=============================================================================
