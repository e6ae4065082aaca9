------------------------------- MODULE Totals -------------------------------
(***************************************************************************)
(* Sums of natural numbers over finite sets, counted by the unit: a sum is *)
(* the number of units in it.  Stated without recursion, so that facts     *)
(* about sums follow from the facts about finite sets.                     *)
(***************************************************************************)
EXTENDS Integers, FiniteSets

\* v[x] units for every x of S.
Units(v, S) == UNION {{x} \X (1..v[x]) : x \in S}

Total(v, S) == Cardinality(Units(v, S))

\* Sums of integers: what is gained less what is lost.
Gains(v, S) == [x \in S |-> IF v[x] > 0 THEN v[x] ELSE 0]
Losses(v, S) == [x \in S |-> IF v[x] < 0 THEN -v[x] ELSE 0]
Net(v, S) == Total(Gains(v, S), S) - Total(Losses(v, S), S)
=============================================================================
