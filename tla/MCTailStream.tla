---------------------------- MODULE MCTailStream ----------------------------
(* Instances of TailStream for TLC. *)
EXTENDS TailStream, TLC

\* Intraday and daily levels: the logical key of a bar is the bar itself.
EachBar == [e \in 1 .. MaxEnd |-> e]
\* 1w, 1m: bars 1, 2 in the first period, the others in the second.
TwoPeriods == [e \in 1 .. MaxEnd |-> IF e <= 2 THEN 1 ELSE 2]

Symmetry == Permutations(Workers)
=============================================================================
