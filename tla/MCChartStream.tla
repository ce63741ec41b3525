----------------------------- MODULE MCChartStream -----------------------------
(* Instances of ChartStream for TLC.                                         *)
EXTENDS ChartStream, TLC

\* The second run shows the same objects as the first.
TwinFirst == [r \in 1 .. MaxRun |-> IF r <= 2 THEN 1 ELSE r]

=============================================================================
