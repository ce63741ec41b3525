--------------------------- MODULE MCHistoryBackfill ---------------------------
(* Instances of HistoryBackfill for TLC.                                     *)
EXTENDS HistoryBackfill, TLC

\* How many bars a provider has at first: any number, or all of them.
AnyStart == 0 .. MaxBar
Full == {MaxBar}

\* Workers and tasks are interchangeable.
Symmetry == Permutations(Workers) \union Permutations(Tasks)
=============================================================================
