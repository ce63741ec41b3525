-------------------------- MODULE MCHistoricalReplay --------------------------
(* Instances of HistoricalReplay for TLC. *)
EXTENDS HistoricalReplay, TLC

Symmetry == Permutations(Workers) \union Permutations(Modes) \union Permutations(Repairs)
=============================================================================
