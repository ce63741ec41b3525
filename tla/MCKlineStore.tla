----------------------------- MODULE MCKlineStore -----------------------------
(* Instances of KlineStore for TLC. *)
EXTENDS KlineStore, TLC

Symmetry == Permutations(Procs) \union Permutations(Scopes)
=============================================================================
