--------------------------- MODULE MCFullRecompute ---------------------------
(* Two eligible scopes and an excluded one in the same shard, two workers.    *)
EXTENDS FullRecompute

OneShard == [s \in Scopes |-> 0]
AllWorkOnIt == [w \in Workers |-> 0]
=============================================================================
