------------------------ MODULE MCLifecycleObserver ------------------------
(* Instances of LifecycleObserver for TLC. *)
EXTENDS LifecycleObserver, TLC

\* The two heads of a level, which share the fingerprints of structures.
Both == ("c" :> "confirmed") @@ ("p" :> "predictive")
=============================================================================
