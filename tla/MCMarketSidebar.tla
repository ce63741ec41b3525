---------------------------- MODULE MCMarketSidebar ----------------------------
(* Instances of MarketSidebar for TLC.                                       *)
EXTENDS MarketSidebar, TLC

=============================================================================
