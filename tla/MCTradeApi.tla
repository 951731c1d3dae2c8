----------------------------- MODULE MCTradeApi -----------------------------
(* Instances of TradeApi for TLC. *)
EXTENDS TradeApi, TLC

Symmetry == Permutations(Callers) \cup Permutations(Workers)
=============================================================================
