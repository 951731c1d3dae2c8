----------------------- MODULE MCRevenueDistribution -----------------------
(* Instances of RevenueDistribution for TLC. *)
EXTENDS RevenueDistribution, TLC

Symmetry == Permutations(Accounts \ {Agent})
=============================================================================
