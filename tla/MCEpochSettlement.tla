------------------------- MODULE MCEpochSettlement -------------------------
(* Instances of EpochSettlement, and of the order matching in it, for TLC. *)
EXTENDS EpochSettlement, TLC

Symmetry == Permutations(Users) \cup Permutations(Assets) \cup Permutations(Workers)
=============================================================================
