---------------------------- MODULE MCBackOffice ----------------------------
(* Instances of BackOffice for TLC. *)
EXTENDS BackOffice, Functions, TLC

\* two active rules that differ in all they decide, and one that is switched off
MCRules ==
    {[min |-> 1, max |-> 1, fee |-> 0, physical |-> TRUE, cash |-> FALSE, active |-> TRUE],
     [min |-> 2, max |-> 3, fee |-> 1, physical |-> FALSE, cash |-> TRUE, active |-> TRUE],
     [min |-> 1, max |-> 3, fee |-> 0, physical |-> TRUE, cash |-> TRUE, active |-> FALSE]}

MCLists == {{}, Holders}

Symmetry == Permutations(Desks) \cup Permutations(Payers) \cup Permutations(Holders)

\* The two packages share nothing, so they are explored one at a time.
OneAtATime == RedemptionInit \/ DividendInit

\* three cents of interest for all accounts together
FewCents == FoldFunction(+, 0, earned) <= 2
=============================================================================
