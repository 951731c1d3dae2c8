---------------------------- MODULE MCApiServer ----------------------------
(* Instances of ApiServer for TLC. *)
EXTENDS ApiServer, TLC

Amount(digits, scale) == [digits |-> digits, scale |-> scale]

\* 3 x 10.50, whose fee of 0.4725 is cut to 0.47, and 500 x 10
MCOffers ==
    {[supply |-> Amount(3, 0), price |-> Amount(1050, 2)],
     [supply |-> Amount(500, 0), price |-> Amount(10, 0)]}

\* A goroutine serves reviews, transitions and logins; a visitor fills in forms and signs up.
Symmetry == Permutations(Users) \cup Permutations(Wallets) \cup Permutations(Reviews) \cup Permutations(Forms)

\* The four packages share nothing, so they are explored one at a time; whom the forms
\* are for matters to the first alone.
OneUser == \A f, g \in Forms : form[f].user = form[g].user

OneAtATime ==
    \/ AssetInit /\ GuardInit /\ ListenerInit
    \/ KycInit /\ OneUser /\ GuardInit /\ ListenerInit
    \/ KycInit /\ OneUser /\ AssetInit /\ ListenerInit
    \/ KycInit /\ OneUser /\ AssetInit /\ GuardInit

\* two wallets are bound, to one user or to two
FewBindings == Cardinality(bound) <= 2
=============================================================================
