----------------------------- MODULE BackOffice -----------------------------
(***************************************************************************)
(* Redemption and dividends in one server: the requests of the two         *)
(* packages are served side by side and share no table.                    *)
(***************************************************************************)
EXTENDS Redemption, Dividends

vars == <<redemptionVars, dividendVars>>

TypeOK == RedemptionTypeOK /\ DividendTypeOK

Init == RedemptionInit /\ DividendInit

Next ==
    \/ RedemptionNext /\ UNCHANGED dividendVars
    \/ DividendNext /\ UNCHANGED redemptionVars

Spec == Init /\ [][Next]_vars
=============================================================================
