----------------------------- MODULE ApiServer -----------------------------
(***************************************************************************)
(* KYC, asset, login and the event listener in one server process (cmd/api *)
(* registers the handlers of all).  Their requests are served side by      *)
(* side; no table or contract of one is written by another.                *)
(***************************************************************************)
EXTENDS KycReview, AssetIssuance, LoginGuard, EventListener

vars == <<kycVars, assetVars, guardVars, listenerVars>>

TypeOK == KycTypeOK /\ AssetTypeOK /\ GuardTypeOK /\ ListenerTypeOK

Init == KycInit /\ AssetInit /\ GuardInit /\ ListenerInit

Next ==
    \/ KycNext /\ UNCHANGED <<assetVars, guardVars, listenerVars>>
    \/ AssetNext /\ UNCHANGED <<kycVars, guardVars, listenerVars>>
    \/ GuardNext /\ UNCHANGED <<kycVars, assetVars, listenerVars>>
    \/ ListenerNext /\ UNCHANGED <<kycVars, assetVars, guardVars>>

Spec == Init /\ [][Next]_vars
=============================================================================
