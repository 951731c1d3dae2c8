--------------------------- MODULE MCChainSender ---------------------------
(* Instances of ChainSender for TLC. *)
EXTENDS ChainSender

\* both relays carry one signed request
MCRequestOf == [r \in Relays |-> CHOOSE q \in Requests : TRUE]
=============================================================================
