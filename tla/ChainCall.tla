----------------------------- MODULE ChainCall -----------------------------
(***************************************************************************)
(* What a service may rely on when it calls the chain through the          *)
(* operator of backend/internal/blockchain: the call is answered once, an  *)
(* answer "ok" means that the transaction took effect, and it takes effect *)
(* at most once.  A call that failed may still take effect, later: the     *)
(* transaction may sit in the node's pool after the caller gave up.        *)
(* ChainSender implements this; KycReview and AssetIssuance build on it.   *)
(***************************************************************************)
CONSTANT Calls

VARIABLES
    call,    \* what each caller has been told
    effect   \* has its transaction taken effect?

Init ==
    /\ call = [c \in Calls |-> "idle"]
    /\ effect = [c \in Calls |-> FALSE]

Begin(c) ==
    /\ call[c] = "idle"
    /\ call' = [call EXCEPT ![c] = "pending"]
    /\ UNCHANGED effect

TakeEffect(c) ==
    /\ call[c] \in {"pending", "failed"} /\ ~effect[c]
    /\ effect' = [effect EXCEPT ![c] = TRUE]
    /\ UNCHANGED call

Succeed(c) ==
    /\ call[c] = "pending" /\ effect[c]
    /\ call' = [call EXCEPT ![c] = "ok"]
    /\ UNCHANGED effect

Fail(c) ==
    /\ call[c] = "pending"
    /\ call' = [call EXCEPT ![c] = "failed"]
    /\ UNCHANGED effect

Next == \E c \in Calls : Begin(c) \/ TakeEffect(c) \/ Succeed(c) \/ Fail(c)

Spec == Init /\ [][Next]_<<call, effect>>
=============================================================================
