---------------------------- MODULE ChainSender ----------------------------
(***************************************************************************)
(* The one account that signs every transaction of the back end            *)
(* (backend/internal/blockchain), and two of its callers: the relay of     *)
(* signed requests (internal/relay) and the update of the fees             *)
(* (internal/revenue), which writes the database before the chain.         *)
(*                                                                         *)
(* A caller is one HTTP request on its goroutine.  sendTransaction holds   *)
(* the client's mutex from reading the nonce until the transaction is      *)
(* mined.  The node keeps a pool of transactions by nonce and mines them   *)
(* in the order of their nonces.                                           *)
(***************************************************************************)
EXTENDS Naturals, Sequences, FiniteSets, FiniteSetsExt

CONSTANTS
    Relays,       \* calls of POST /api/relay/execute
    Updates,      \* calls of PUT /api/admin/fees, each with a rate of its own
    Requests,     \* what users sign, each the next of its signer's nonces at the forwarder
    RequestOf,    \* the signed request a relay carries
    OnlySaved,    \* updates without a treasury address
    TooHigh,      \* updates with a rate over the contract's cap
    Nobody,       \* holds the mutex when no caller does
    MaxEvictions  \* bound of the model on transactions the node forgets

Callers == Relays \cup Updates

ASSUME SenderAssumption ==
    /\ Relays \cap Updates = {}
    /\ RequestOf \in [Relays -> Requests]
    /\ OnlySaved \subseteq Updates
    /\ TooHigh \subseteq Updates
    /\ Nobody \notin Callers
    /\ MaxEvictions \in Nat

VARIABLES
    pc,         \* where each caller is
    expired,    \* the callers whose context is done
    txMu,       \* the holder of the mutex
    nonce,      \* the nonce a caller read
    pool,       \* the transactions waiting in the node
    mined,      \* the callers of the mined transactions, in order
    reverted,   \* those of them whose transaction reverted, as their receipts say
    evictions,
    dbFee,      \* the update that last wrote platform_fees
    gasLedger,  \* the relays with a row in gas_ledger
    overlapped  \* history: did an update begin while another was under way?

rows == <<dbFee, gasLedger, overlapped>>
node == <<pool, mined, reverted, evictions>>
vars == <<pc, expired, txMu, nonce, node, rows>>

-----------------------------------------------------------------------------
Waiting == {"locked", "signed", "sent"}

\* "refused" and "savedOnly" are answers given without calling the chain
Ended == {"ok", "failed", "refused", "savedOnly"}

Stages == {"idle", "saved", "queued", "forwarded"} \cup Waiting \cup Ended

Transaction == [nonce : Nat, by : Callers]

\* pending transactions included: the first nonce the node has no transaction for
PendingNonce == Min({n \in Len(mined)..(Len(mined) + Cardinality(pool)) :
                        \A t \in pool : t.nonce # n})

IsMined(c) == \E i \in 1..Len(mined) : mined[i] = c

Effective(c) == IsMined(c) /\ c \notin reverted

\* The forwarder takes a request once, and execute reverts as a whole when the inner call
\* does: the request is as good as new then.
RequestUsed(r) == \E q \in Relays : RequestOf[q] = RequestOf[r] /\ Effective(q)

FeeChanges == {i \in 1..Len(mined) : mined[i] \in Updates \ reverted}

ChainFee == IF FeeChanges = {} THEN Nobody ELSE mined[Max(FeeChanges)]

Init ==
    /\ pc = [c \in Callers |-> "idle"]
    /\ expired = {}
    /\ txMu = Nobody
    /\ nonce = [c \in Callers |-> 0]
    /\ pool = {} /\ mined = <<>> /\ reverted = {} /\ evictions = 0
    /\ dbFee = Nobody
    /\ gasLedger = {}
    /\ overlapped = FALSE

-----------------------------------------------------------------------------
\* sendTransaction, for any caller

To(c, stage) == pc' = [pc EXCEPT ![c] = stage]

\* mutant: no mutex
LockAnyTime(c) ==
    /\ pc[c] = "queued"
    /\ txMu' = c
    /\ To(c, "locked")
    /\ UNCHANGED <<expired, nonce, node, rows>>

\* Lock does not look at the context: who waits for the mutex waits.
Lock(c) ==
    /\ pc[c] = "queued" /\ txMu = Nobody
    /\ txMu' = c
    /\ To(c, "locked")
    /\ UNCHANGED <<expired, nonce, node, rows>>

\* every return of sendTransaction runs the deferred Unlock; context and nonce go with it
Return(c, stage) ==
    /\ txMu' = Nobody
    /\ To(c, stage)
    /\ expired' = expired \ {c}
    /\ nonce' = [nonce EXCEPT ![c] = 0]

ReadNonce(c) ==
    /\ pc[c] = "locked" /\ c \notin expired
    /\ nonce' = [nonce EXCEPT ![c] = PendingNonce]
    /\ To(c, "signed")
    /\ UNCHANGED <<expired, txMu, node, rows>>

Accepted(c) ==
    /\ \A t \in pool : t.nonce # nonce[c]
    /\ pool' = pool \cup {[nonce |-> nonce[c], by |-> c]}
    /\ UNCHANGED <<mined, reverted, evictions>>

Submit(c) ==
    /\ pc[c] = "signed" /\ c \notin expired
    /\ Accepted(c)
    /\ To(c, "sent")
    /\ UNCHANGED <<expired, txMu, nonce, rows>>

\* The node takes the transaction and the answer is lost.
SubmitUnheard(c) ==
    /\ pc[c] = "signed"
    /\ Accepted(c)
    /\ Return(c, "failed")
    /\ UNCHANGED rows

\* mutant: the administrator is not told
CallFailsQuietly(c) ==
    /\ pc[c] \in {"locked", "signed"}
    /\ Return(c, IF c \in Updates THEN "ok" ELSE "failed")
    /\ UNCHANGED <<node, rows>>

\* An RPC fails, before the transaction is sent or when it is refused; with a
\* context that is done every RPC does.
CallFails(c) ==
    /\ pc[c] \in {"locked", "signed"}
    /\ Return(c, "failed")
    /\ UNCHANGED <<node, rows>>

Success(c) == IF c \in Relays THEN "forwarded" ELSE "ok"

\* mutant: the receipt's status is not looked at
WaitMinedOnly(c) ==
    /\ pc[c] = "sent" /\ c \notin expired /\ IsMined(c)
    /\ Return(c, Success(c))
    /\ UNCHANGED <<node, rows>>

\* the receipt, with its status
WaitMined(c) ==
    /\ pc[c] = "sent" /\ c \notin expired /\ IsMined(c)
    /\ Return(c, IF Effective(c) THEN Success(c) ELSE "failed")
    /\ UNCHANGED <<node, rows>>

\* mutant: a timeout starts another wait
GiveUpAndWaitAgain(c) ==
    /\ pc[c] = "sent" /\ c \in expired
    /\ expired' = expired \ {c}
    /\ UNCHANGED <<pc, txMu, nonce, node, rows>>

GiveUp(c) ==
    /\ pc[c] = "sent" /\ c \in expired
    /\ Return(c, "failed")
    /\ UNCHANGED <<node, rows>>

\* thirty seconds for the administrator's calls; a relay only ends this way when
\* its client hangs up
Expire(c) ==
    /\ pc[c] \in {"queued"} \cup Waiting
    /\ c \notin expired
    /\ expired' = expired \cup {c}
    /\ UNCHANGED <<pc, txMu, nonce, node, rows>>

-----------------------------------------------------------------------------
\* relay.Service.Execute: the checks of wallet, target, value, deadline and signature
\* have one outcome for one request; a request they refuse never gets here.

CheckNonce(r) ==
    /\ pc[r] = "idle"
    /\ To(r, IF RequestUsed(r) THEN "refused" ELSE "queued")
    /\ UNCHANGED <<expired, txMu, nonce, node, rows>>

\* the nonce of the forwarder cannot be read
CheckFails(r) ==
    /\ pc[r] = "idle"
    /\ To(r, "refused")
    /\ UNCHANGED <<expired, txMu, nonce, node, rows>>

\* mutant: the error of the forwarding is dropped as well
RecordGasAnyway(r) ==
    /\ pc[r] \in {"forwarded", "failed"}
    /\ gasLedger' \in {gasLedger, gasLedger \cup {r}}
    /\ To(r, "ok")
    /\ UNCHANGED <<expired, txMu, nonce, node, dbFee, overlapped>>

\* the error of the INSERT is dropped
RecordGas(r) ==
    /\ pc[r] = "forwarded"
    /\ gasLedger' \in {gasLedger, gasLedger \cup {r}}
    /\ To(r, "ok")
    /\ UNCHANGED <<expired, txMu, nonce, node, dbFee, overlapped>>

Execute(r) == CheckNonce(r) \/ CheckFails(r) \/ RecordGas(r)

-----------------------------------------------------------------------------
\* revenue.Handler.UpdateFees

UnderWay(u) == pc[u] \notin {"idle"} \cup Ended

UpsertFee(u) ==
    /\ pc[u] = "idle"
    /\ dbFee' = u
    /\ overlapped' = (overlapped \/ \E v \in Updates : UnderWay(v))
    /\ To(u, "saved")
    /\ UNCHANGED <<expired, txMu, nonce, node, gasLedger>>

UpsertFails(u) ==
    /\ pc[u] = "idle"
    /\ To(u, "refused")
    /\ UNCHANGED <<expired, txMu, nonce, node, rows>>

\* without a treasury address the chain is not called at all
SetTransferFee(u) ==
    /\ pc[u] = "saved"
    /\ To(u, IF u \in OnlySaved THEN "savedOnly" ELSE "queued")
    /\ UNCHANGED <<expired, txMu, nonce, node, rows>>

UpdateFees(u) == UpsertFee(u) \/ UpsertFails(u) \/ SetTransferFee(u)

-----------------------------------------------------------------------------
\* the node

\* the forwarder refuses a request it has taken, the token a rate over its cap
MustRevert(c) == (c \in Relays /\ RequestUsed(c)) \/ c \in TooHigh

\* Any transaction may revert: the inner call of a request fails, its deadline has passed,
\* the gas runs out, the operator does not own the token.
Mine(t) ==
    /\ t.nonce = Len(mined)
    /\ pool' = pool \ {t}
    /\ mined' = Append(mined, t.by)
    /\ reverted' \in {reverted, reverted \cup {t.by}}
    /\ MustRevert(t.by) => t.by \in reverted'
    /\ UNCHANGED <<pc, expired, txMu, nonce, evictions, rows>>

Evict(t) ==
    /\ evictions < MaxEvictions
    /\ evictions' = evictions + 1
    /\ pool' = pool \ {t}
    /\ UNCHANGED <<pc, expired, txMu, nonce, mined, reverted, rows>>

-----------------------------------------------------------------------------
SendTransaction(c) ==
    Lock(c) \/ ReadNonce(c) \/ Submit(c) \/ SubmitUnheard(c) \/ CallFails(c)
        \/ WaitMined(c) \/ GiveUp(c)

Step(c) == SendTransaction(c) \/ (c \in Relays /\ Execute(c)) \/ (c \in Updates /\ UpdateFees(c))

AllEnded == \A c \in Callers : pc[c] \in Ended

Next ==
    \/ \E c \in Callers : Step(c) \/ Expire(c)
    \/ \E t \in pool : Mine(t) \/ Evict(t)
    \/ AllEnded /\ UNCHANGED vars

Spec == Init /\ [][Next]_vars

\* Whoever waits for the mutex takes it when it stays free.  An update that has begun goes
\* on, since every RPC of it returns when its deadline passes, and the database answers.
\* Nothing is promised of the node, nor of a relay's client: the context of a relay has no
\* deadline (relay/handler.go:45), so none of its RPCs need return.
Fairness ==
    /\ \A c \in Callers : WF_vars(Lock(c))
    /\ \A u \in Updates : WF_vars(pc[u] # "idle" /\ Step(u)) /\ WF_vars(Expire(u))
    /\ \A r \in Relays : WF_vars(RecordGas(r))

FairSpec == Spec /\ Fairness

-----------------------------------------------------------------------------
TypeOK ==
    /\ pc \in [Callers -> Stages]
    /\ expired \subseteq Callers
    /\ txMu \in Callers \cup {Nobody}
    /\ nonce \in [Callers -> Nat]
    /\ pool \subseteq Transaction
    /\ mined \in Seq(Callers)
    /\ reverted \subseteq Callers
    /\ evictions \in 0..MaxEvictions
    /\ dbFee \in Updates \cup {Nobody}
    /\ gasLedger \subseteq Relays
    /\ overlapped \in BOOLEAN

\* client.go:21-23 keeps the mutex so that two calls never use one nonce.  Between
\* reading its nonce and sending, a caller's nonce stays free: whatever the node mines or
\* forgets meanwhile, and however an earlier call ended, no other transaction gets it.
NoncesNeverCollide ==
    \A c \in Callers : pc[c] = "signed" =>
        /\ nonce[c] >= Len(mined)
        /\ \A t \in pool : t.nonce # nonce[c]
        /\ \A d \in Callers \ {c} : pc[d] = "signed" => nonce[d] # nonce[c]

\* The gas ledger lists relays whose request was executed, and a signed request once,
\* also when two relays of it pass the nonce check side by side (relay/service.go:91).
GasIsAccountedFor ==
    /\ \A r \in gasLedger : Effective(r)
    /\ \A r, q \in gasLedger : RequestOf[r] = RequestOf[q] => r = q

\* revenue/handler.go:67 keeps the contract's fee in step with the saved one, and line
\* 72 reports when it cannot.  If no update was reported as failed, none is under way and
\* none overlapped with another, then the contract charges the fee that is saved.
FeesAgreeUnlessReported ==
    (/\ \A u \in Updates : pc[u] \in {"idle", "ok", "refused", "savedOnly"}
     /\ ~overlapped
     /\ dbFee \notin OnlySaved)
        => ChainFee = dbFee

\* revenue/handler.go:67 synchronises the contract with the saved fee.  An update that is
\* saved without a treasury address, or two that overlap, leave them apart unreported.
FeesAgree == (\A u \in Updates : pc[u] \in {"idle", "ok", "savedOnly"}) => ChainFee = dbFee

\* The same once every update was answered, however: of a rate that the database takes and
\* the contract refuses (revenue/service.go:34) no retry brings the two together.
FeesAfterEveryAnswer == (\A u \in Updates : pc[u] \in Ended) => ChainFee = dbFee

\* The mutex is held while a transaction waits to be mined (operator.go:229), and whoever
\* waits for it cannot leave.  Still every call that is past its checks is answered,
\* provided that no relay holds it for ever, for the want of an answer or of a receipt,
\* which nothing but its client or the node prevents.
EveryCallEnds ==
    (\A r \in Relays : pc[r] \in Waiting ~> pc[r] \notin Waiting)
        => \A c \in Callers : pc[c] # "idle" ~> pc[c] \in Ended

\* operator.go:269 says of the wait for the receipt that it does not block.  Without the
\* premise of EveryCallEnds it blocks every caller of the chain.
WaitingBlocksNobody == \A c \in Callers : pc[c] = "queued" ~> pc[c] # "queued"

-----------------------------------------------------------------------------
Told(c) ==
    CASE pc[c] \in {"idle", "saved", "refused", "savedOnly"} -> "idle"
      [] pc[c] \in {"queued"} \cup Waiting -> "pending"
      [] pc[c] \in {"forwarded", "ok"} -> "ok"
      [] pc[c] = "failed" -> "failed"

Abstract == INSTANCE ChainCall WITH
    Calls <- Callers,
    call <- [c \in Callers |-> Told(c)],
    effect <- [c \in Callers |-> Effective(c)]

\* Each call is answered once; "ok" is said only of a transaction that took effect, and
\* a transaction takes effect once, possibly after its call was reported as failed.
ImplementsChainCall == Abstract!Spec
=============================================================================
