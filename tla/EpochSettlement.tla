-------------------------- MODULE EpochSettlement --------------------------
(***************************************************************************)
(* The settlement epochs of backend/internal/trade: an epoch is opened for *)
(* an asset and closed once, and closing it is to match the asset's buy    *)
(* orders in one batch.  CreateEpoch is one INSERT; CloseEpoch reads the   *)
(* epoch, marks it closed, then selects the open buy orders to match.      *)
(***************************************************************************)
EXTENDS TradeExecution

CONSTANT MaxEpochs   \* bound of the model

VARIABLES
    epochs,    \* the table epochs
    closing,   \* what each worker is doing to an epoch
    closes     \* closes[e]: how many CloseEpoch calls returned success for e

epochVars == <<epochs, closing, closes>>
allVars == <<vars, epochVars>>

Epoch == [asset : Assets, status : {"open", "closed"}]
NotClosing == [step |-> "idle", epoch |-> 0]

EpochTypeOK ==
    /\ TypeOK
    /\ epochs \in Seq(Epoch)
    /\ closing \in [Workers -> [step : {"idle", "markClosed", "batch"}, epoch : Nat]]
    /\ closes \in Seq(Nat)

EpochInit ==
    /\ Init
    /\ epochs = <<>>
    /\ closing = [w \in Workers |-> NotClosing]
    /\ closes = <<>>

\* nothing checks for another open epoch of the asset
CreateEpoch(a) ==
    /\ Len(epochs) < MaxEpochs
    /\ epochs' = Append(epochs, [asset |-> a, status |-> "open"])
    /\ closes' = Append(closes, 0)
    /\ UNCHANGED <<vars, closing>>

StartCloseUnchecked(w, e) ==   \* mutant: the status is not looked at
    /\ task[w].step = "idle"
    /\ closing[w].step = "idle"
    /\ closing' = [closing EXCEPT ![w] = [step |-> "markClosed", epoch |-> e]]
    /\ UNCHANGED <<vars, epochs, closes>>

StartClose(w, e) ==
    /\ task[w].step = "idle"
    /\ closing[w].step = "idle"
    /\ \/ /\ epochs[e].status = "open"
          /\ closing' = [closing EXCEPT ![w] = [step |-> "markClosed", epoch |-> e]]
       \/ /\ epochs[e].status # "open"      \* ErrEpochClosed
          /\ UNCHANGED closing
    /\ UNCHANGED <<vars, epochs, closes>>

MarkClosedUnchecked(w) ==   \* mutant: the error of the UPDATE dropped
    /\ closing[w].step = "markClosed"
    /\ \/ epochs' = [epochs EXCEPT ![closing[w].epoch].status = "closed"]
       \/ Faults /\ UNCHANGED epochs
    /\ closing' = [closing EXCEPT ![w].step = "batch"]
    /\ UNCHANGED <<vars, closes>>

MarkClosed(w) ==
    /\ closing[w].step = "markClosed"
    /\ \/ /\ epochs' = [epochs EXCEPT ![closing[w].epoch].status = "closed"]
          /\ closing' = [closing EXCEPT ![w].step = "batch"]
       \/ /\ Faults
          /\ closing' = [closing EXCEPT ![w] = NotClosing]
          /\ UNCHANGED epochs
    /\ UNCHANGED <<vars, closes>>

OpenBuys(a) == {o \in DOMAIN orders :
                   orders[o].asset = a /\ orders[o].side = "buy" /\ IsOpen(o)}

\* The query selects every column of trade_orders, 15 of them, and scans each row
\* into 13 destinations: the first row fails it, and CloseEpoch returns success
\* with nothing matched.  With no row there is nothing to match either.
BatchMatch(w) ==
    /\ closing[w].step = "batch"
    /\ closing' = [closing EXCEPT ![w] = NotClosing]
    /\ closes' = [closes EXCEPT ![closing[w].epoch] = @ + 1]
    /\ UNCHANGED <<vars, epochs>>

EpochCrash ==
    /\ Crash
    /\ closing' = [w \in Workers |-> NotClosing]
    /\ UNCHANGED <<epochs, closes>>

CloseEpoch(w) ==
    \/ \E e \in DOMAIN epochs : StartClose(w, e)
    \/ MarkClosed(w)
    \/ BatchMatch(w)

TradeStep ==
    /\ \/ \E u \in Users, a \in Assets, s \in Sides, p \in Prices, q \in Quantities :
             PlaceOrder(u, a, s, p, q)
       \/ \E w \in Workers : closing[w].step = "idle" /\ (CancelOrder(w) \/ MatchOrder(w))
    /\ UNCHANGED epochVars

EpochNext ==
    \/ TradeStep
    \/ \E a \in Assets : CreateEpoch(a)
    \/ \E w \in Workers : CloseEpoch(w)
    \/ EpochCrash

EpochSpec == EpochInit /\ [][EpochNext]_allVars

-----------------------------------------------------------------------------
\* A closed epoch stays closed and is the only kind that was ever closed: no
\* interleaving of creates, closes, faults and crashes reopens an epoch, and a
\* success is only ever reported for an epoch that is closed in the table
\* (CloseEpoch, service.go:252-262).
SuccessMeansClosed ==
    \A e \in DOMAIN epochs : closes[e] > 0 => epochs[e].status = "closed"

\* "重复关闭被拒" (a second close is refused), scripts/test_epoch_e2e.cjs:69: at most
\* one CloseEpoch of an epoch succeeds.  Two requests that both read "open" do.
ClosedOnce == \A e \in DOMAIN epochs : closes[e] <= 1

\* "对资产下所有 pending 买单按价格降序执行撮合" (match all pending buy orders of the
\* asset, by descending price), service.go:251: a close does not end at the batch
\* query while a buy order the query selects has an acceptable counterparty.
BatchMatchesOpenBuys ==
    [][\A w \in Workers :
          closing[w].step = "batch" /\ closing'[w].step = "idle" =>
             \A o \in OpenBuys(epochs[closing[w].epoch].asset) : Counters(o) = {}]_allVars

\* "订单收集期 → 批量撮合" (collect orders, then match in a batch),
\* docs/PROJECT_OVERVIEW.md:48: no trade is made in an asset whose epoch is open.
NoTradeWhileCollecting ==
    [][\A n \in DOMAIN trades' :
          n \notin DOMAIN trades =>
             ~\E e \in DOMAIN epochs : epochs[e].status = "open" /\ epochs[e].asset = trades'[n].asset
      ]_allVars
=============================================================================
