---------------------------- MODULE MarketProofs ----------------------------
(***************************************************************************)
(* Proofs about what surrounds TradeMatching: the HTTP handlers in front   *)
(* of it (TradeApi), the settlement epochs beside it (EpochSettlement) and *)
(* the sums over its trades (TradeExecution).  What TradeMatchingProofs    *)
(* shows of TradeMatching holds of its compositions.                       *)
(***************************************************************************)
EXTENDS EpochSettlement, TradeApi, TradeMatchingProofs, Sums

(* The settlement epochs *)

\* Every step of the composed system is a step of TradeMatching or leaves its tables
\* and workers alone.
THEOREM EpochsLeaveTheMarketAlone == EpochSpec => Spec
<1>1. EpochInit => Init
  BY DEF EpochInit
<1>2. ASSUME [EpochNext]_allVars PROVE [Next]_vars
  <2>1. CASE TradeStep
    BY <2>1 DEF TradeStep, Next
  <2>2. ASSUME NEW a \in Assets, CreateEpoch(a) PROVE UNCHANGED vars
    BY <2>2 DEF CreateEpoch
  <2>3. ASSUME NEW w \in Workers, CloseEpoch(w) PROVE UNCHANGED vars
    BY <2>3 DEF CloseEpoch, StartClose, MarkClosed, BatchMatch
  <2>4. CASE EpochCrash
    BY <2>4 DEF EpochCrash, Next
  <2>5. CASE UNCHANGED allVars
    BY <2>5 DEF allVars
  <2>6. QED
    BY <1>2, <2>1, <2>2, <2>3, <2>4, <2>5 DEF EpochNext
<1>3. QED
  BY <1>1, <1>2, PTL DEF EpochSpec, Spec

\* The market's invariant, with epochs opened and closed beside it.
THEOREM MarketInvariantBesideEpochs == EpochSpec => []TradeInv
BY EpochsLeaveTheMarketAlone, TradeInvariant, PTL

-----------------------------------------------------------------------------
\* Between reading an epoch and reporting success a worker knows its epoch: it exists,
\* and it is closed once the UPDATE went through.
CloserKnowsItsEpoch(w) ==
    /\ closing[w].step # "idle" => closing[w].epoch \in DOMAIN epochs
    /\ closing[w].step = "batch" => epochs[closing[w].epoch].status = "closed"

EpochInv ==
    /\ epochs \in Seq(Epoch)
    /\ closes \in Seq(Nat) /\ Len(closes) = Len(epochs)
    /\ closing \in [Workers -> [step : {"idle", "markClosed", "batch"}, epoch : Nat]]
    /\ \A w \in Workers : CloserKnowsItsEpoch(w)
    /\ SuccessMeansClosed

\* A step that moves a closer on without touching the tables keeps the invariant when
\* what the closer knows afterwards is true.
LEMMA CloserMovesOn ==
    ASSUME EpochInv, NEW w \in Workers, NEW c \in [step : {"idle", "markClosed", "batch"}, epoch : Nat],
           closing' = [closing EXCEPT ![w] = c], UNCHANGED <<epochs, closes>>,
           c.step # "idle" => c.epoch \in DOMAIN epochs,
           c.step = "batch" => epochs[c.epoch].status = "closed"
    PROVE  EpochInv'
BY DEF EpochInv, CloserKnowsItsEpoch, SuccessMeansClosed

LEMMA CreateEpochKeeps ==
    ASSUME EpochInv, NEW a \in Assets, CreateEpoch(a)
    PROVE  EpochInv'
<1> DEFINE row == [asset |-> a, status |-> "open"]
<1>1. /\ row \in Epoch /\ epochs \in Seq(Epoch) /\ closes \in Seq(Nat) /\ Len(closes) = Len(epochs)
      /\ epochs' = Append(epochs, row) /\ closes' = Append(closes, 0) /\ closing' = closing
  BY DEF EpochInv, CreateEpoch, Epoch
<1> HIDE DEF row
<1>2. /\ epochs' \in Seq(Epoch) /\ closes' \in Seq(Nat) /\ Len(closes') = Len(epochs')
      /\ \A e \in DOMAIN epochs : /\ e \in DOMAIN epochs'
                                  /\ epochs'[e] = epochs[e] /\ closes'[e] = closes[e]
      /\ \A e \in DOMAIN epochs' \ DOMAIN epochs : closes'[e] = 0
  BY <1>1
<1>3. QED
  BY <1>1, <1>2 DEF EpochInv, CloserKnowsItsEpoch, SuccessMeansClosed

LEMMA MarkClosedKeeps ==
    ASSUME EpochInv, NEW w \in Workers, MarkClosed(w)
    PROVE  EpochInv'
<1> DEFINE e == closing[w].epoch
<1>1. e \in DOMAIN epochs /\ closing[w].step = "markClosed"
  BY DEF MarkClosed, EpochInv, CloserKnowsItsEpoch
<1>2. CASE closing' = [closing EXCEPT ![w] = NotClosing] /\ UNCHANGED epochs
  <2>1. NotClosing \in [step : {"idle", "markClosed", "batch"}, epoch : Nat] /\ NotClosing.step = "idle"
    BY DEF NotClosing
  <2>2. QED
    BY <1>2, <2>1, CloserMovesOn DEF MarkClosed
<1>3. CASE /\ epochs' = [epochs EXCEPT ![e].status = "closed"]
           /\ closing' = [closing EXCEPT ![w].step = "batch"]
  <2> DEFINE row == [epochs[e] EXCEPT !.status = "closed"]
  <2>1. epochs \in Seq(Epoch) /\ epochs[e] \in Epoch /\ e \in 1 .. Len(epochs)
    BY <1>1 DEF EpochInv
  <2>2. row \in Epoch /\ row.status = "closed" /\ epochs' = [epochs EXCEPT ![e] = row]
    BY <1>3, <2>1 DEF Epoch
  <2> HIDE DEF row
  <2>3. /\ epochs' \in Seq(Epoch) /\ Len(epochs') = Len(epochs)
        /\ \A d \in 1 .. Len(epochs) : epochs'[d] = IF d = e THEN row ELSE epochs[d]
    BY <2>1, <2>2, ExceptSeq
  <2>4. DOMAIN epochs' = DOMAIN epochs /\ closes' = closes
    BY <2>1, <2>3, LenProperties DEF MarkClosed
  <2>5. SuccessMeansClosed'
    BY <2>1, <2>2, <2>3, <2>4 DEF EpochInv, SuccessMeansClosed
  <2>6. \A v \in Workers : CloserKnowsItsEpoch(v)'
    BY <1>1, <1>3, <2>1, <2>2, <2>3, <2>4 DEF EpochInv, CloserKnowsItsEpoch
  <2>7. closing' \in [Workers -> [step : {"idle", "markClosed", "batch"}, epoch : Nat]]
    BY <1>3 DEF EpochInv
  <2>8. QED
    BY <2>3, <2>4, <2>5, <2>6, <2>7 DEF EpochInv
<1>4. QED
  BY <1>2, <1>3 DEF MarkClosed

LEMMA BatchMatchKeeps ==
    ASSUME EpochInv, NEW w \in Workers, BatchMatch(w)
    PROVE  EpochInv'
<1> DEFINE e == closing[w].epoch
<1>1. /\ e \in DOMAIN epochs /\ epochs[e].status = "closed"
      /\ epochs' = epochs /\ closing' = [closing EXCEPT ![w] = NotClosing]
      /\ closes' = [closes EXCEPT ![e] = @ + 1]
  BY DEF BatchMatch, EpochInv, CloserKnowsItsEpoch
<1>2. closes \in Seq(Nat) /\ Len(closes) = Len(epochs) /\ e \in 1 .. Len(closes) /\ closes[e] + 1 \in Nat
  BY <1>1 DEF EpochInv
<1>3. /\ closes' \in Seq(Nat) /\ Len(closes') = Len(closes)
      /\ \A d \in 1 .. Len(closes) : d # e => closes'[d] = closes[d]
  BY <1>1, <1>2, ExceptSeq
<1>4. SuccessMeansClosed'
  BY <1>1, <1>2, <1>3 DEF EpochInv, SuccessMeansClosed
<1>5. QED
  BY <1>1, <1>3, <1>4 DEF EpochInv, CloserKnowsItsEpoch, NotClosing

LEMMA EpochStepKeepsInv == EpochInv /\ [EpochNext]_allVars => EpochInv'
<1> SUFFICES ASSUME EpochInv, [EpochNext]_allVars PROVE EpochInv'
  OBVIOUS
<1>1. CASE UNCHANGED epochVars
  BY <1>1 DEF epochVars, EpochInv, CloserKnowsItsEpoch, SuccessMeansClosed
<1>2. ASSUME NEW w \in Workers, NEW e \in DOMAIN epochs, StartClose(w, e)
      PROVE  EpochInv'
  <2> DEFINE c == [step |-> "markClosed", epoch |-> e]
  <2>1. c \in [step : {"idle", "markClosed", "batch"}, epoch : Nat]
    BY DEF EpochInv
  <2>2. CASE closing' = [closing EXCEPT ![w] = c]
    BY <1>2, <2>1, <2>2, CloserMovesOn DEF StartClose
  <2>3. CASE UNCHANGED closing
    BY <1>1, <1>2, <2>3 DEF StartClose, epochVars
  <2>4. QED
    BY <1>2, <2>2, <2>3 DEF StartClose
<1>3. CASE EpochCrash
  BY <1>3 DEF EpochCrash, EpochInv, CloserKnowsItsEpoch, SuccessMeansClosed, NotClosing
<1>4. QED
  BY <1>1, <1>2, <1>3, CreateEpochKeeps, MarkClosedKeeps, BatchMatchKeeps
     DEF EpochNext, TradeStep, CloseEpoch, allVars

\* A success is only ever reported for an epoch that is closed in the table, and stays
\* so, whatever interleaves, fails or crashes.
THEOREM ReportedClosesAreClosed == EpochSpec => []SuccessMeansClosed
<1>1. EpochInit => EpochInv
  BY DEF EpochInit, EpochInv, CloserKnowsItsEpoch, SuccessMeansClosed, NotClosing
<1>2. EpochInv => SuccessMeansClosed
  BY DEF EpochInv
<1>3. QED
  BY <1>1, <1>2, EpochStepKeepsInv, PTL DEF EpochSpec

-----------------------------------------------------------------------------
(* The HTTP handlers *)

\* The handlers only call the service: their steps are steps of TradeMatching.
THEOREM HandlersCallTheService == ASSUME Users = {NilUser} PROVE ApiSpec => Spec
<1>1. ApiInit => Init
  BY DEF ApiInit
<1>2. ASSUME [ApiNext]_apiVars PROVE [Next]_vars
  <2>1. ASSUME NEW c \in Callers, NEW a \in Assets, NEW s \in Sides, NEW p \in Prices,
               NEW q \in Quantities, PlaceOrderRequest(c, a, s, p, q)
        PROVE  Next
    BY <2>1 DEF PlaceOrderRequest, UserOf, Next
  <2>2. ASSUME NEW c \in Callers, NEW w \in Workers, NEW o \in DOMAIN orders,
               CancelOrderRequest(c, w, o)
        PROVE  Next
    BY <2>2 DEF CancelOrderRequest, UserOf, Next, CancelOrder
  <2>3. CASE ServiceStep
    BY <2>3 DEF ServiceStep, Next, CancelOrder
  <2>4. CASE UNCHANGED apiVars
    BY <2>4 DEF apiVars
  <2>5. QED
    BY <1>2, <2>1, <2>2, <2>3, <2>4 DEF ApiNext
<1>3. QED
  BY <1>1, <1>2, PTL DEF ApiSpec, Spec

\* The inductive invariant: nobody finds a counterparty, so no worker gets past
\* reading the book.
NobodyTrades ==
    /\ NoTradeThroughTheApi
    /\ \A o \in DOMAIN orders : orders[o].owner = NilUser
    /\ \A w \in Workers : task[w].step \in {"idle", "cancel", "readBook"}

LEMMA StepKeepsNobodyTrades ==
    ASSUME Users = {NilUser}, TypeOK, TasksAreCurrent, NobodyTrades, [Next]_vars
    PROVE  NobodyTrades'
<1> USE DEF NobodyTrades, NoTradeThroughTheApi
<1>1. ASSUME NEW u \in Users, NEW a \in Assets, NEW s \in Sides, NEW p \in Prices,
             NEW q \in Quantities, PlaceOrder(u, a, s, p, q)
      PROVE  NobodyTrades'
  <2> DEFINE row == [owner |-> u, asset |-> a, side |-> s, price |-> p,
                     quantity |-> q, filled |-> 0, status |-> "pending"]
  <2>1. orders \in Seq(Order) /\ orders' = Append(orders, row)
    BY <1>1 DEF TypeOK, PlaceOrder
  <2>2. row.owner = NilUser /\ row.filled = 0
    OBVIOUS
  <2> HIDE DEF row
  <2>3. \A o \in DOMAIN orders' : orders'[o] = row \/ (o \in DOMAIN orders /\ orders'[o] = orders[o])
    BY <2>1
  <2>4. QED
    BY <1>1, <2>2, <2>3 DEF PlaceOrder
<1>2. ASSUME NEW w \in Workers, NEW u \in Users, NEW o \in DOMAIN orders, StartCancel(w, u, o)
      PROVE  NobodyTrades'
  BY <1>2 DEF StartCancel, Idle, TypeOK
<1>3. ASSUME NEW w \in Workers, FinishCancel(w)
      PROVE  NobodyTrades'
  <2>1. task' = [task EXCEPT ![w] = Idle] /\ trades' = trades /\ settlements' = settlements
    BY <1>3 DEF FinishCancel
  <2>2. CASE orders' = orders
    BY <2>1, <2>2 DEF Idle, TypeOK
  <2>3. CASE orders' = [orders EXCEPT ![task[w].order].status = "cancelled"]
    <3>1. /\ DOMAIN orders' = DOMAIN orders
          /\ \A o \in DOMAIN orders : /\ orders'[o].owner = orders[o].owner
                                      /\ orders'[o].filled = orders[o].filled
      BY <1>3, <2>3, CancelKeeps DEF FinishCancel, TasksAreCurrent, TaskIsCurrent
    <3>2. QED
      BY <2>1, <3>1 DEF Idle, TypeOK
  <2>4. QED
    BY <1>3, <2>2, <2>3 DEF FinishCancel
<1>4. ASSUME NEW w \in Workers, NEW o \in DOMAIN orders, StartMatch(w, o)
      PROVE  NobodyTrades'
  BY <1>4 DEF StartMatch, Idle, TypeOK
<1>5. ASSUME NEW w \in Workers, ReadBook(w)
      PROVE  NobodyTrades'
  <2>1. task[w].order \in DOMAIN orders
    BY <1>5 DEF ReadBook, TasksAreCurrent, TaskIsCurrent
  <2>2. Counters(task[w].order) = {}
    BY <2>1 DEF Counters, OpenOrders, Pending, Acceptable
  <2>3. task' = [task EXCEPT ![w] = Idle] /\ UNCHANGED <<orders, trades, settlements>>
    BY <1>5, <2>2 DEF ReadBook
  <2>4. QED
    BY <2>3 DEF Idle, TypeOK
<1>6. ASSUME NEW w \in Workers,
             InsertTrade(w) \/ FillOrder(w) \/ FillCounter(w) \/ InsertSettlement(w)
      PROVE  NobodyTrades'
  BY <1>6 DEF InsertTrade, FillOrder, FillCounter, InsertSettlement
<1>7. CASE Crash
  BY <1>7 DEF Crash, Idle
<1>8. CASE UNCHANGED vars
  BY <1>8 DEF vars
<1>9. QED
  BY <1>1, <1>2, <1>3, <1>4, <1>5, <1>6, <1>7, <1>8 DEF Next, CancelOrder, MatchOrder

\* Through the HTTP API no order is ever filled and no trade or settlement is ever
\* recorded, for any callers, orders, workers and faults.
THEOREM NilUserNeverTrades ==
    ASSUME Users = {NilUser} PROVE ApiSpec => []NoTradeThroughTheApi
<1>1. Init => NobodyTrades
  BY DEF Init, NobodyTrades, NoTradeThroughTheApi, Idle
<1>2. TypeOK /\ TasksAreCurrent /\ NobodyTrades /\ [Next]_vars => NobodyTrades'
  BY StepKeepsNobodyTrades
<1>3. NobodyTrades => NoTradeThroughTheApi
  BY DEF NobodyTrades
<1>4. QED
  BY <1>1, <1>2, <1>3, HandlersCallTheService, TypeCorrect, TasksStayCurrent, PTL DEF Spec

-----------------------------------------------------------------------------
(* The sums over the trades *)

\* The sum over the trades of an order is a natural number.
LEMMA ExecutedIsNat ==
    ASSUME TypeOK, NEW o
    PROVE  Executed(o) \in Nat /\ IsFiniteSet(TradesOf(o))
<1> DEFINE f == [n \in DOMAIN trades |-> trades[n].quantity]
<1>1. IsFiniteSet(TradesOf(o))
  <2>1. IsFiniteSet(DOMAIN trades)
    BY RowTypes, FS_Interval
  <2> QED
    BY <2>1, FS_Subset DEF TradesOf
<1>2. \A n \in TradesOf(o) : f[n] \in Nat
  BY RowTypes DEF TradesOf, Trade
<1>3. Executed(o) = SumFunctionOnSet(f, TradesOf(o))
  BY DEF Executed
<1> HIDE DEF f
<1> QED
  BY <1>1, <1>2, <1>3, SumIsNat

LEMMA ExecutedStays ==
    ASSUME trades' = trades, NEW o
    PROVE  Executed(o)' = Executed(o)
BY DEF Executed, TradesOf

\* A new trade adds its quantity to what its two orders executed.
LEMMA ExecutedGrows ==
    ASSUME TypeOK, NEW x \in Trade, trades' = Append(trades, x), NEW o
    PROVE  Executed(o)' = Executed(o) + (IF o \in {x.buyOrder, x.sellOrder} THEN x.quantity ELSE 0)
<1> DEFINE f == [n \in DOMAIN trades |-> trades[n].quantity]
           g == [n \in DOMAIN trades' |-> trades'[n].quantity]
           new == Len(trades) + 1
<1>1. /\ trades \in Seq(Trade) /\ DOMAIN trades = 1 .. Len(trades) /\ Len(trades) \in Nat
      /\ \A n \in DOMAIN trades : trades[n] \in Trade
  BY RowTypes DEF TypeOK
<1>2. /\ DOMAIN trades' = DOMAIN trades \cup {new} /\ new \notin DOMAIN trades
      /\ \A n \in DOMAIN trades : trades'[n] = trades[n]
      /\ trades'[new] = x
  BY <1>1, AppendProperties, LenProperties
<1> HIDE DEF new
<1>3. /\ Executed(o) = SumFunctionOnSet(f, TradesOf(o))
      /\ Executed(o)' = SumFunctionOnSet(g, TradesOf(o)')
  BY DEF Executed
<1>4. /\ \A n \in TradesOf(o) : f[n] \in Int /\ f[n] = g[n]
      /\ g[new] = x.quantity /\ x.quantity \in Int
      /\ new \notin TradesOf(o)
  BY <1>1, <1>2 DEF TradesOf, Trade
<1>5. TradesOf(o)' = TradesOf(o) \cup (IF o \in {x.buyOrder, x.sellOrder} THEN {new} ELSE {})
  BY <1>1, <1>2 DEF TradesOf
<1>6. IsFiniteSet(TradesOf(o)) /\ Executed(o) \in Nat
  BY ExecutedIsNat
<1> HIDE DEF f, g
<1>7. SumFunctionOnSet(f, TradesOf(o)) = SumFunctionOnSet(g, TradesOf(o))
  BY <1>4, <1>6, SumsAgree
<1>8. CASE o \in {x.buyOrder, x.sellOrder}
  <2>1. \A n \in TradesOf(o) \cup {new} : g[n] \in Int
    BY <1>4
  <2>2. SumFunctionOnSet(g, TradesOf(o) \cup {new}) = g[new] + SumFunctionOnSet(g, TradesOf(o))
    BY <1>4, <1>6, <2>1, SumAddsOne
  <2> QED
    BY <1>3, <1>4, <1>5, <1>6, <1>7, <1>8, <2>2
<1>9. CASE o \notin {x.buyOrder, x.sellOrder}
  BY <1>3, <1>5, <1>6, <1>7, <1>9
<1> QED
  BY <1>8, <1>9

\* An order that is not in the table was not traded.
LEMMA NothingExecuted ==
    ASSUME TradesHonourOrders, NEW o, o \notin DOMAIN orders
    PROVE  Executed(o) = 0
<1>1. TradesOf(o) = {}
  BY DEF TradesOf, TradesHonourOrders
<1> QED
  BY <1>1, SumOfNothing DEF Executed

\* The trade a worker inserts adds what it traded to its order and to the counterparty.
LEMMA InsertedTradeCounts ==
    ASSUME TradeInv, NEW w \in Workers, task[w].step = "insertTrade",
           trades' = Append(trades, TradeOf(task[w])), NEW o
    PROVE  /\ TradedQty(task[w]) \in Nat \ {0}
           /\ Executed(o) \in Nat
           /\ Executed(o)' = Executed(o) + (IF o \in {task[w].order, task[w].counter}
                                            THEN TradedQty(task[w]) ELSE 0)
<1> DEFINE x == TradeOf(task[w])
<1>1. TradedQty(task[w]) \in Nat \ {0} /\ x \in Trade
  BY MatcherIsSound, TradeIsSound DEF TradeInv
<1>2. x.quantity = TradedQty(task[w]) /\ {x.buyOrder, x.sellOrder} = {task[w].order, task[w].counter}
  BY DEF TradeOf
<1> HIDE DEF x
<1>3. Executed(o)' = Executed(o) + (IF o \in {x.buyOrder, x.sellOrder} THEN x.quantity ELSE 0)
  BY <1>1, ExecutedGrows DEF TradeInv, x
<1> QED
  BY <1>1, <1>2, <1>3, ExecutedIsNat DEF TradeInv

\* What a worker trades depends on its task and on rows that are never updated.
LEMMA WorkerKeepsQty ==
    ASSUME RowsKept, NEW w \in Workers,
           task[w].order \in DOMAIN orders, task[w].counter \in DOMAIN orders,
           task'[w].order = task[w].order, task'[w].orderFilled = task[w].orderFilled,
           task'[w].counter = task[w].counter, task'[w].counterFilled = task[w].counterFilled
    PROVE  TradedQty(task[w])' = TradedQty(task[w])
BY DEF RowsKept, TradedQty

-----------------------------------------------------------------------------
(* No row claims an execution that did not happen *)

\* The inductive invariant: what a worker read of its two rows was traded, and so was,
\* from the INSERT on, what it is about to write to them.
ReadsWereTraded(w) ==
    \A o \in DOMAIN orders :
        /\ task[w].order = o =>
              /\ task[w].step \in {"readBook", "insertTrade"} => task[w].orderFilled <= Executed(o)
              /\ task[w].step \in {"fillOrder", "fillCounter"} =>
                    task[w].orderFilled + TradedQty(task[w]) <= Executed(o)
        /\ task[w].counter = o =>
              /\ task[w].step = "insertTrade" => task[w].counterFilled <= Executed(o)
              /\ task[w].step \in {"fillOrder", "fillCounter"} =>
                    task[w].counterFilled + TradedQty(task[w]) <= Executed(o)

FillInv == TradeInv /\ NoPhantomFill /\ \A w \in Workers : ReadsWereTraded(w)

\* Executed quantities only grow, and start at nothing.
LEMMA ExecutedNeverShrinks ==
    ASSUME TradeInv, [Next]_vars, NEW o
    PROVE  Executed(o) \in Nat /\ Executed(o)' \in Nat /\ Executed(o) <= Executed(o)'
<1>1. Executed(o) \in Nat
  BY ExecutedIsNat DEF TradeInv
<1>2. CASE trades' = trades
  BY <1>1, <1>2, ExecutedStays
<1>3. CASE \E w \in Workers : task[w].step = "insertTrade" /\ trades' = Append(trades, TradeOf(task[w]))
  BY <1>3, InsertedTradeCounts
<1> QED
  BY <1>2, <1>3 DEF Next, vars, PlaceOrder, CancelOrder, StartCancel, FinishCancel, MatchOrder,
     StartMatch, ReadBook, InsertTrade, FillOrder, FillCounter, InsertSettlement, Crash

LEMMA IdlersReadNothing ==
    ASSUME NEW w \in Workers, task'[w].step \in {"idle", "cancel", "insertSettlement"}
    PROVE  ReadsWereTraded(w)'
BY DEF ReadsWereTraded

\* What was traded stays traded while the worker keeps its task.
LEMMA ReadsStayTraded ==
    ASSUME FillInv, [Next]_vars, NEW w \in Workers, task'[w] = task[w]
    PROVE  ReadsWereTraded(w)'
<1>1. TradeInv /\ RowsKept /\ TaskIsCurrent(w) /\ ReadsWereTraded(w) /\ task[w] \in Task
  BY NextKeepsInv, RowTypes DEF FillInv, TradeInv, TasksAreCurrent
<1>2. CASE task[w].step \in {"readBook", "insertTrade", "fillOrder", "fillCounter"}
  <2>1. task[w].order \in DOMAIN orders
    BY <1>1, <1>2 DEF TaskIsCurrent
  <2>2. task[w].step # "readBook" => task[w].counter \in DOMAIN orders
    BY <1>1, <1>2 DEF TaskIsCurrent
  <2>3. /\ task[w].orderFilled \in Nat /\ task[w].counterFilled \in Nat
        /\ task[w].step \in {"fillOrder", "fillCounter"} =>
             TradedQty(task[w]) \in Nat /\ TradedQty(task[w])' = TradedQty(task[w])
    BY <1>1, <2>1, <2>2, MatcherIsSound, TradeIsSound, WorkerKeepsQty DEF Task, TradeInv
  <2>4. ASSUME NEW o \in DOMAIN orders
        PROVE  Executed(o) \in Nat /\ Executed(o)' \in Nat /\ Executed(o) <= Executed(o)'
    BY <1>1, ExecutedNeverShrinks
  <2> SUFFICES ASSUME NEW o \in DOMAIN orders',
                      o = task[w].order \/ (o = task[w].counter /\ task[w].step # "readBook")
               PROVE  /\ task[w].order = o =>
                            /\ task[w].step \in {"readBook", "insertTrade"} => task[w].orderFilled <= Executed(o)'
                            /\ task[w].step \in {"fillOrder", "fillCounter"} =>
                                  task[w].orderFilled + TradedQty(task[w])' <= Executed(o)'
                      /\ task[w].counter = o =>
                            /\ task[w].step = "insertTrade" => task[w].counterFilled <= Executed(o)'
                            /\ task[w].step \in {"fillOrder", "fillCounter"} =>
                                  task[w].counterFilled + TradedQty(task[w])' <= Executed(o)'
    BY DEF ReadsWereTraded
  <2>5. o \in DOMAIN orders
    BY <2>1, <2>2
  <2> QED
    BY <1>1, <2>3, <2>4, <2>5 DEF ReadsWereTraded
<1>3. CASE task[w].step \in {"idle", "cancel", "insertSettlement"}
  BY <1>3, IdlersReadNothing
<1> QED
  BY <1>1, <1>2, <1>3 DEF Task, Steps

\* An order row that keeps filled_qty stays covered by its trades.
LEMMA UntouchedRowsStayCovered ==
    ASSUME FillInv, [Next]_vars, NEW o \in DOMAIN orders, orders'[o].filled = orders[o].filled
    PROVE  orders'[o].filled <= Executed(o)'
<1>1. orders[o].filled \in Nat /\ orders[o].filled <= Executed(o)
  BY RowTypes DEF FillInv, TradeInv, NoPhantomFill, Order
<1> QED
  BY <1>1, ExecutedNeverShrinks DEF FillInv

\* What the workers write to the order rows was traded.
LEMMA NextLeavesNoPhantom ==
    ASSUME FillInv, [Next]_vars
    PROVE  NoPhantomFill'
<1>1. TradeInv /\ TypeOK /\ FillsAgreeWithStatus
  BY DEF FillInv, TradeInv
<1>2. CASE orders' = orders
  BY <1>2, UntouchedRowsStayCovered DEF NoPhantomFill
<1>3. ASSUME NEW u \in Users, NEW a \in Assets, NEW s \in Sides, NEW p \in Prices,
             NEW q \in Quantities, PlaceOrder(u, a, s, p, q)
      PROVE  NoPhantomFill'
  <2> DEFINE row == [owner |-> u, asset |-> a, side |-> s, price |-> p,
                     quantity |-> q, filled |-> 0, status |-> "pending"]
  <2>1. /\ orders \in Seq(Order) /\ orders' = Append(orders, row) /\ row \in Order /\ row.filled = 0
    BY <1>1, <1>3, TradeAssumption DEF TypeOK, PlaceOrder, Order, OrderStatus
  <2> HIDE DEF row
  <2> SUFFICES ASSUME NEW o \in DOMAIN orders' PROVE orders'[o].filled <= Executed(o)'
    BY DEF NoPhantomFill
  <2>2. CASE o \in DOMAIN orders
    <3>1. orders'[o] = orders[o]
      BY <2>1, <2>2, AppendProperties, LenProperties
    <3> QED
      BY <2>2, <3>1, UntouchedRowsStayCovered
  <2>3. CASE o \notin DOMAIN orders
    <3>1. orders'[o].filled = 0
      BY <2>1, <2>3, AppendProperties, LenProperties
    <3> QED
      BY <1>1, <3>1, ExecutedNeverShrinks
  <2> QED
    BY <2>2, <2>3
<1>4. ASSUME NEW w \in Workers, FinishCancel(w), orders' # orders
      PROVE  NoPhantomFill'
  <2>1. /\ DOMAIN orders' = DOMAIN orders
        /\ \A o \in DOMAIN orders : orders'[o].filled = orders[o].filled
    <3> DEFINE c == task[w].order
    <3>1. c \in DOMAIN orders /\ orders' = [orders EXCEPT ![c].status = "cancelled"]
      BY <1>1, <1>4 DEF FinishCancel, TradeInv, TasksAreCurrent, TaskIsCurrent
    <3> HIDE DEF c
    <3>2. orders[c] \in Order
      BY <1>1, <3>1, RowTypes
    <3> QED
      BY <3>1, <3>2 DEF Order
  <2> QED
    BY <2>1, UntouchedRowsStayCovered DEF NoPhantomFill
<1>5. ASSUME NEW c \in DOMAIN orders, NEW f \in Nat \ {0}, f <= orders[c].quantity,
             Fill(c, f), trades' = trades, f <= Executed(c)
      PROVE  NoPhantomFill'
  <2>1. /\ DOMAIN orders' = DOMAIN orders
        /\ \A o \in DOMAIN orders \ {c} : orders'[o] = orders[o]
    BY <1>1, <1>5, FillKeeps
  <2>2. orders'[c].filled = f
    BY <1>1, <1>5, RowTypes DEF Fill, Order
  <2>3. Executed(c)' = Executed(c)
    BY <1>5, ExecutedStays
  <2> QED
    BY <1>5, <2>1, <2>2, <2>3, UntouchedRowsStayCovered DEF NoPhantomFill
<1>6. ASSUME NEW w \in Workers, FillOrder(w) \/ FillCounter(w), orders' # orders
      PROVE  NoPhantomFill'
  <2>1. /\ task[w].step \in {"fillOrder", "fillCounter"} /\ trades' = trades
        /\ ReadsWereTraded(w)
    BY <1>6 DEF FillOrder, FillCounter, FillInv
  <2>2. /\ task[w].order \in DOMAIN orders /\ task[w].counter \in DOMAIN orders
        /\ task[w].orderFilled \in Nat /\ task[w].counterFilled \in Nat
        /\ TradedQty(task[w]) \in Nat \ {0}
        /\ task[w].orderFilled + TradedQty(task[w]) <= orders[task[w].order].quantity
        /\ task[w].counterFilled + TradedQty(task[w]) <= orders[task[w].counter].quantity
    BY <1>1, <2>1, MatcherIsSound, TradeIsSound DEF Task
  <2>3. /\ task[w].orderFilled + TradedQty(task[w]) <= Executed(task[w].order)
        /\ task[w].counterFilled + TradedQty(task[w]) <= Executed(task[w].counter)
    BY <2>1, <2>2 DEF ReadsWereTraded
  <2>4. CASE Fill(task[w].order, task[w].orderFilled + TradedQty(task[w]))
    BY <1>5, <2>1, <2>2, <2>3, <2>4
  <2>5. CASE Fill(task[w].counter, task[w].counterFilled + TradedQty(task[w]))
    BY <1>5, <2>1, <2>2, <2>3, <2>5
  <2> QED
    BY <1>6, <2>4, <2>5 DEF FillOrder, FillCounter
<1> QED
  BY <1>2, <1>3, <1>4, <1>6 DEF Next, CancelOrder, MatchOrder, StartCancel, StartMatch, ReadBook,
     InsertTrade, InsertSettlement, Crash, vars

\* What the workers read and are about to write stays within what was traded.
LEMMA NextReadsWhatWasTraded ==
    ASSUME FillInv, [Next]_vars, NEW w \in Workers
    PROVE  ReadsWereTraded(w)'
<1>1. /\ TradeInv /\ task \in [Workers -> Task] /\ TaskIsCurrent(w) /\ ReadsWereTraded(w)
      /\ task[w] \in Task
      /\ \A o \in DOMAIN orders : orders[o].filled <= Executed(o)
      /\ \A o \in DOMAIN orders : orders[o] \in Order
  BY RowTypes DEF FillInv, TradeInv, TypeOK, TasksAreCurrent, NoPhantomFill
<1>2. CASE task'[w] = task[w]
  BY <1>2, ReadsStayTraded
<1>3. CASE task'[w].step \in {"idle", "cancel", "insertSettlement"}
  BY <1>3, IdlersReadNothing
<1>4. ASSUME NEW o \in DOMAIN orders, StartMatch(w, o)
      PROVE  ReadsWereTraded(w)'
  <2>1. /\ task'[w].step = "readBook" /\ task'[w].order = o
        /\ task'[w].orderFilled = orders[o].filled /\ UNCHANGED <<orders, trades>>
    BY <1>1, <1>4 DEF StartMatch, Idle
  <2> QED
    BY <1>1, <2>1, ExecutedStays DEF ReadsWereTraded
<1>5. ASSUME ReadBook(w), task'[w].step # "idle"
      PROVE  ReadsWereTraded(w)'
  <2>0. task' # [task EXCEPT ![w] = Idle]
    BY <1>1, <1>5 DEF Idle
  <2>1. PICK c \in Counters(task[w].order) :
          task' = [task EXCEPT ![w].step = "insertTrade", ![w].counter = c,
                               ![w].counterFilled = orders[c].filled]
    BY <1>5, <2>0, Zenon DEF ReadBook
  <2>2. /\ c \in DOMAIN orders /\ task[w].step = "readBook" /\ UNCHANGED <<orders, trades>>
    BY <1>5 DEF Counters, OpenOrders, Pending, ReadBook
  <2>3. /\ task'[w].step = "insertTrade" /\ task'[w].order = task[w].order
        /\ task'[w].orderFilled = task[w].orderFilled
        /\ task'[w].counter = c /\ task'[w].counterFilled = orders[c].filled
    BY <1>1, <2>1 DEF Task
  <2> QED
    BY <1>1, <2>2, <2>3, ExecutedStays DEF ReadsWereTraded
<1>6. ASSUME InsertTrade(w), task'[w].step # "idle"
      PROVE  ReadsWereTraded(w)'
  <2>1. /\ task[w].step = "insertTrade" /\ trades' = Append(trades, TradeOf(task[w]))
        /\ task' = [task EXCEPT ![w].step = "fillOrder", ![w].trade = Len(trades) + 1]
        /\ orders' = orders
    BY <1>1, <1>6 DEF InsertTrade, Idle
  <2>2. /\ task'[w].step = "fillOrder" /\ task'[w].order = task[w].order
        /\ task'[w].orderFilled = task[w].orderFilled
        /\ task'[w].counter = task[w].counter /\ task'[w].counterFilled = task[w].counterFilled
    BY <1>1, <2>1 DEF Task
  <2>3. TradedQty(task[w])' = TradedQty(task[w])
    BY <2>1, <2>2 DEF TradedQty
  <2>4. /\ task[w].orderFilled \in Nat /\ task[w].counterFilled \in Nat
        /\ task[w].order \in DOMAIN orders /\ task[w].counter \in DOMAIN orders
    BY <1>1, <2>1 DEF Task, TaskIsCurrent
  <2> SUFFICES ASSUME NEW o \in DOMAIN orders
               PROVE  /\ task[w].order = o =>
                            task[w].orderFilled + TradedQty(task[w]) <= Executed(o)'
                      /\ task[w].counter = o =>
                            task[w].counterFilled + TradedQty(task[w]) <= Executed(o)'
    BY <2>1, <2>2, <2>3 DEF ReadsWereTraded
  <2>5. /\ TradedQty(task[w]) \in Nat /\ Executed(o) \in Nat
        /\ o \in {task[w].order, task[w].counter} => Executed(o)' = Executed(o) + TradedQty(task[w])
    BY <1>1, <2>1, InsertedTradeCounts
  <2>6. /\ task[w].order = o => task[w].orderFilled <= Executed(o)
        /\ task[w].counter = o => task[w].counterFilled <= Executed(o)
    BY <1>1, <2>1 DEF ReadsWereTraded
  <2> QED
    BY <2>4, <2>5, <2>6
<1>7. ASSUME FillOrder(w)
      PROVE  ReadsWereTraded(w)'
  <2>1. /\ task[w].step = "fillOrder" /\ task' = [task EXCEPT ![w].step = "fillCounter"]
        /\ trades' = trades
    BY <1>7 DEF FillOrder
  <2>2. /\ task'[w].step = "fillCounter" /\ task'[w].order = task[w].order
        /\ task'[w].orderFilled = task[w].orderFilled
        /\ task'[w].counter = task[w].counter /\ task'[w].counterFilled = task[w].counterFilled
    BY <1>1, <2>1 DEF Task
  <2>3. task[w].order \in DOMAIN orders /\ task[w].counter \in DOMAIN orders
    BY <1>1, <2>1 DEF TaskIsCurrent
  <2>4. TradedQty(task[w])' = TradedQty(task[w])
    BY <1>1, <2>2, <2>3, NextKeepsInv, WorkerKeepsQty
  <2> SUFFICES ASSUME NEW o \in DOMAIN orders', o \in {task[w].order, task[w].counter}
               PROVE  /\ task[w].order = o =>
                            task[w].orderFilled + TradedQty(task[w]) <= Executed(o)'
                      /\ task[w].counter = o =>
                            task[w].counterFilled + TradedQty(task[w]) <= Executed(o)'
    BY <2>2, <2>4 DEF ReadsWereTraded
  <2> QED
    BY <1>1, <2>1, <2>3, ExecutedStays DEF ReadsWereTraded
<1>8. CASE Crash
  BY <1>3, <1>8 DEF Crash, Idle
<1>9. ASSUME NEW v \in Workers, CancelOrder(v) \/ MatchOrder(v), v # w
      PROVE  task'[w] = task[w]
  BY <1>1, <1>9 DEF CancelOrder, StartCancel, FinishCancel, MatchOrder, StartMatch, ReadBook,
     InsertTrade, FillOrder, FillCounter, InsertSettlement
<1>10. CASE CancelOrder(w)
  <2>1. ASSUME NEW u \in Users, NEW o \in DOMAIN orders, StartCancel(w, u, o)
        PROVE  task'[w] = task[w] \/ task'[w].step = "cancel"
    BY <1>1, <2>1 DEF StartCancel, Idle
  <2>2. FinishCancel(w) => task'[w].step = "idle"
    BY <1>1 DEF FinishCancel, Idle
  <2> QED
    BY <1>2, <1>3, <1>10, <2>1, <2>2 DEF CancelOrder
<1>11. CASE FillCounter(w) \/ InsertSettlement(w)
  BY <1>1, <1>3, <1>11 DEF FillCounter, InsertSettlement, Idle, Task
<1>12. CASE MatchOrder(w)
  BY <1>3, <1>4, <1>5, <1>6, <1>7, <1>11, <1>12 DEF MatchOrder
<1>13. CASE UNCHANGED task
  BY <1>2, <1>13
<1> QED
  BY <1>2, <1>8, <1>9, <1>10, <1>12, <1>13 DEF Next, PlaceOrder, vars

\* No interleaving, fault or crash lets filled_qty run ahead of the trades table.
THEOREM FillsWereTraded == Spec => []NoPhantomFill
<1>1. Init => FillInv
  <2> SUFFICES ASSUME Init PROVE FillInv
    OBVIOUS
  <2>1. NoPhantomFill /\ \A w \in Workers : ReadsWereTraded(w)
    BY DEF Init, NoPhantomFill, ReadsWereTraded
  <2> QED
    BY <2>1, InitTradeInv DEF FillInv
<1>2. FillInv /\ [Next]_vars => FillInv'
  BY NextKeepsInv, NextLeavesNoPhantom, NextReadsWhatWasTraded DEF FillInv
<1>3. FillInv => NoPhantomFill
  BY DEF FillInv
<1> QED
  BY <1>1, <1>2, <1>3, PTL DEF Spec

-----------------------------------------------------------------------------
(* One request at a time *)

\* the server serves its requests one after the other
OneWorker == \A v, w \in Workers : v = w

\* The worker that is to mark an epoch closed saw it open, and nobody closed it since;
\* one that marked it is the first to report success.
CloserIsFirst(w) ==
    /\ closing[w].step = "markClosed" => epochs[closing[w].epoch].status = "open"
    /\ closing[w].step = "batch" => closes[closing[w].epoch] = 0

CloseInv == EpochInv /\ ClosedOnce /\ \A w \in Workers : CloserIsFirst(w)

LEMMA CloseStepKeepsInv ==
    ASSUME OneWorker, CloseInv, [EpochNext]_allVars
    PROVE  CloseInv'
<1>1. /\ EpochInv' /\ EpochInv
      /\ closing \in [Workers -> [step : {"idle", "markClosed", "batch"}, epoch : Nat]]
      /\ epochs \in Seq(Epoch) /\ closes \in Seq(Nat) /\ Len(closes) = Len(epochs)
  BY EpochStepKeepsInv DEF CloseInv, EpochInv
<1> SUFFICES ClosedOnce' /\ \A w \in Workers : CloserIsFirst(w)'
  BY <1>1 DEF CloseInv
<1>2. CASE UNCHANGED <<epochs, closes>> /\ \A w \in Workers : closing'[w] \in {closing[w], NotClosing}
  BY <1>2 DEF CloseInv, ClosedOnce, CloserIsFirst, NotClosing
<1>3. ASSUME NEW a \in Assets, CreateEpoch(a)
      PROVE  ClosedOnce' /\ \A w \in Workers : CloserIsFirst(w)'
  <2> DEFINE row == [asset |-> a, status |-> "open"]
  <2>1. row \in Epoch /\ epochs' = Append(epochs, row) /\ closes' = Append(closes, 0) /\ closing' = closing
    BY <1>3 DEF CreateEpoch, Epoch
  <2> HIDE DEF row
  <2>2. /\ \A e \in DOMAIN epochs : epochs'[e] = epochs[e] /\ closes'[e] = closes[e]
        /\ \A e \in DOMAIN epochs' \ DOMAIN epochs : closes'[e] = 0
    BY <1>1, <2>1
  <2>3. \A w \in Workers : closing[w].step # "idle" => closing[w].epoch \in DOMAIN epochs
    BY <1>1 DEF EpochInv, CloserKnowsItsEpoch
  <2>4. ClosedOnce'
    BY <2>2 DEF CloseInv, ClosedOnce
  <2>5. \A w \in Workers : CloserIsFirst(w)'
    BY <2>1, <2>2, <2>3 DEF CloseInv, CloserIsFirst
  <2> QED
    BY <2>4, <2>5
<1>4. ASSUME NEW w \in Workers, NEW e \in DOMAIN epochs, StartClose(w, e)
      PROVE  ClosedOnce' /\ \A v \in Workers : CloserIsFirst(v)'
  <2>1. UNCHANGED <<epochs, closes>> /\ ClosedOnce'
    BY <1>4 DEF StartClose, CloseInv, ClosedOnce
  <2>2. CASE UNCHANGED closing
    BY <2>1, <2>2 DEF CloseInv, CloserIsFirst
  <2>3. CASE epochs[e].status = "open" /\ closing' = [closing EXCEPT ![w] = [step |-> "markClosed", epoch |-> e]]
    BY <1>1, <2>1, <2>3 DEF CloseInv, CloserIsFirst
  <2> QED
    BY <1>4, <2>2, <2>3 DEF StartClose
<1>5. ASSUME NEW w \in Workers, MarkClosed(w)
      PROVE  ClosedOnce' /\ \A v \in Workers : CloserIsFirst(v)'
  <2> DEFINE e == closing[w].epoch
  <2>1. e \in DOMAIN epochs /\ epochs[e].status = "open" /\ closes[e] = 0
    <3>1. e \in DOMAIN epochs /\ epochs[e].status = "open"
      BY <1>1, <1>5 DEF MarkClosed, EpochInv, CloserKnowsItsEpoch, CloseInv, CloserIsFirst
    <3>2. closes[e] \in Nat /\ ~(closes[e] > 0)
      BY <1>1, <3>1 DEF EpochInv, SuccessMeansClosed
    <3> QED
      BY <3>1, <3>2
  <2>2. closes' = closes /\ DOMAIN epochs' = DOMAIN epochs /\ ClosedOnce'
    BY <1>5 DEF MarkClosed, CloseInv, ClosedOnce
  <2>3. CASE closing' = [closing EXCEPT ![w].step = "batch"]
    BY <1>1, <2>1, <2>2, <2>3 DEF OneWorker, CloserIsFirst
  <2>4. CASE closing' = [closing EXCEPT ![w] = NotClosing]
    BY <1>1, <2>2, <2>4 DEF OneWorker, CloserIsFirst, NotClosing
  <2> QED
    BY <1>5, <2>2, <2>3, <2>4 DEF MarkClosed
<1>6. ASSUME NEW w \in Workers, BatchMatch(w)
      PROVE  ClosedOnce' /\ \A v \in Workers : CloserIsFirst(v)'
  <2> DEFINE e == closing[w].epoch
  <2>1. /\ e \in DOMAIN closes /\ closes[e] = 0 /\ epochs' = epochs
        /\ closing' = [closing EXCEPT ![w] = NotClosing]
        /\ closes' = [closes EXCEPT ![e] = @ + 1]
    BY <1>1, <1>6 DEF BatchMatch, EpochInv, CloserKnowsItsEpoch, CloseInv, CloserIsFirst
  <2>2. closes'[e] = 1 /\ \A d \in DOMAIN closes : d # e => closes'[d] = closes[d]
    BY <2>1
  <2>3. ClosedOnce'
    BY <1>1, <2>1, <2>2 DEF CloseInv, ClosedOnce
  <2>4. \A v \in Workers : CloserIsFirst(v)'
    BY <1>1, <2>1 DEF OneWorker, CloserIsFirst, NotClosing
  <2> QED
    BY <2>3, <2>4
<1> QED
  BY <1>2, <1>3, <1>4, <1>5, <1>6
     DEF EpochNext, TradeStep, CloseEpoch, EpochCrash, allVars, epochVars

\* Requests served one after the other close every epoch at most once, even when
\* statements fail and the server restarts: it is only two that race that both succeed.
THEOREM OneCloseSucceeds == ASSUME OneWorker PROVE EpochSpec => []ClosedOnce
<1>1. EpochInit => CloseInv
  BY DEF EpochInit, EpochInv, CloserKnowsItsEpoch, SuccessMeansClosed, NotClosing, CloseInv,
         ClosedOnce, CloserIsFirst
<1>2. CloseInv /\ [EpochNext]_allVars => CloseInv'
  BY CloseStepKeepsInv
<1>3. CloseInv => ClosedOnce
  BY DEF CloseInv
<1> QED
  BY <1>1, <1>2, <1>3, PTL DEF EpochSpec

-----------------------------------------------------------------------------
(* The books of a server that serves one request at a time and meets no fault *)

\* an UPDATE that worker w has yet to issue for row o
StillToWrite(w, o) ==
    \/ task[w].step = "fillOrder" /\ o \in {task[w].order, task[w].counter}
    \/ task[w].step = "fillCounter" /\ o = task[w].counter

\* A row is filled by exactly its trades, but for the one whose UPDATE is to come.
RowsFollowTrades ==
    \A o \in DOMAIN orders :
        /\ (\A w \in Workers : ~StillToWrite(w, o)) => orders[o].filled = Executed(o)
        /\ \A w \in Workers :
              StillToWrite(w, o) => orders[o].filled + TradedQty(task[w]) = Executed(o)

\* What the worker read is still in the tables.
ReadsAreFresh(w) ==
    \A o \in DOMAIN orders :
        /\ task[w].order = o /\ task[w].step \in {"cancel", "readBook", "insertTrade", "fillOrder"} =>
              IsOpen(o)
        /\ task[w].order = o /\ task[w].step \in {"readBook", "insertTrade", "fillOrder"} =>
              task[w].orderFilled = orders[o].filled
        /\ task[w].counter = o /\ task[w].step \in {"insertTrade", "fillOrder", "fillCounter"} =>
              IsOpen(o) /\ task[w].counterFilled = orders[o].filled

\* Every trade is settled, but for the one that is being executed.
TradesAreSettled ==
    \A n \in DOMAIN trades :
        (\E s \in settlements : s.trade = n) \/ (\E w \in Workers : task[w].trade = n)

BooksInv ==
    /\ TradeInv
    /\ RowsFollowTrades
    /\ \A w \in Workers : ReadsAreFresh(w)
    /\ TradesAreSettled

\* The rows a worker names are in the table.
LEMMA NamedRowsExist ==
    ASSUME TradeInv, NEW w \in Workers
    PROVE  /\ task[w] \in Task
           /\ task[w].step # "idle" => task[w].order \in DOMAIN orders
           /\ task[w].step \in {"insertTrade", "fillOrder", "fillCounter", "insertSettlement"} =>
                 /\ task[w].counter \in DOMAIN orders /\ task[w].counter # task[w].order
                 /\ TradedQty(task[w]) \in Nat \ {0}
                 /\ task[w].orderFilled + TradedQty(task[w]) <= orders[task[w].order].quantity
                 /\ task[w].counterFilled + TradedQty(task[w]) <= orders[task[w].counter].quantity
<1>1. task[w] \in Task /\ (task[w].step # "idle" => task[w].order \in DOMAIN orders)
  BY RowTypes DEF TradeInv, TasksAreCurrent, TaskIsCurrent
<1>2. ASSUME task[w].step \in {"insertTrade", "fillOrder", "fillCounter", "insertSettlement"}
      PROVE  /\ task[w].counter \in DOMAIN orders /\ task[w].counter # task[w].order
             /\ TradedQty(task[w]) \in Nat \ {0}
             /\ task[w].orderFilled + TradedQty(task[w]) <= orders[task[w].order].quantity
             /\ task[w].counterFilled + TradedQty(task[w]) <= orders[task[w].counter].quantity
  <2>1. /\ task[w].counter \in DOMAIN orders
        /\ Acceptable(task[w].order, task[w].counter)
    BY <1>2, MatcherIsSound
  <2>2. task[w].counter # task[w].order
    BY <2>1 DEF Acceptable
  <2> QED
    BY <1>2, <2>1, <2>2, MatcherIsSound, TradeIsSound DEF TradeInv
<1> QED
  BY <1>1, <1>2

\* A worker that has written no trade yet moves on and leaves the tables alone.
LEMMA MovingOnKeepsBooks ==
    ASSUME OneWorker, BooksInv, [Next]_vars, NEW w \in Workers,
           UNCHANGED <<orders, trades, settlements>>,
           task[w].step \in {"idle", "cancel", "readBook", "insertTrade"},
           task'[w].step \in {"idle", "cancel", "readBook", "insertTrade"},
           ReadsAreFresh(w)'
    PROVE  BooksInv'
<1>1. TradeInv' /\ TradeInv
  BY NextKeepsInv DEF BooksInv
<1>2. \A v \in Workers : v = w
  BY DEF OneWorker
<1>3. \A v \in Workers, o \in DOMAIN orders : ~StillToWrite(v, o) /\ ~StillToWrite(v, o)'
  BY <1>2 DEF StillToWrite
<1>4. RowsFollowTrades'
  <2> SUFFICES ASSUME NEW o \in DOMAIN orders PROVE orders[o].filled = Executed(o)'
    BY <1>3 DEF RowsFollowTrades
  <2>1. orders[o].filled = Executed(o)
    BY <1>3 DEF BooksInv, RowsFollowTrades
  <2> QED
    BY <2>1, ExecutedStays
<1>5. TradesAreSettled'
  <2>1. task[w].trade = 0
    BY <1>1 DEF TradeInv, TasksAreCurrent, TaskIsCurrent
  <2>2. 0 \notin DOMAIN trades
    BY <1>1, RowTypes DEF TradeInv
  <2> QED
    BY <1>2, <2>1, <2>2 DEF BooksInv, TradesAreSettled
<1> QED
  BY <1>1, <1>2, <1>4, <1>5 DEF BooksInv

LEMMA PlaceOrderKeepsBooks ==
    ASSUME BooksInv, NEW u \in Users, NEW a \in Assets, NEW s \in Sides,
           NEW p \in Prices, NEW q \in Quantities, PlaceOrder(u, a, s, p, q)
    PROVE  BooksInv'
<1> DEFINE row == [owner |-> u, asset |-> a, side |-> s, price |-> p,
                   quantity |-> q, filled |-> 0, status |-> "pending"]
<1>1. TradeInv /\ TradeInv' /\ RowsKept
  BY PlaceOrderKeepsInv DEF BooksInv
<1>2. /\ orders \in Seq(Order) /\ orders' = Append(orders, row) /\ row \in Order /\ row.filled = 0
      /\ UNCHANGED <<trades, settlements, task>>
  BY <1>1, TradeAssumption DEF TradeInv, TypeOK, PlaceOrder, Order, OrderStatus
<1> HIDE DEF row
<1>3. \A o \in DOMAIN orders' :
         IF o \in DOMAIN orders THEN orders'[o] = orders[o] ELSE orders'[o].filled = 0
  BY <1>2, AppendProperties, LenProperties
<1>4. ASSUME NEW w \in Workers, NEW o, StillToWrite(w, o)'
      PROVE  /\ o \in DOMAIN orders /\ StillToWrite(w, o)
             /\ TradedQty(task[w])' = TradedQty(task[w])
  BY <1>1, <1>2, <1>4, NamedRowsExist, WorkerKeepsQty DEF StillToWrite
<1>5. \A w \in Workers, o \in DOMAIN orders : StillToWrite(w, o) => StillToWrite(w, o)'
  BY <1>2 DEF StillToWrite
<1>6. RowsFollowTrades'
  <2> SUFFICES ASSUME NEW o \in DOMAIN orders'
               PROVE  /\ (\A w \in Workers : ~StillToWrite(w, o)') => orders'[o].filled = Executed(o)'
                      /\ \A w \in Workers :
                            StillToWrite(w, o)' => orders'[o].filled + TradedQty(task[w])' = Executed(o)'
    BY DEF RowsFollowTrades
  <2>1. Executed(o)' = Executed(o)
    BY <1>2, ExecutedStays
  <2>2. CASE o \in DOMAIN orders
    BY <1>3, <1>4, <1>5, <2>1, <2>2 DEF BooksInv, RowsFollowTrades
  <2>3. CASE o \notin DOMAIN orders
    BY <1>1, <1>3, <1>4, <2>1, <2>3, NothingExecuted DEF TradeInv
  <2> QED
    BY <2>2, <2>3
<1>7. ASSUME NEW w \in Workers PROVE ReadsAreFresh(w)'
  BY <1>1, <1>2, <1>3, NamedRowsExist DEF BooksInv, ReadsAreFresh, IsOpen
<1>8. TradesAreSettled'
  BY <1>2 DEF BooksInv, TradesAreSettled
<1> QED
  BY <1>1, <1>6, <1>7, <1>8 DEF BooksInv

LEMMA FinishCancelKeepsBooks ==
    ASSUME OneWorker, ~Faults, BooksInv, NEW w \in Workers, FinishCancel(w)
    PROVE  BooksInv'
<1>1. TradeInv /\ TradeInv' /\ task \in [Workers -> Task] /\ task[w].order \in DOMAIN orders
  BY FinishCancelKeepsInv, NamedRowsExist DEF BooksInv, FinishCancel, TradeInv, TypeOK
<1>2. /\ task[w].step = "cancel" /\ task'[w].step = "idle"
      /\ orders' = [orders EXCEPT ![task[w].order].status = "cancelled"]
      /\ UNCHANGED <<trades, settlements>>
      /\ \A v \in Workers : v = w
  BY <1>1 DEF FinishCancel, Idle, OneWorker
<1>3. DOMAIN orders' = DOMAIN orders /\ \A o \in DOMAIN orders : orders'[o].filled = orders[o].filled
  BY <1>1, <1>2, RowTypes DEF TradeInv, Order
<1>4. \A v \in Workers, o \in DOMAIN orders : ~StillToWrite(v, o) /\ ~StillToWrite(v, o)'
  BY <1>2 DEF StillToWrite
<1>5. RowsFollowTrades'
  <2> SUFFICES ASSUME NEW o \in DOMAIN orders PROVE orders'[o].filled = Executed(o)'
    BY <1>3, <1>4 DEF RowsFollowTrades
  <2>1. orders[o].filled = Executed(o)
    BY <1>4 DEF BooksInv, RowsFollowTrades
  <2> QED
    BY <1>2, <1>3, <2>1, ExecutedStays
<1>6. \A v \in Workers : ReadsAreFresh(v)'
  BY <1>2 DEF ReadsAreFresh
<1>7. TradesAreSettled'
  <2>1. task[w].trade = 0 /\ 0 \notin DOMAIN trades
    BY <1>1, <1>2, RowTypes DEF TradeInv, TasksAreCurrent, TaskIsCurrent
  <2> QED
    BY <1>2, <2>1 DEF BooksInv, TradesAreSettled
<1> QED
  BY <1>1, <1>5, <1>6, <1>7 DEF BooksInv

LEMMA InsertTradeKeepsBooks ==
    ASSUME OneWorker, ~Faults, BooksInv, NEW w \in Workers, InsertTrade(w)
    PROVE  BooksInv'
<1>1. TradeInv /\ TradeInv' /\ task \in [Workers -> Task] /\ task[w] \in Task
  BY InsertTradeKeepsInv, NamedRowsExist DEF BooksInv, TradeInv, TypeOK
<1>2. /\ task[w].step = "insertTrade" /\ trades' = Append(trades, TradeOf(task[w]))
      /\ task' = [task EXCEPT ![w].step = "fillOrder", ![w].trade = Len(trades) + 1]
      /\ UNCHANGED <<orders, settlements>>
      /\ \A v \in Workers : v = w
  BY DEF InsertTrade, OneWorker
<1>3. /\ task'[w].step = "fillOrder" /\ task'[w].trade = Len(trades) + 1
      /\ task'[w].order = task[w].order /\ task'[w].orderFilled = task[w].orderFilled
      /\ task'[w].counter = task[w].counter /\ task'[w].counterFilled = task[w].counterFilled
  BY <1>1, <1>2 DEF Task
<1>4. TradedQty(task[w])' = TradedQty(task[w])
  BY <1>2, <1>3 DEF TradedQty
<1>5. /\ \A v \in Workers, o \in DOMAIN orders : ~StillToWrite(v, o)
      /\ \A v \in Workers, o \in DOMAIN orders :
            StillToWrite(v, o)' <=> o \in {task[w].order, task[w].counter}
  BY <1>2, <1>3 DEF StillToWrite
<1>6. RowsFollowTrades'
  <2> SUFFICES ASSUME NEW o \in DOMAIN orders
               PROVE  IF o \in {task[w].order, task[w].counter}
                        THEN orders[o].filled + TradedQty(task[w]) = Executed(o)'
                        ELSE orders[o].filled = Executed(o)'
    BY <1>2, <1>4, <1>5 DEF RowsFollowTrades
  <2>1. orders[o].filled = Executed(o)
    BY <1>5 DEF BooksInv, RowsFollowTrades
  <2>2. /\ TradedQty(task[w]) \in Nat /\ Executed(o) \in Nat
        /\ Executed(o)' = Executed(o) + (IF o \in {task[w].order, task[w].counter}
                                         THEN TradedQty(task[w]) ELSE 0)
    BY <1>1, <1>2, InsertedTradeCounts
  <2> QED
    BY <2>1, <2>2
<1>7. \A v \in Workers : ReadsAreFresh(v)'
  <2>1. /\ orders' = orders /\ task[w].step = "insertTrade" /\ ReadsAreFresh(w)
        /\ \A o \in DOMAIN orders : IsOpen(o)' <=> IsOpen(o)
    BY <1>2 DEF BooksInv, IsOpen
  <2>2. ReadsAreFresh(w)'
    BY <1>3, <2>1 DEF ReadsAreFresh
  <2> QED
    BY <1>2, <2>2
<1>8. TradesAreSettled'
  <2>1. /\ trades \in Seq(Trade) /\ TradeOf(task[w]) \in Trade
        /\ DOMAIN trades = 1 .. Len(trades) /\ Len(trades) \in Nat
    BY <1>1, <1>2, RowTypes, MatcherIsSound, TradeIsSound DEF TradeInv, TypeOK
  <2>2. \A n \in DOMAIN trades' : n \in DOMAIN trades \/ n = Len(trades) + 1
    BY <1>2, <2>1, AppendProperties, LenProperties
  <2>3. task[w].trade \notin DOMAIN trades
    <3>1. task[w].trade = 0
      BY <1>1, <1>2 DEF TradeInv, TasksAreCurrent, TaskIsCurrent
    <3> QED
      BY <2>1, <3>1
  <2>4. \A n \in DOMAIN trades : \E s \in settlements : s.trade = n
    BY <1>2, <2>3 DEF BooksInv, TradesAreSettled
  <2>5. task'[w].trade = Len(trades) + 1 /\ settlements' = settlements
    BY <1>2, <1>3
  <2> QED
    BY <2>2, <2>4, <2>5 DEF TradesAreSettled
<1> QED
  BY <1>1, <1>6, <1>7, <1>8 DEF BooksInv

\* The UPDATE of one of the two rows: it writes what the trades say, and the other row
\* is left as it is.
LEMMA FillKeepsBooks ==
    ASSUME OneWorker, BooksInv, TradeInv', NEW w \in Workers,
           task[w].step \in {"fillOrder", "fillCounter"},
           NEW next \in {"fillCounter", "insertSettlement"},
           task' = [task EXCEPT ![w].step = next],
           UNCHANGED <<trades, settlements>>,
           NEW o \in DOMAIN orders, StillToWrite(w, o),
           NEW f \in Nat \ {0}, f <= orders[o].quantity, Fill(o, f),
           f = orders[o].filled + TradedQty(task[w]),
           \A p \in DOMAIN orders : StillToWrite(w, p)' <=> StillToWrite(w, p) /\ p # o
    PROVE  BooksInv' /\ DOMAIN orders' = DOMAIN orders /\ RowsKept
           /\ \A p \in DOMAIN orders : orders'[p].status = "cancelled" <=> orders[p].status = "cancelled"
<1>1. /\ TradeInv /\ task \in [Workers -> Task] /\ task[w] \in Task
      /\ \A v \in Workers : v = w
  BY NamedRowsExist DEF BooksInv, TradeInv, TypeOK, OneWorker
<1>2. /\ DOMAIN orders' = DOMAIN orders /\ RowsKept
      /\ \A p \in DOMAIN orders \ {o} : orders'[p] = orders[p]
  BY <1>1, FillKeeps DEF TradeInv
<1>3. orders'[o].filled = f /\ orders'[o].status \in {"filled", "partial"}
  BY <1>1, RowTypes DEF Fill, Order, TradeInv
<1>4. /\ task'[w].step = next /\ task'[w].trade = task[w].trade
      /\ task'[w].order = task[w].order /\ task'[w].orderFilled = task[w].orderFilled
      /\ task'[w].counter = task[w].counter /\ task'[w].counterFilled = task[w].counterFilled
  BY <1>1 DEF Task
<1>5. /\ task[w].order \in DOMAIN orders /\ task[w].counter \in DOMAIN orders
      /\ task[w].counter # task[w].order
  BY <1>1, NamedRowsExist
<1>6. TradedQty(task[w])' = TradedQty(task[w])
  BY <1>2, <1>4, <1>5, WorkerKeepsQty
<1>7. RowsFollowTrades'
  <2> SUFFICES ASSUME NEW p \in DOMAIN orders
               PROVE  /\ ~StillToWrite(w, p)' => orders'[p].filled = Executed(p)'
                      /\ StillToWrite(w, p)' => orders'[p].filled + TradedQty(task[w]) = Executed(p)'
    BY <1>1, <1>2, <1>6 DEF RowsFollowTrades
  <2>1. Executed(p)' = Executed(p)
    BY ExecutedStays
  <2>2. CASE p = o
    BY <1>3, <2>1, <2>2 DEF BooksInv, RowsFollowTrades
  <2>3. CASE p # o
    BY <1>1, <1>2, <2>1, <2>3 DEF BooksInv, RowsFollowTrades
  <2> QED
    BY <2>2, <2>3
<1>8. ReadsAreFresh(w)'
  <2>1. next = "fillCounter" => task[w].counter # o
    BY <1>4, <1>5 DEF StillToWrite
  <2> QED
    BY <1>2, <1>4, <1>5, <2>1 DEF BooksInv, ReadsAreFresh, IsOpen
<1>9. TradesAreSettled'
  BY <1>1, <1>4 DEF BooksInv, TradesAreSettled
<1>10. orders[o].status # "cancelled"
  BY DEF BooksInv, ReadsAreFresh, StillToWrite, IsOpen, OpenStatus
<1> QED
  BY <1>1, <1>2, <1>3, <1>7, <1>8, <1>9, <1>10 DEF BooksInv

LEMMA FillOrderKeepsBooks ==
    ASSUME OneWorker, ~Faults, BooksInv, NEW w \in Workers, FillOrder(w)
    PROVE  BooksInv' /\ DOMAIN orders' = DOMAIN orders /\ RowsKept
           /\ \A p \in DOMAIN orders : orders'[p].status = "cancelled" <=> orders[p].status = "cancelled"
<1> DEFINE o == task[w].order
           f == task[w].orderFilled + TradedQty(task[w])
<1>1. /\ TradeInv' /\ task \in [Workers -> Task] /\ task[w] \in Task
  BY FillOrderKeepsInv, NamedRowsExist DEF BooksInv, TradeInv, TypeOK
<1>2. /\ task[w].step = "fillOrder" /\ Fill(o, f)
      /\ task' = [task EXCEPT ![w].step = "fillCounter"]
      /\ UNCHANGED <<trades, settlements>>
  BY DEF FillOrder
<1>3. /\ o \in DOMAIN orders /\ task[w].counter # o /\ f <= orders[o].quantity
      /\ TradedQty(task[w]) \in Nat \ {0}
  BY <1>2, NamedRowsExist DEF BooksInv
<1>4. task[w].orderFilled = orders[o].filled
  BY <1>2, <1>3 DEF BooksInv, ReadsAreFresh
<1>5. f \in Nat \ {0}
  BY <1>1, <1>3 DEF Task
<1>6. StillToWrite(w, o)
  BY <1>2 DEF StillToWrite
<1>7. \A p \in DOMAIN orders : StillToWrite(w, p)' <=> StillToWrite(w, p) /\ p # o
  <2>1. /\ task'[w].step = "fillCounter"
        /\ task'[w].order = task[w].order /\ task'[w].counter = task[w].counter
    BY <1>1, <1>2 DEF Task
  <2> QED
    BY <1>2, <1>3, <2>1 DEF StillToWrite
<1>8. f = orders[o].filled + TradedQty(task[w])
  BY <1>4
<1> HIDE DEF o, f
<1> QED
  BY <1>1, <1>2, <1>3, <1>5, <1>6, <1>7, <1>8, FillKeepsBooks

LEMMA FillCounterKeepsBooks ==
    ASSUME OneWorker, ~Faults, BooksInv, NEW w \in Workers, FillCounter(w)
    PROVE  BooksInv' /\ DOMAIN orders' = DOMAIN orders /\ RowsKept
           /\ \A p \in DOMAIN orders : orders'[p].status = "cancelled" <=> orders[p].status = "cancelled"
<1> DEFINE o == task[w].counter
           f == task[w].counterFilled + TradedQty(task[w])
<1>1. /\ TradeInv' /\ task \in [Workers -> Task] /\ task[w] \in Task
  BY FillCounterKeepsInv, NamedRowsExist DEF BooksInv, TradeInv, TypeOK
<1>2. /\ task[w].step = "fillCounter" /\ Fill(o, f)
      /\ task' = [task EXCEPT ![w].step = "insertSettlement"]
      /\ UNCHANGED <<trades, settlements>>
  BY DEF FillCounter
<1>3. /\ o \in DOMAIN orders /\ f <= orders[o].quantity
      /\ TradedQty(task[w]) \in Nat \ {0}
  BY <1>2, NamedRowsExist DEF BooksInv
<1>4. task[w].counterFilled = orders[o].filled
  BY <1>2, <1>3 DEF BooksInv, ReadsAreFresh
<1>5. f \in Nat \ {0}
  BY <1>1, <1>3 DEF Task
<1>6. StillToWrite(w, o)
  BY <1>2 DEF StillToWrite
<1>7. \A p \in DOMAIN orders : StillToWrite(w, p)' <=> StillToWrite(w, p) /\ p # o
  <2>1. task'[w].step = "insertSettlement"
    BY <1>1, <1>2 DEF Task
  <2> QED
    BY <1>2, <2>1 DEF StillToWrite
<1>8. f = orders[o].filled + TradedQty(task[w])
  BY <1>4
<1> HIDE DEF o, f
<1> QED
  BY <1>1, <1>2, <1>3, <1>5, <1>6, <1>7, <1>8, FillKeepsBooks

LEMMA InsertSettlementKeepsBooks ==
    ASSUME OneWorker, ~Faults, BooksInv, NEW w \in Workers, InsertSettlement(w)
    PROVE  BooksInv'
<1>1. TradeInv' /\ task \in [Workers -> Task]
  BY InsertSettlementKeepsInv DEF BooksInv, TradeInv, TypeOK
<1>2. /\ task[w].step = "insertSettlement" /\ task'[w].step = "idle"
      /\ settlements' = settlements \cup {SettlementOf(task[w].trade, TradeOf(task[w]))}
      /\ UNCHANGED <<orders, trades>> /\ \A v \in Workers : v = w
  BY <1>1 DEF InsertSettlement, Idle, OneWorker
<1>3. \A v \in Workers, o \in DOMAIN orders : ~StillToWrite(v, o) /\ ~StillToWrite(v, o)'
  BY <1>2 DEF StillToWrite
<1>4. RowsFollowTrades'
  <2> SUFFICES ASSUME NEW o \in DOMAIN orders PROVE orders[o].filled = Executed(o)'
    BY <1>2, <1>3 DEF RowsFollowTrades
  <2>1. orders[o].filled = Executed(o)
    BY <1>3 DEF BooksInv, RowsFollowTrades
  <2> QED
    BY <1>2, <2>1, ExecutedStays
<1>5. \A v \in Workers : ReadsAreFresh(v)'
  BY <1>2 DEF ReadsAreFresh
<1>6. TradesAreSettled'
  <2>1. \E s \in settlements' : s.trade = task[w].trade
    <3> DEFINE new == SettlementOf(task[w].trade, TradeOf(task[w]))
    <3>1. new.trade = task[w].trade
      BY DEF SettlementOf
    <3>2. new \in settlements'
      BY <1>2
    <3> HIDE DEF new
    <3> QED
      BY <3>1, <3>2
  <2> QED
    BY <1>2, <2>1 DEF BooksInv, TradesAreSettled
<1> QED
  BY <1>1, <1>4, <1>5, <1>6 DEF BooksInv

\* The steps before the first INSERT only look at the tables.
LEMMA LookingKeepsBooks ==
    ASSUME OneWorker, ~Faults, BooksInv, [Next]_vars, NEW w \in Workers,
           \/ \E u \in Users, o \in DOMAIN orders : StartCancel(w, u, o)
           \/ \E o \in DOMAIN orders : StartMatch(w, o)
           \/ ReadBook(w)
    PROVE  BooksInv' /\ UNCHANGED <<orders, trades, settlements>>
<1>1. /\ task \in [Workers -> Task] /\ task[w] \in Task /\ ReadsAreFresh(w)
      /\ \A o \in DOMAIN orders : IsOpen(o)' <=> orders'[o].status \in OpenStatus
  BY NamedRowsExist DEF BooksInv, TradeInv, TypeOK, IsOpen
<1>2. ASSUME NEW u \in Users, NEW o \in DOMAIN orders, StartCancel(w, u, o)
      PROVE  BooksInv' /\ UNCHANGED <<orders, trades, settlements>>
  <2>1. task[w].step = "idle" /\ UNCHANGED <<orders, trades, settlements>>
    BY <1>2 DEF StartCancel
  <2>2. CASE task' = task
    <3>1. ReadsAreFresh(w)' /\ task'[w].step = "idle"
      BY <2>1, <2>2 DEF ReadsAreFresh
    <3> QED
      BY <2>1, <3>1, MovingOnKeepsBooks
  <2>3. CASE IsOpen(o) /\ task' = [task EXCEPT ![w] = [Idle EXCEPT !.step = "cancel", !.order = o]]
    <3>1. task'[w].step = "cancel" /\ task'[w].order = o
      BY <1>1, <2>3 DEF Idle
    <3>2. ReadsAreFresh(w)'
      BY <1>1, <2>1, <2>3, <3>1 DEF ReadsAreFresh, IsOpen
    <3> QED
      BY <2>1, <3>1, <3>2, MovingOnKeepsBooks
  <2> QED
    BY <1>2, <2>2, <2>3 DEF StartCancel
<1>3. ASSUME NEW o \in DOMAIN orders, StartMatch(w, o)
      PROVE  BooksInv' /\ UNCHANGED <<orders, trades, settlements>>
  <2>1. /\ task[w].step = "idle" /\ UNCHANGED <<orders, trades, settlements>> /\ IsOpen(o)
        /\ task'[w].step = "readBook" /\ task'[w].order = o /\ task'[w].orderFilled = orders[o].filled
    BY <1>1, <1>3 DEF StartMatch, Idle
  <2>2. ReadsAreFresh(w)'
    BY <1>1, <2>1 DEF ReadsAreFresh, IsOpen
  <2> QED
    BY <2>1, <2>2, MovingOnKeepsBooks
<1>4. ASSUME ReadBook(w)
      PROVE  BooksInv' /\ UNCHANGED <<orders, trades, settlements>>
  <2>1. task[w].step = "readBook" /\ UNCHANGED <<orders, trades, settlements>>
    BY <1>4 DEF ReadBook
  <2>2. CASE task' = [task EXCEPT ![w] = Idle]
    <3>1. task'[w].step = "idle"
      BY <1>1, <2>2 DEF Idle
    <3>2. ReadsAreFresh(w)'
      BY <3>1 DEF ReadsAreFresh
    <3> QED
      BY <2>1, <3>1, <3>2, MovingOnKeepsBooks
  <2>3. ASSUME NEW c \in Counters(task[w].order),
               task' = [task EXCEPT ![w].step = "insertTrade", ![w].counter = c,
                                    ![w].counterFilled = orders[c].filled]
        PROVE  BooksInv' /\ UNCHANGED <<orders, trades, settlements>>
    <3>1. /\ task'[w].step = "insertTrade" /\ task'[w].order = task[w].order
          /\ task'[w].orderFilled = task[w].orderFilled
          /\ task'[w].counter = c /\ task'[w].counterFilled = orders[c].filled
      BY <1>1, <2>3 DEF Task
    <3>2. IsOpen(c)
      BY DEF Counters, OpenOrders, Pending, IsOpen, OpenStatus
    <3>3. ReadsAreFresh(w)'
      BY <1>1, <2>1, <3>1, <3>2 DEF ReadsAreFresh, IsOpen
    <3> QED
      BY <2>1, <3>1, <3>3, MovingOnKeepsBooks
  <2> QED
    BY <1>4, <2>2, <2>3 DEF ReadBook
<1> QED
  BY <1>2, <1>3, <1>4

LEMMA StepKeepsBooks ==
    ASSUME OneWorker, ~Faults, BooksInv, [Next]_vars
    PROVE  BooksInv'
<1>1. CASE UNCHANGED vars
  <2>1. TradeInv'
    BY NextKeepsInv DEF BooksInv
  <2>2. \A o \in DOMAIN orders : Executed(o)' = Executed(o)
    BY <1>1, ExecutedStays DEF vars
  <2>3. /\ \A w \in Workers, o \in DOMAIN orders : StillToWrite(w, o)' <=> StillToWrite(w, o)
        /\ \A w \in Workers : TradedQty(task[w])' = TradedQty(task[w])
        /\ \A o \in DOMAIN orders : IsOpen(o)' <=> IsOpen(o)
    BY <1>1 DEF vars, StillToWrite, TradedQty, IsOpen
  <2>4. RowsFollowTrades'
    BY <1>1, <2>2, <2>3 DEF vars, BooksInv, RowsFollowTrades
  <2>5. \A w \in Workers : ReadsAreFresh(w)'
    BY <1>1, <2>3 DEF vars, BooksInv, ReadsAreFresh
  <2>6. TradesAreSettled'
    BY <1>1 DEF vars, BooksInv, TradesAreSettled
  <2> QED
    BY <2>1, <2>4, <2>5, <2>6 DEF BooksInv
<1> QED
  BY <1>1, PlaceOrderKeepsBooks, FinishCancelKeepsBooks, InsertTradeKeepsBooks, FillOrderKeepsBooks,
     FillCounterKeepsBooks, InsertSettlementKeepsBooks, LookingKeepsBooks
     DEF Next, CancelOrder, MatchOrder, Crash

LEMMA InitBooks == Init => BooksInv
<1> SUFFICES ASSUME Init PROVE BooksInv
  OBVIOUS
<1> QED
  BY InitTradeInv DEF Init, BooksInv, RowsFollowTrades, ReadsAreFresh, TradesAreSettled

\* One request at a time and no fault: an order at rest is filled by exactly its trades,
\* and every trade is settled, for any number of users, assets, orders and trades.
THEOREM BooksBalance == ASSUME OneWorker, ~Faults PROVE Spec => []BooksBalanceAtRest
<1>1. BooksInv /\ [Next]_vars => BooksInv'
  BY StepKeepsBooks
<1>2. BooksInv => BooksBalanceAtRest
  <2> SUFFICES ASSUME BooksInv, \A w \in Workers : task[w].step = "idle"
               PROVE  /\ \A o \in DOMAIN orders : orders[o].filled = Executed(o)
                      /\ {s.trade : s \in settlements} = DOMAIN trades
    BY DEF BooksBalanceAtRest, Busy
  <2>1. \A o \in DOMAIN orders : orders[o].filled = Executed(o)
    BY DEF BooksInv, RowsFollowTrades, StillToWrite
  <2>2. \A w \in Workers : task[w].trade = 0
    BY DEF BooksInv, TradeInv, TasksAreCurrent, TaskIsCurrent
  <2>3. 0 \notin DOMAIN trades
    BY RowTypes DEF BooksInv, TradeInv
  <2>4. \A n \in DOMAIN trades : \E s \in settlements : s.trade = n
    BY <2>2, <2>3 DEF BooksInv, TradesAreSettled
  <2>5. \A s \in settlements : s.trade \in DOMAIN trades
    BY DEF BooksInv, TradeInv, SettlementsMirrorTrades
  <2> QED
    BY <2>1, <2>4, <2>5
<1> QED
  BY <1>1, <1>2, InitBooks, PTL DEF Spec

\* "OrderFilled ... fully traded" (model.go:31) is true of a server without races and
\* faults: an order at rest that is marked filled was traded in exactly its quantity.
THEOREM FilledIsTraded == ASSUME OneWorker, ~Faults PROVE Spec => []FilledMeansFullyTraded
<1>1. BooksBalanceAtRest /\ FillsAgreeWithStatus => FilledMeansFullyTraded
  BY DEF BooksBalanceAtRest, FillsAgreeWithStatus, FilledMeansFullyTraded
<1> QED
  BY <1>1, BooksBalance, FillsAgree, PTL

\* The rows that a lone worker is to write are open: it saw them so, and nobody else
\* writes rows.  This needs no luck with statements and no uptime, so it is kept apart
\* from ReadsAreFresh.
WritesOpenRows(w) ==
    \A o \in DOMAIN orders :
        \/ task[w].order = o /\ task[w].step \in {"cancel", "readBook", "insertTrade", "fillOrder"}
        \/ task[w].counter = o /\ task[w].step \in {"insertTrade", "fillOrder", "fillCounter"}
        => IsOpen(o)

CancelInv == TradeInv /\ \A w \in Workers : WritesOpenRows(w)

\* A step of the only worker leaves what it is still to write open.
LEMMA StepWritesOpenRows ==
    ASSUME OneWorker, CancelInv, Next, NEW w \in Workers
    PROVE  WritesOpenRows(w)'
<1>1. /\ TradeInv /\ task \in [Workers -> Task] /\ orders \in Seq(Order) /\ WritesOpenRows(w)
      /\ \A v \in Workers : v = w
  BY DEF CancelInv, OneWorker, TradeInv, TypeOK
<1>2. task[w] \in Task
  BY <1>1
<1>3. ASSUME NEW u \in Users, NEW a \in Assets, NEW s \in Sides, NEW p \in Prices,
             NEW q \in Quantities, PlaceOrder(u, a, s, p, q)
      PROVE  WritesOpenRows(w)'
  BY <1>1, <1>3, AppendProperties, LenProperties DEF PlaceOrder, WritesOpenRows, IsOpen, OpenStatus
<1>4. CASE CancelOrder(w)
  <2>1. ASSUME NEW u \in Users, NEW o \in DOMAIN orders, StartCancel(w, u, o)
        PROVE  WritesOpenRows(w)'
    BY <1>1, <1>2, <2>1 DEF StartCancel, WritesOpenRows, IsOpen, Idle
  <2>2. FinishCancel(w) => WritesOpenRows(w)'
    BY <1>1 DEF FinishCancel, WritesOpenRows, Idle
  <2> QED
    BY <1>4, <2>1, <2>2 DEF CancelOrder
<1>5. ASSUME NEW o \in DOMAIN orders, StartMatch(w, o)
      PROVE  WritesOpenRows(w)'
  BY <1>1, <1>5 DEF StartMatch, WritesOpenRows, IsOpen, Idle
<1>6. CASE ReadBook(w)
  <2>1. CASE task' = [task EXCEPT ![w] = Idle]
    BY <1>1, <2>1 DEF WritesOpenRows, Idle
  <2>2. ASSUME NEW c \in Counters(task[w].order),
               task' = [task EXCEPT ![w].step = "insertTrade", ![w].counter = c,
                                    ![w].counterFilled = orders[c].filled]
        PROVE  WritesOpenRows(w)'
    <3>1. IsOpen(c)
      BY DEF Counters, OpenOrders, Pending, IsOpen, OpenStatus
    <3>2. task'[w].order = task[w].order /\ task'[w].counter = c
      BY <1>1, <1>2, <2>2 DEF Task
    <3> QED
      BY <1>1, <1>6, <3>1, <3>2 DEF ReadBook, WritesOpenRows, IsOpen
  <2> QED
    BY <1>6, <2>1, <2>2, Zenon DEF ReadBook
<1>7. CASE InsertTrade(w)
  BY <1>1, <1>2, <1>7 DEF InsertTrade, WritesOpenRows, IsOpen, Idle, Task
<1>8. CASE FillOrder(w)
  <2>1. task[w].counter # task[w].order
    BY <1>1, <1>8, NamedRowsExist DEF FillOrder
  <2>2. /\ task'[w].step = "fillCounter" /\ task'[w].counter = task[w].counter
        /\ task[w].step = "fillOrder"
    BY <1>1, <1>2, <1>8 DEF FillOrder, Task
  <2>3. DOMAIN orders' = DOMAIN orders /\ \A o \in DOMAIN orders \ {task[w].order} : orders'[o] = orders[o]
    BY <1>8 DEF FillOrder, Fill
  <2> QED
    BY <1>1, <2>1, <2>2, <2>3 DEF WritesOpenRows, IsOpen
<1>9. CASE FillCounter(w) \/ InsertSettlement(w)
  BY <1>1, <1>2, <1>9 DEF FillCounter, InsertSettlement, WritesOpenRows, Idle, Task
<1>10. CASE Crash
  BY <1>10 DEF Crash, WritesOpenRows, Idle
<1> QED
  BY <1>1, <1>3, <1>4, <1>5, <1>6, <1>7, <1>8, <1>9, <1>10 DEF Next, MatchOrder

\* "CancelOrder cancels a pending order" (service.go:58) for good, when requests are
\* served one after the other, even if statements fail and the server restarts.
THEOREM CancelledForGood == ASSUME OneWorker PROVE Spec => CancelledStaysCancelled
<1> DEFINE Stays == \A o \in DOMAIN orders :
                       orders[o].status = "cancelled" => orders'[o].status = "cancelled"
<1>1. Init => CancelInv
  BY InitTradeInv DEF Init, CancelInv, WritesOpenRows
<1>2. CancelInv /\ [Next]_vars => CancelInv'
  <2>1. CancelInv /\ UNCHANGED vars => \A w \in Workers : WritesOpenRows(w)'
    BY DEF CancelInv, WritesOpenRows, IsOpen, vars
  <2> QED
    BY <2>1, NextKeepsInv, StepWritesOpenRows DEF CancelInv
<1>3. CancelInv /\ [Next]_vars => [Stays]_vars
  <2> SUFFICES ASSUME CancelInv, Next, NEW o \in DOMAIN orders, orders[o].status = "cancelled"
               PROVE  orders'[o].status = "cancelled"
    BY DEF vars
  <2>1. orders \in Seq(Order) /\ ~IsOpen(o) /\ orders[o] \in Order
    BY DEF CancelInv, TradeInv, TypeOK, IsOpen, OpenStatus
  <2>2. ASSUME NEW w \in Workers, CancelOrder(w)
        PROVE  orders'[o].status = "cancelled"
    BY <2>1, <2>2 DEF CancelOrder, StartCancel, FinishCancel, Order
  <2>3. ASSUME NEW w \in Workers, FillOrder(w) \/ FillCounter(w)
        PROVE  orders'[o] = orders[o]
    BY <2>1, <2>3 DEF CancelInv, WritesOpenRows, FillOrder, FillCounter, Fill
  <2>4. ASSUME NEW w \in Workers, MatchOrder(w)
        PROVE  orders'[o].status = "cancelled"
    BY <2>3, <2>4 DEF MatchOrder, StartMatch, ReadBook, InsertTrade, InsertSettlement
  <2>5. ASSUME NEW u \in Users, NEW a \in Assets, NEW s \in Sides, NEW p \in Prices,
               NEW q \in Quantities, PlaceOrder(u, a, s, p, q)
        PROVE  orders'[o] = orders[o]
    BY <2>1, <2>5, AppendProperties, LenProperties DEF PlaceOrder
  <2> QED
    BY <2>2, <2>4, <2>5 DEF Next, Crash
<1> QED
  BY <1>1, <1>2, <1>3, PTL DEF Spec, CancelledStaysCancelled

-----------------------------------------------------------------------------
(* The order book of OrderBook.tla is implemented *)

\* A function on 1 .. n + 1 that agrees with f on 1 .. n is f with an element appended.
LEMMA AppendedFunction ==
    ASSUME NEW S, NEW n \in Nat, NEW f \in [1 .. n -> S], NEW g \in [1 .. n + 1 -> S],
           \A i \in 1 .. n : g[i] = f[i]
    PROVE  g = Append(f, g[n + 1])
<1>1. f \in Seq(S) /\ g \in Seq(S)
  BY SeqDef
<1>2. Len(f) = n /\ Len(g) = n + 1
  BY <1>1, LenProperties
<1>3. g[n + 1] \in S
  OBVIOUS
<1> DEFINE h == Append(f, g[n + 1])
<1>4. /\ h \in Seq(S) /\ Len(h) = n + 1 /\ h[n + 1] = g[n + 1]
      /\ \A i \in 1 .. n : h[i] = f[i]
  BY <1>1, <1>2, <1>3, AppendProperties
<1> HIDE DEF h
<1>5. \A i \in 1 .. Len(g) : g[i] = h[i]
  BY <1>2, <1>4
<1>6. g = h
  BY <1>1, <1>2, <1>4, <1>5, SeqEqual
<1> QED
  BY <1>6 DEF h

\* The refinement mapping, by name.
BookRow(o) == [owner |-> orders[o].owner, asset |-> orders[o].asset, side |-> orders[o].side,
               price |-> orders[o].price, quantity |-> orders[o].quantity]
BookRows == [o \in DOMAIN orders |-> BookRow(o)]
BookExecuted == [o \in DOMAIN orders |-> Executed(o)]
BookWithdrawn == {o \in DOMAIN orders : orders[o].status = "cancelled"}

\* A step that keeps the rows, the trades and who cancelled is invisible in the book.
LEMMA InvisibleStep ==
    ASSUME RowsKept, DOMAIN orders' = DOMAIN orders, trades' = trades,
           \A o \in DOMAIN orders : orders'[o].status = "cancelled" <=> orders[o].status = "cancelled"
    PROVE  UNCHANGED <<BookRows, BookExecuted, BookWithdrawn>>
<1>1. \A o \in DOMAIN orders : BookRow(o)' = BookRow(o)
  BY DEF RowsKept, BookRow
<1>2. \A o \in DOMAIN orders : Executed(o)' = Executed(o)
  BY ExecutedStays
<1> QED
  BY <1>1, <1>2 DEF BookRows, BookExecuted, BookWithdrawn

LEMMA PlaceOrderPlaces ==
    ASSUME BooksInv, NEW u \in Users, NEW a \in Assets, NEW s \in Sides,
           NEW p \in Prices, NEW q \in Quantities, PlaceOrder(u, a, s, p, q)
    PROVE  Book!Place
<1> DEFINE row == [owner |-> u, asset |-> a, side |-> s, price |-> p,
                   quantity |-> q, filled |-> 0, status |-> "pending"]
           placed == [owner |-> u, asset |-> a, side |-> s, price |-> p, quantity |-> q]
           R == [owner : Users, asset : Assets, side : Sides, price : Prices, quantity : Quantities]
<1>1. /\ TradeInv /\ orders \in Seq(Order) /\ orders' = Append(orders, row) /\ row \in Order
      /\ trades' = trades /\ placed \in R
  BY TradeAssumption DEF BooksInv, TradeInv, TypeOK, PlaceOrder, Order, OrderStatus
<1>2. /\ row.owner = u /\ row.asset = a /\ row.side = s /\ row.price = p /\ row.quantity = q
      /\ row.status = "pending"
  OBVIOUS
<1> HIDE DEF row
<1> PICK n \in Nat : n = Len(orders)
  BY <1>1, LenProperties
<1>3. /\ n \in Nat /\ DOMAIN orders = 1 .. n /\ DOMAIN orders' = 1 .. n + 1
      /\ \A o \in 1 .. n : orders'[o] = orders[o]
      /\ orders'[n + 1] = row
  BY <1>1, AppendProperties, LenProperties
<1>4. \A o \in 1 .. n + 1 : Executed(o)' = Executed(o) /\ Executed(o) \in Nat
  BY <1>1, ExecutedStays, ExecutedIsNat DEF TradeInv
<1>5. Executed(n + 1) = 0
  <2>1. n + 1 \notin DOMAIN orders
    BY <1>3
  <2> QED
    BY <1>1, <2>1, NothingExecuted DEF TradeInv
<1>6. /\ BookExecuted \in [1 .. n -> Nat] /\ BookExecuted' \in [1 .. n + 1 -> Nat]
      /\ \A o \in 1 .. n : BookExecuted'[o] = BookExecuted[o]
      /\ BookExecuted'[n + 1] = 0
  BY <1>3, <1>4, <1>5 DEF BookExecuted
<1>7. BookExecuted' = Append(BookExecuted, 0)
  BY <1>3, <1>6, AppendedFunction
<1>8. /\ \A o \in 1 .. n : BookRow(o) \in R /\ BookRow(o)' = BookRow(o)
      /\ BookRow(n + 1)' = placed
  <2>1. \A o \in 1 .. n : BookRow(o)' = BookRow(o)
    BY <1>3 DEF BookRow
  <2>2. \A o \in 1 .. n : BookRow(o) \in R
    BY <1>1, <1>3, RowTypes DEF BookRow, TradeInv, Order
  <2>3. BookRow(n + 1)' = placed
    BY <1>2, <1>3 DEF BookRow
  <2> QED
    BY <2>1, <2>2, <2>3
<1> HIDE DEF R, placed
<1>9. /\ BookRows \in [1 .. n -> R] /\ BookRows' \in [1 .. n + 1 -> R]
      /\ \A o \in 1 .. n : BookRows'[o] = BookRows[o]
      /\ BookRows'[n + 1] = placed
  <2>1. /\ BookRows = [o \in 1 .. n |-> BookRow(o)]
        /\ BookRows' = [o \in 1 .. n + 1 |-> BookRow(o)']
    BY <1>3 DEF BookRows
  <2>2. \A o \in 1 .. n + 1 : o \in 1 .. n \/ o = n + 1
    OBVIOUS
  <2>3. \A o \in 1 .. n + 1 : BookRow(o)' \in R
    BY <1>1, <1>8, <2>2
  <2> QED
    BY <1>8, <2>1, <2>3
<1>10. BookRows' = Append(BookRows, placed)
  BY <1>3, <1>9, AppendedFunction
<1>11. BookWithdrawn' = BookWithdrawn
  BY <1>2, <1>3 DEF BookWithdrawn
<1> SUFFICES \E x \in Users, y \in Assets, z \in {"buy", "sell"}, v \in Prices, r \in Quantities :
                BookRows' = Append(BookRows, [owner |-> x, asset |-> y, side |-> z, price |-> v,
                                              quantity |-> r])
  BY <1>7, <1>11 DEF Book!Place, BookRows, BookRow, BookExecuted, BookWithdrawn
<1> QED
  BY <1>10, Zenon DEF placed, Sides

LEMMA CancelWithdraws ==
    ASSUME OneWorker, ~Faults, BooksInv, NEW w \in Workers, FinishCancel(w)
    PROVE  \E o \in DOMAIN orders : Book!Withdraw(o)
<1>1. PICK o \in DOMAIN orders :
        /\ o = task[w].order /\ task[w].step = "cancel" /\ trades' = trades
        /\ orders' = [orders EXCEPT ![o].status = "cancelled"]
  BY NamedRowsExist DEF BooksInv, FinishCancel
<1>2. TradeInv /\ orders[o] \in Order /\ orders[o].quantity \in Nat \ {0}
  BY <1>1, RowTypes, TradeAssumption DEF BooksInv, TradeInv, Order
<1>3. IsOpen(o)
  BY <1>1 DEF BooksInv, ReadsAreFresh
<1>4. orders[o].filled < orders[o].quantity /\ orders[o].status # "cancelled"
  BY <1>1, <1>2, <1>3 DEF IsOpen, OpenStatus, TradeInv, FillsAgreeWithStatus
<1>5. orders[o].filled = Executed(o)
  BY <1>1 DEF BooksInv, RowsFollowTrades, StillToWrite, OneWorker
<1>6. RowsKept /\ DOMAIN orders' = DOMAIN orders
  BY <1>1, <1>2, CancelKeeps DEF TradeInv
<1>7. /\ \A p \in DOMAIN orders : BookRow(p)' = BookRow(p) /\ Executed(p)' = Executed(p)
  BY <1>1, <1>6, ExecutedStays DEF RowsKept, BookRow
<1>8. BookRows' = BookRows /\ BookExecuted' = BookExecuted
  BY <1>6, <1>7 DEF BookRows, BookExecuted
<1>9. BookWithdrawn' = BookWithdrawn \cup {o}
  BY <1>1, <1>2 DEF BookWithdrawn, Order
<1>10. /\ o \notin BookWithdrawn
       /\ BookRows[o].quantity - BookExecuted[o] > 0
  <2>1. /\ BookRows[o].quantity = orders[o].quantity /\ BookExecuted[o] = orders[o].filled
        /\ orders[o].filled \in Nat
    BY <1>1, <1>2, <1>5 DEF BookRows, BookRow, BookExecuted, Order
  <2> QED
    BY <1>1, <1>2, <1>4, <2>1 DEF BookWithdrawn
<1>11. Book!Withdraw(o)
  BY <1>8, <1>9, <1>10 DEF Book!Withdraw, Book!Live, Book!Left, BookRows, BookRow, BookExecuted, BookWithdrawn
<1> QED
  BY <1>1, <1>11

LEMMA InsertTradeDeals ==
    ASSUME OneWorker, ~Faults, BooksInv, NEW w \in Workers, InsertTrade(w)
    PROVE  \E b, s \in DOMAIN orders : \E q \in 1 .. orders[b].quantity : Book!Deal(b, s, q)
<1> DEFINE x == TradeOf(task[w])
           q == TradedQty(task[w])
<1>1. /\ task[w].step = "insertTrade" /\ trades' = Append(trades, x) /\ orders' = orders /\ TradeInv
  BY DEF InsertTrade, BooksInv
<1>2. PICK b \in DOMAIN orders, s \in DOMAIN orders :
        /\ b = x.buyOrder /\ s = x.sellOrder
        /\ orders[b].side = "buy" /\ orders[s].side = "sell"
        /\ orders[b].asset = orders[s].asset /\ orders[b].owner # orders[s].owner
        /\ orders[s].price <= orders[b].price
  <2>1. LET bb == orders[x.buyOrder]
            ss == orders[x.sellOrder]
        IN  /\ x.buyOrder \in DOMAIN orders /\ x.sellOrder \in DOMAIN orders
            /\ bb.side = "buy" /\ ss.side = "sell"
            /\ bb.asset = x.asset /\ ss.asset = x.asset
            /\ bb.owner = x.buyer /\ ss.owner = x.seller /\ x.buyer # x.seller
            /\ ss.price <= x.price /\ x.price <= bb.price
            /\ 0 < x.quantity
            /\ x.quantity <= bb.quantity /\ x.quantity <= ss.quantity
    BY <1>1, MatcherIsSound, TradeIsSound DEF TradeInv
  <2>2. x \in Trade
    BY <1>1, MatcherIsSound, TradeIsSound DEF TradeInv
  <2>3. x.price \in Nat /\ \A o \in DOMAIN orders : orders[o].price \in Nat
    BY <1>1, <2>2, RowTypes, TradeAssumption DEF Trade, TradeInv, Order
  <2> HIDE DEF x
  <2> QED
    BY <2>1, <2>3
<1>3. {b, s} = {task[w].order, task[w].counter} /\ b # s
  BY <1>2 DEF TradeOf
<1>4. ASSUME NEW o \in DOMAIN orders
      PROVE  /\ orders[o] \in Order /\ orders[o].quantity \in Nat
             /\ orders[o].filled = Executed(o) /\ Executed(o) \in Nat
             /\ Executed(o)' = Executed(o) + (IF o \in {b, s} THEN q ELSE 0)
             /\ q \in Nat \ {0}
  <2>1. orders[o] \in Order /\ orders[o].quantity \in Nat
    BY <1>1, RowTypes, TradeAssumption DEF TradeInv, Order
  <2>2. orders[o].filled = Executed(o)
    BY <1>1 DEF BooksInv, RowsFollowTrades, StillToWrite, OneWorker
  <2>3. /\ q \in Nat \ {0} /\ Executed(o) \in Nat
        /\ Executed(o)' = Executed(o) + (IF o \in {task[w].order, task[w].counter} THEN q ELSE 0)
    BY <1>1, InsertedTradeCounts
  <2> QED
    BY <1>3, <2>1, <2>2, <2>3
<1>5. ASSUME NEW o \in {b, s}
      PROVE  orders[o].filled + q <= orders[o].quantity /\ orders[o].status # "cancelled"
  <2>1. /\ task[w].order \in DOMAIN orders /\ task[w].counter \in DOMAIN orders
        /\ task[w].orderFilled + q <= orders[task[w].order].quantity
        /\ task[w].counterFilled + q <= orders[task[w].counter].quantity
    BY <1>1, NamedRowsExist
  <2>2. /\ task[w].orderFilled = orders[task[w].order].filled
        /\ task[w].counterFilled = orders[task[w].counter].filled
        /\ IsOpen(task[w].order) /\ IsOpen(task[w].counter)
    BY <1>1, <2>1 DEF BooksInv, ReadsAreFresh
  <2> QED
    BY <1>3, <2>1, <2>2 DEF IsOpen, OpenStatus
<1> HIDE DEF x, q
<1>6. BookRows' = BookRows /\ BookWithdrawn' = BookWithdrawn
  BY <1>1 DEF BookRows, BookRow, BookWithdrawn
<1>7. BookExecuted' = [BookExecuted EXCEPT ![b] = @ + q, ![s] = @ + q]
  <2>1. \A o \in DOMAIN orders : Executed(o)' = IF o \in {b, s} THEN Executed(o) + q ELSE Executed(o)
    BY <1>4
  <2>2. BookExecuted' = [o \in DOMAIN orders |-> Executed(o)']
    BY <1>1 DEF BookExecuted
  <2> QED
    BY <1>3, <2>1, <2>2 DEF BookExecuted
<1>8. /\ \A o \in {b, s} : /\ o \notin BookWithdrawn
                          /\ BookRows[o].quantity - BookExecuted[o] > 0
                          /\ q <= BookRows[o].quantity - BookExecuted[o]
      /\ q \in 1 .. (BookRows[b].quantity - BookExecuted[b]) /\ q \in 1 .. orders[b].quantity
  <2>1. \A o \in {b, s} : /\ BookRows[o].quantity = orders[o].quantity /\ BookExecuted[o] = orders[o].filled
                          /\ orders[o].filled \in Nat /\ orders[o].quantity \in Nat
                          /\ q \in Nat \ {0} /\ orders[o].filled + q <= orders[o].quantity
                          /\ o \notin BookWithdrawn
    BY <1>4, <1>5 DEF BookRows, BookRow, BookExecuted, BookWithdrawn
  <2> QED
    BY <2>1
<1>9. /\ BookRows[b].side = "buy" /\ BookRows[s].side = "sell"
      /\ BookRows[b].asset = BookRows[s].asset /\ BookRows[b].owner # BookRows[s].owner
      /\ BookRows[b].price >= BookRows[s].price
  <2>1. orders[b].price \in Nat /\ orders[s].price \in Nat
    BY <1>4, TradeAssumption DEF Order
  <2> QED
    BY <1>2, <2>1 DEF BookRows, BookRow
<1>10. Book!Deal(b, s, q)
  BY <1>6, <1>7, <1>8, <1>9 DEF Book!Deal, Book!Live, Book!Left, BookRows, BookRow, BookExecuted, BookWithdrawn
<1> QED
  BY <1>8, <1>10

LEMMA StepIsABookStep ==
    ASSUME OneWorker, ~Faults, BooksInv, [Next]_vars
    PROVE  [Book!Next]_<<BookRows, BookExecuted, BookWithdrawn>>
<1>1. ASSUME UNCHANGED <<orders, trades>>
      PROVE  UNCHANGED <<BookRows, BookExecuted, BookWithdrawn>>
  BY <1>1, InvisibleStep DEF RowsKept
<1>2. ASSUME NEW u \in Users, NEW a \in Assets, NEW s \in Sides, NEW p \in Prices,
             NEW q \in Quantities, PlaceOrder(u, a, s, p, q)
      PROVE  Book!Next
  BY <1>2, PlaceOrderPlaces DEF Book!Next
<1>3. ASSUME NEW w \in Workers, FinishCancel(w)
      PROVE  Book!Next
  BY <1>3, CancelWithdraws DEF Book!Next
<1>4. ASSUME NEW w \in Workers, InsertTrade(w)
      PROVE  Book!Next
  BY <1>4, InsertTradeDeals DEF Book!Next
<1>5. ASSUME NEW w \in Workers, FillOrder(w) \/ FillCounter(w)
      PROVE  UNCHANGED <<BookRows, BookExecuted, BookWithdrawn>>
  <2>1. trades' = trades
    BY <1>5 DEF FillOrder, FillCounter
  <2> QED
    BY <1>5, <2>1, FillOrderKeepsBooks, FillCounterKeepsBooks, InvisibleStep
<1>6. ASSUME NEW w \in Workers, InsertSettlement(w)
      PROVE  UNCHANGED <<BookRows, BookExecuted, BookWithdrawn>>
  BY <1>1, <1>6 DEF InsertSettlement
<1>7. CASE UNCHANGED vars
  BY <1>1, <1>7 DEF vars
<1> QED
  BY <1>1, <1>2, <1>3, <1>4, <1>5, <1>6, <1>7, LookingKeepsBooks DEF Next, CancelOrder, MatchOrder, Crash

\* Served one request at a time and without faults, the handlers implement the order
\* book: each of their statements deals, places, withdraws or is invisible in it.
THEOREM OneAtATimeIsAnOrderBook == ASSUME OneWorker, ~Faults PROVE Spec => ImplementsOrderBook
<1>1. Init => Book!Init
  BY DEF Init, Book!Init
<1>2. BooksInv /\ [Next]_vars => [Book!Next]_Book!bookVars
  BY StepIsABookStep DEF Book!bookVars, BookRows, BookRow, BookExecuted, BookWithdrawn
<1>3. BooksInv /\ [Next]_vars => BooksInv'
  BY StepKeepsBooks
<1> QED
  BY <1>1, <1>2, <1>3, InitBooks, PTL DEF Spec, ImplementsOrderBook, Book!Spec

\* The market keeps these promises with epochs opened and closed beside it.
THEOREM MarketPromisesBesideEpochs ==
    /\ EpochSpec => []NoPhantomFill
    /\ OneWorker /\ ~Faults => (EpochSpec => []BooksBalanceAtRest /\ ImplementsOrderBook)
<1>1. EpochSpec => []NoPhantomFill
  BY EpochsLeaveTheMarketAlone, FillsWereTraded, PTL
<1>2. ASSUME OneWorker, ~Faults
      PROVE  EpochSpec => []BooksBalanceAtRest /\ ImplementsOrderBook
  BY <1>2, EpochsLeaveTheMarketAlone, BooksBalance, OneAtATimeIsAnOrderBook, PTL
<1> QED
  BY <1>1, <1>2
=============================================================================
