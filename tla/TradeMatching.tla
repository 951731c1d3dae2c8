--------------------------- MODULE TradeMatching ---------------------------
(***************************************************************************)
(* The secondary market of the backend: backend/internal/trade.            *)
(*                                                                         *)
(* The tables trade_orders, trades and settlements live in one SQLite      *)
(* database whose pool holds a single connection, so every SQL statement   *)
(* is atomic; but a handler issues several statements without a            *)
(* transaction, and gin runs every request on a goroutine of its own.      *)
(* A worker is such a goroutine: one action per statement it issues, and   *)
(* in task[w] the rows it read before and still relies on.                 *)
(*                                                                         *)
(* Orders are named by their position in trade_orders, which is their      *)
(* order by created_at.  Owner, asset, side, price and quantity of a row   *)
(* are never updated, so a worker's copy of them is the row's; filled_qty  *)
(* and status are, so the copies of those are kept in the task.            *)
(***************************************************************************)
EXTENDS Integers, Sequences, FiniteSets, FiniteSetsExt

CONSTANTS
    Users,       \* the user ids the service is called with
    Assets,
    Prices,      \* 0 is the empty price of a market order: big.Float of ""
    Quantities,  \* what the order form sends: positive integers
    Workers,     \* goroutines serving requests
    BookLimit,   \* the LIMIT of the book query (10 in the code)
    Faults,      \* may statements fail and the server crash?
    MaxOrders,   \* bound of the model on trade_orders
    MaxTrades    \* bound of the model on trades

ASSUME TradeAssumption ==
    /\ Prices \subseteq Nat
    /\ Quantities \subseteq Nat \ {0}
    /\ BookLimit \in Nat \ {0}
    /\ Faults \in BOOLEAN
    /\ MaxOrders \in Nat
    /\ MaxTrades \in Nat

VARIABLES
    orders,       \* trade_orders, by created_at
    trades,       \* trades, by created_at
    settlements,  \* settlements
    task          \* what each worker is doing

vars == <<orders, trades, settlements, task>>

-----------------------------------------------------------------------------
Sides == {"buy", "sell"}

\* "expired" is declared too and never assigned
OrderStatus == {"pending", "partial", "filled", "cancelled"}

OpenStatus == {"pending", "partial"}

Order == [owner : Users, asset : Assets, side : Sides, price : Prices,
          quantity : Quantities, filled : Nat, status : OrderStatus]

Trade == [buyOrder : Nat \ {0}, sellOrder : Nat \ {0}, asset : Assets,
          price : Prices, quantity : Nat, buyer : Users, seller : Users]

\* the only status of a settlement the code ever writes is "pending"; its amount is
\* price times quantity, of which the price is kept
Settlement == [trade : Nat \ {0}, asset : Assets, price : Prices, quantity : Nat,
               buyer : Users, seller : Users]

Steps == {"idle", "readBook", "insertTrade", "fillOrder", "fillCounter",
          "insertSettlement", "cancel"}

Task == [step : Steps,
         order : Nat, orderFilled : Nat,      \* the order and its filled_qty as read
         counter : Nat, counterFilled : Nat,  \* the resting order, likewise
         trade : Nat]                         \* the trade this worker inserted

Idle == [step |-> "idle", order |-> 0, orderFilled |-> 0,
         counter |-> 0, counterFilled |-> 0, trade |-> 0]

TypeOK ==
    /\ orders \in Seq(Order)
    /\ trades \in Seq(Trade)
    /\ settlements \in SUBSET Settlement
    /\ task \in [Workers -> Task]

Init ==
    /\ orders = <<>>
    /\ trades = <<>>
    /\ settlements = {}
    /\ task = [w \in Workers |-> Idle]

-----------------------------------------------------------------------------
(* What the service computes from the rows it read *)

IsOpenUnlessCancelled(o) == orders[o].status # "cancelled"   \* mutant of IsOpen
IsOpen(o) == orders[o].status \in OpenStatus

\* rows the book query returns: the oldest BookLimit pending rows of the asset
PendingOfAnyStatus(a) == {i \in DOMAIN orders : orders[i].asset = a}   \* mutant of Pending
Pending(a) == {i \in DOMAIN orders : orders[i].asset = a /\ orders[i].status = "pending"}
OpenOrders(a) == {i \in Pending(a) : Cardinality({j \in Pending(a) : j <= i}) <= BookLimit}

AcceptableFromSelf(o, c) ==   \* mutant of Acceptable: no self-trade guard
    /\ orders[c].side # orders[o].side
    /\ IF orders[o].side = "buy" THEN orders[o].price >= orders[c].price
                                 ELSE orders[o].price <= orders[c].price

Acceptable(o, c) ==
    /\ orders[c].owner # orders[o].owner
    /\ orders[c].side # orders[o].side
    /\ IF orders[o].side = "buy" THEN orders[o].price >= orders[c].price
                                 ELSE orders[o].price <= orders[c].price

Counters(o) == {c \in OpenOrders(orders[o].asset) : Acceptable(o, c)}

TradedQty(t) == Min({orders[t.order].quantity - t.orderFilled,
                     orders[t.counter].quantity - t.counterFilled})

TradeOf(t) ==
    LET buying == orders[t.order].side = "buy"
        buy  == IF buying THEN t.order ELSE t.counter
        sell == IF buying THEN t.counter ELSE t.order
    IN  [buyOrder |-> buy, sellOrder |-> sell, asset |-> orders[t.order].asset,
         price |-> orders[t.counter].price, quantity |-> TradedQty(t),
         buyer |-> orders[buy].owner, seller |-> orders[sell].owner]

SettlementOf(n, trade) ==
    [trade |-> n, asset |-> trade.asset, price |-> trade.price,
     quantity |-> trade.quantity, buyer |-> trade.buyer, seller |-> trade.seller]

FillStrict(o, filled) ==   \* mutant of Fill: > for >=
    orders' = [orders EXCEPT
        ![o].filled = filled,
        ![o].status = IF filled > orders[o].quantity THEN "filled" ELSE "partial"]

FillBackToPending(o, filled) ==   \* mutant of Fill: a partial fill stays pending
    orders' = [orders EXCEPT
        ![o].filled = filled,
        ![o].status = IF filled >= orders[o].quantity THEN "filled" ELSE "pending"]

\* the absolute overwrite of UpdateOrderFill with values computed from stale reads
Fill(o, filled) ==
    orders' = [orders EXCEPT
        ![o].filled = filled,
        ![o].status = IF filled >= orders[o].quantity THEN "filled" ELSE "partial"]

-----------------------------------------------------------------------------
(* PlaceOrder: one INSERT *)

PlaceOrderSwapped(u, a, s, p, q) ==   \* mutant: two arguments of the INSERT swapped
    /\ Len(orders) < MaxOrders
    /\ orders' = Append(orders, [owner |-> a, asset |-> u, side |-> s, price |-> p,
                                 quantity |-> q, filled |-> 0, status |-> "pending"])
    /\ UNCHANGED <<trades, settlements, task>>

PlaceOrder(u, a, s, p, q) ==
    /\ Len(orders) < MaxOrders
    /\ orders' = Append(orders, [owner |-> u, asset |-> a, side |-> s, price |-> p,
                                 quantity |-> q, filled |-> 0, status |-> "pending"])
    /\ UNCHANGED <<trades, settlements, task>>

(* CancelOrder: SELECT the row, check owner and status, UPDATE its status *)

StartCancel(w, u, o) ==
    /\ task[w].step = "idle"
    /\ o \in DOMAIN orders
    /\ \/ /\ orders[o].owner = u
          /\ IsOpen(o)
          /\ task' = [task EXCEPT ![w] = [Idle EXCEPT !.step = "cancel", !.order = o]]
       \/ /\ orders[o].owner # u \/ ~IsOpen(o)       \* refused
          /\ UNCHANGED task
    /\ UNCHANGED <<orders, trades, settlements>>

FinishCancel(w) ==
    /\ task[w].step = "cancel"
    /\ \/ orders' = [orders EXCEPT ![task[w].order].status = "cancelled"]
       \/ Faults /\ UNCHANGED orders
    /\ task' = [task EXCEPT ![w] = Idle]
    /\ UNCHANGED <<trades, settlements>>

(* MatchOrder: SELECT the order, SELECT the book, INSERT the trade, UPDATE   *)
(* both orders, INSERT the settlement; at most one trade a call              *)

Busy == {w \in Workers : task[w].step # "idle"}

StartMatch(w, o) ==
    /\ task[w].step = "idle"
    /\ o \in DOMAIN orders
    /\ IsOpen(o)
    /\ Len(trades) + Cardinality(Busy) < MaxTrades   \* bound of the model
    /\ task' = [task EXCEPT ![w] = [Idle EXCEPT !.step = "readBook", !.order = o,
                                                !.orderFilled = orders[o].filled]]
    /\ UNCHANGED <<orders, trades, settlements>>

ReadBook(w) ==
    LET t == task[w]
    IN  /\ t.step = "readBook"
        /\ \/ \E c \in Counters(t.order) :
                 /\ \A d \in Counters(t.order) : c <= d    \* the oldest one
                 /\ task' = [task EXCEPT ![w].step = "insertTrade", ![w].counter = c,
                                         ![w].counterFilled = orders[c].filled]
           \/ /\ Counters(t.order) = {} \/ Faults    \* no match, or the query failed
              /\ task' = [task EXCEPT ![w] = Idle]
        /\ UNCHANGED <<orders, trades, settlements>>

InsertTradeUnchecked(w) ==   \* mutant: the error of the INSERT dropped too
    /\ task[w].step = "insertTrade"
    /\ \/ trades' = Append(trades, TradeOf(task[w]))
       \/ Faults /\ UNCHANGED trades
    /\ task' = [task EXCEPT ![w].step = "fillOrder", ![w].trade = Len(trades) + 1]
    /\ UNCHANGED <<orders, settlements>>

InsertTrade(w) ==
    /\ task[w].step = "insertTrade"
    /\ \/ /\ trades' = Append(trades, TradeOf(task[w]))
          /\ task' = [task EXCEPT ![w].step = "fillOrder", ![w].trade = Len(trades) + 1]
       \/ /\ Faults
          /\ task' = [task EXCEPT ![w] = Idle]
          /\ UNCHANGED trades
    /\ UNCHANGED <<orders, settlements>>

\* the errors of the last three statements are dropped: _ = s.repo...
FillOrder(w) ==
    LET t == task[w]
    IN  /\ t.step = "fillOrder"
        /\ \/ Fill(t.order, t.orderFilled + TradedQty(t))
           \/ Faults /\ UNCHANGED orders
        /\ task' = [task EXCEPT ![w].step = "fillCounter"]
        /\ UNCHANGED <<trades, settlements>>

FillCounterCopied(w) ==   \* mutant: the order's filled quantity for the counter's
    LET t == task[w]
    IN  /\ t.step = "fillCounter"
        /\ Fill(t.counter, t.orderFilled + TradedQty(t))
        /\ task' = [task EXCEPT ![w].step = "insertSettlement"]
        /\ UNCHANGED <<trades, settlements>>

FillCounter(w) ==
    LET t == task[w]
    IN  /\ t.step = "fillCounter"
        /\ \/ Fill(t.counter, t.counterFilled + TradedQty(t))
           \/ Faults /\ UNCHANGED orders
        /\ task' = [task EXCEPT ![w].step = "insertSettlement"]
        /\ UNCHANGED <<trades, settlements>>

SettleLatestTrade(w) ==   \* mutant of InsertSettlement: the last trade, not this one
    LET t == task[w]
    IN  /\ t.step = "insertSettlement"
        /\ settlements' = settlements \cup {SettlementOf(Len(trades), TradeOf(t))}
        /\ task' = [task EXCEPT ![w] = Idle]
        /\ UNCHANGED <<orders, trades>>

InsertSettlement(w) ==
    LET t == task[w]
    IN  /\ t.step = "insertSettlement"
        /\ \/ settlements' = settlements \cup {SettlementOf(t.trade, TradeOf(t))}
           \/ Faults /\ UNCHANGED settlements
        /\ task' = [task EXCEPT ![w] = Idle]
        /\ UNCHANGED <<orders, trades>>

\* the process dies and restarts: the database stays, every request in flight is gone
Crash ==
    /\ Faults
    /\ task' = [w \in Workers |-> Idle]
    /\ UNCHANGED <<orders, trades, settlements>>

-----------------------------------------------------------------------------
CancelOrder(w) ==
    \/ \E u \in Users, o \in DOMAIN orders : StartCancel(w, u, o)
    \/ FinishCancel(w)

MatchOrder(w) ==
    \/ \E o \in DOMAIN orders : StartMatch(w, o)
    \/ ReadBook(w)
    \/ InsertTrade(w)
    \/ FillOrder(w)
    \/ FillCounter(w)
    \/ InsertSettlement(w)

Next ==
    \/ \E u \in Users, a \in Assets, s \in Sides, p \in Prices, q \in Quantities :
          PlaceOrder(u, a, s, p, q)
    \/ \E w \in Workers : CancelOrder(w) \/ MatchOrder(w)
    \/ Crash

Spec == Init /\ [][Next]_vars

-----------------------------------------------------------------------------
(* Safety that survives every interleaving, fault and crash *)

\* Every trade in the table is one both owners asked for, although the matcher
\* decided it from rows another request may since have changed: its two sides are
\* a buy and a sell of the trade's asset by different users, the price lies
\* between the two limits, and the quantity is positive and no more than either
\* order asked for (MatchOrder, service.go:88-157).
TradesHonourOrders ==
    \A n \in DOMAIN trades :
        LET t == trades[n]
        IN  /\ {t.buyOrder, t.sellOrder} \subseteq DOMAIN orders
            /\ LET b == orders[t.buyOrder]
                   s == orders[t.sellOrder]
               IN  /\ b.side = "buy" /\ s.side = "sell"
                   /\ b.asset = t.asset /\ s.asset = t.asset
                   /\ b.owner = t.buyer /\ s.owner = t.seller /\ t.buyer # t.seller
                   /\ s.price <= t.price /\ t.price <= b.price
                   /\ 0 < t.quantity
                   /\ t.quantity <= b.quantity /\ t.quantity <= s.quantity

\* A settlement is written long after its trade and from the matcher's memory; it
\* still names an existing trade, agrees with it on asset, parties, quantity and price,
\* and is the only one of that trade (CreateSettlement, service.go:178-188; the
\* table has UNIQUE(trade_id)).
SettlementsMirrorTrades ==
    /\ \A s \in settlements : s.trade \in DOMAIN trades /\ s = SettlementOf(s.trade, trades[s.trade])
    /\ \A s1, s2 \in settlements : s1.trade = s2.trade => s1 = s2

\* filled_qty and status of an order row agree, whichever of the racing writers
\* wrote last: nothing is filled on a pending row, a partial row is strictly
\* between nothing and all, a filled row is exactly full, and no row is ever
\* filled beyond its quantity (UpdateOrderFill, service.go:166-176).
FillsAgreeWithStatus ==
    \A o \in DOMAIN orders :
        LET r == orders[o]
        IN  /\ r.filled <= r.quantity
            /\ r.status = "pending" => r.filled = 0
            /\ r.status = "partial" => 0 < r.filled /\ r.filled < r.quantity
            /\ r.status = "filled"  => r.filled = r.quantity

\* What a worker relies on between two statements: the order it read was open
\* then, the resting order acceptable, and from the INSERT on the trade it named
\* is the row it inserted, which no other worker and no settlement refers to.
TaskIsCurrent(w) ==
    LET t == task[w]
    IN  /\ t.step # "idle" => t.order \in DOMAIN orders
        /\ t.step \notin {"idle", "cancel"} => t.orderFilled < orders[t.order].quantity
        /\ t.step \notin {"idle", "cancel", "readBook"} =>
              /\ t.counter \in DOMAIN orders
              /\ t.counterFilled < orders[t.counter].quantity
              /\ orders[t.counter].asset = orders[t.order].asset
              /\ Acceptable(t.order, t.counter)
        /\ t.step \notin {"fillOrder", "fillCounter", "insertSettlement"} => t.trade = 0
        /\ t.step \in {"fillOrder", "fillCounter", "insertSettlement"} =>
              /\ t.trade \in DOMAIN trades
              /\ trades[t.trade] = TradeOf(t)
              /\ \A s \in settlements : s.trade # t.trade
              /\ \A v \in Workers \ {w} : task[v].trade # t.trade

TasksAreCurrent == \A w \in Workers : TaskIsCurrent(w)

\* The inductive invariant: the safety properties together with what the workers
\* in flight rely on.
TradeInv ==
    /\ TypeOK
    /\ FillsAgreeWithStatus
    /\ TasksAreCurrent
    /\ TradesHonourOrders
    /\ SettlementsMirrorTrades

\* Nobody rewrites history: whatever two workers overwrite, the identity of an
\* order row, a trade once inserted and a settlement once inserted never change,
\* and an order that left "pending" never comes back to it.
HistoryIsKept ==
    [][ /\ \A o \in DOMAIN orders :
              /\ o \in DOMAIN orders'
              /\ \A f \in {"owner", "asset", "side", "price", "quantity"} :
                    orders'[o][f] = orders[o][f]
              /\ orders'[o].status = "pending" => orders[o].status = "pending"
        /\ \A n \in DOMAIN trades : n \in DOMAIN trades' /\ trades'[n] = trades[n]
        /\ settlements \subseteq settlements'
      ]_vars
=============================================================================
