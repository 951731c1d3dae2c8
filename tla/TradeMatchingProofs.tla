------------------------ MODULE TradeMatchingProofs ------------------------
(***************************************************************************)
(* Proofs about TradeMatching, for any users, assets, prices, quantities,  *)
(* workers and book limit, with or without faults.                         *)
(***************************************************************************)
EXTENDS TradeMatching, SequenceTheorems, TLAPS

\* The quantity the matcher trades is the smaller of what the two orders have left.
LEMMA MinOfTwo ==
    ASSUME NEW m \in Int, NEW n \in Int
    PROVE  /\ Min({m, n}) \in {m, n}
           /\ Min({m, n}) <= m
           /\ Min({m, n}) <= n
<1>1. \E x \in {m, n} : \A y \in {m, n} : x =< y
  OBVIOUS
<1>2. QED
  BY <1>1 DEF Min

\* The rows of the tables have the types of the tables.
LEMMA RowTypes ==
    ASSUME TypeOK
    PROVE  /\ DOMAIN orders = 1 .. Len(orders) /\ Len(orders) \in Nat
           /\ DOMAIN trades = 1 .. Len(trades) /\ Len(trades) \in Nat
           /\ \A o \in DOMAIN orders : orders[o] \in Order
           /\ \A n \in DOMAIN trades : trades[n] \in Trade
           /\ \A w \in Workers : task[w] \in Task
BY DEF TypeOK

\* A worker about to insert a trade, or past it, trades a positive quantity that
\* neither order exceeds, and the trade is one both owners asked for.
LEMMA TradeIsSound ==
    ASSUME TypeOK, NEW t \in Task,
           t.order \in DOMAIN orders, t.counter \in DOMAIN orders,
           t.orderFilled < orders[t.order].quantity,
           t.counterFilled < orders[t.counter].quantity,
           orders[t.counter].asset = orders[t.order].asset,
           Acceptable(t.order, t.counter)
    PROVE  /\ TradedQty(t) \in Nat \ {0}
           /\ t.orderFilled + TradedQty(t) <= orders[t.order].quantity
           /\ t.counterFilled + TradedQty(t) <= orders[t.counter].quantity
           /\ TradeOf(t) \in Trade
           /\ LET x == TradeOf(t)
                  b == orders[x.buyOrder]
                  s == orders[x.sellOrder]
              IN  /\ x.buyOrder \in DOMAIN orders /\ x.sellOrder \in DOMAIN orders
                  /\ b.side = "buy" /\ s.side = "sell"
                  /\ b.asset = x.asset /\ s.asset = x.asset
                  /\ b.owner = x.buyer /\ s.owner = x.seller /\ x.buyer # x.seller
                  /\ s.price <= x.price /\ x.price <= b.price
                  /\ 0 < x.quantity
                  /\ x.quantity <= b.quantity /\ x.quantity <= s.quantity
<1> DEFINE o == orders[t.order]
           c == orders[t.counter]
           m == o.quantity - t.orderFilled
           n == c.quantity - t.counterFilled
<1>1. /\ o \in Order /\ c \in Order
      /\ t.order \in Nat \ {0} /\ t.counter \in Nat \ {0}
      /\ t.orderFilled \in Nat /\ t.counterFilled \in Nat
  BY RowTypes DEF Task
<1>2. /\ o.quantity \in Nat \ {0} /\ c.quantity \in Nat \ {0}
      /\ o.price \in Nat /\ c.price \in Nat
  BY <1>1, TradeAssumption DEF Order
<1>3. m \in Nat \ {0} /\ n \in Nat \ {0}
  BY <1>1, <1>2
<1>4. Min({m, n}) \in {m, n} /\ Min({m, n}) <= m /\ Min({m, n}) <= n
  <2>1. m \in Int /\ n \in Int
    BY <1>3
  <2>2. QED
    BY <2>1, MinOfTwo
<1>5. TradedQty(t) = Min({m, n})
  BY DEF TradedQty
<1>6. /\ TradedQty(t) \in Nat \ {0}
      /\ t.orderFilled + TradedQty(t) <= o.quantity
      /\ t.counterFilled + TradedQty(t) <= c.quantity
  BY <1>1, <1>2, <1>3, <1>4, <1>5
<1>7. TradedQty(t) <= o.quantity /\ TradedQty(t) <= c.quantity
  BY <1>1, <1>2, <1>6
<1>8. CASE o.side = "buy"
  BY <1>8, <1>1, <1>2, <1>6, <1>7 DEF TradeOf, Trade, Order, Acceptable, Sides
<1>9. CASE o.side # "buy"
  BY <1>9, <1>1, <1>2, <1>6, <1>7 DEF TradeOf, Trade, Order, Acceptable, Sides
<1>10. QED
  BY <1>6, <1>8, <1>9

-----------------------------------------------------------------------------
(* What every step keeps *)

\* An order row, once inserted, stays, and what its owner asked for is never updated.
RowsKept ==
    \A o \in DOMAIN orders :
        /\ o \in DOMAIN orders'
        /\ orders'[o].owner = orders[o].owner
        /\ orders'[o].asset = orders[o].asset
        /\ orders'[o].side = orders[o].side
        /\ orders'[o].price = orders[o].price
        /\ orders'[o].quantity = orders[o].quantity

\* UpdateOrderFill with a positive filled quantity that does not exceed the
\* order's keeps the table well typed, the row's identity, and filled_qty in
\* agreement with the status it writes.
LEMMA FillKeeps ==
    ASSUME TypeOK, FillsAgreeWithStatus,
           NEW o \in DOMAIN orders, NEW f \in Nat \ {0},
           f <= orders[o].quantity, Fill(o, f)
    PROVE  /\ orders' \in Seq(Order) /\ DOMAIN orders' = DOMAIN orders
           /\ RowsKept
           /\ FillsAgreeWithStatus'
           /\ orders'[o].status # "pending"
           /\ \A p \in DOMAIN orders \ {o} : orders'[p] = orders[p]
<1> DEFINE st == IF f >= orders[o].quantity THEN "filled" ELSE "partial"
           row == [orders[o] EXCEPT !.filled = f, !.status = st]
<1>1. orders \in Seq(Order) /\ orders[o] \in Order /\ o \in 1 .. Len(orders)
  BY RowTypes DEF TypeOK
<1>2. orders[o].quantity \in Nat \ {0}
  BY <1>1, TradeAssumption DEF Order
<1>3. row \in Order
  BY <1>1 DEF Order, OrderStatus
<1>4. orders' = [orders EXCEPT ![o] = row]
  BY <1>1 DEF Fill
<1>5. /\ orders' \in Seq(Order) /\ Len(orders') = Len(orders)
      /\ \A p \in 1 .. Len(orders) : orders'[p] = IF p = o THEN row ELSE orders[p]
  <2> HIDE DEF row
  <2> QED
    BY <1>1, <1>3, <1>4, ExceptSeq
<1>6. DOMAIN orders' = DOMAIN orders
  BY <1>1, <1>5, LenProperties
<1>7. /\ row.owner = orders[o].owner /\ row.asset = orders[o].asset
      /\ row.side = orders[o].side /\ row.price = orders[o].price
      /\ row.quantity = orders[o].quantity
      /\ row.filled = f /\ row.status = st
  BY <1>1 DEF Order
<1> HIDE DEF row
<1>8. RowsKept
  BY <1>1, <1>5, <1>6, <1>7 DEF RowsKept
<1>9. FillsAgreeWithStatus'
  BY <1>1, <1>2, <1>5, <1>6, <1>7 DEF FillsAgreeWithStatus
<1>10. QED
  BY <1>1, <1>5, <1>6, <1>7, <1>8, <1>9

\* The UPDATE of CancelOrder, likewise.
LEMMA CancelKeeps ==
    ASSUME TypeOK, FillsAgreeWithStatus, NEW o \in DOMAIN orders,
           orders' = [orders EXCEPT ![o].status = "cancelled"]
    PROVE  /\ orders' \in Seq(Order) /\ DOMAIN orders' = DOMAIN orders
           /\ RowsKept
           /\ FillsAgreeWithStatus'
           /\ orders'[o].status # "pending"
           /\ \A p \in DOMAIN orders \ {o} : orders'[p] = orders[p]
<1> DEFINE row == [orders[o] EXCEPT !.status = "cancelled"]
<1>1. orders \in Seq(Order) /\ orders[o] \in Order /\ o \in 1 .. Len(orders)
  BY RowTypes DEF TypeOK
<1>2. row \in Order
  BY <1>1 DEF Order, OrderStatus
<1>3. orders' = [orders EXCEPT ![o] = row]
  OBVIOUS
<1>4. /\ orders' \in Seq(Order) /\ Len(orders') = Len(orders)
      /\ \A p \in 1 .. Len(orders) : orders'[p] = IF p = o THEN row ELSE orders[p]
  <2> HIDE DEF row
  <2> QED
    BY <1>1, <1>2, <1>3, ExceptSeq
<1>5. DOMAIN orders' = DOMAIN orders
  BY <1>1, <1>4, LenProperties
<1>6. /\ row.owner = orders[o].owner /\ row.asset = orders[o].asset
      /\ row.side = orders[o].side /\ row.price = orders[o].price
      /\ row.quantity = orders[o].quantity
      /\ row.filled = orders[o].filled /\ row.status = "cancelled"
  BY <1>1 DEF Order
<1> HIDE DEF row
<1>7. RowsKept
  BY <1>1, <1>4, <1>5, <1>6 DEF RowsKept
<1>8. FillsAgreeWithStatus'
  BY <1>1, <1>4, <1>5, <1>6 DEF FillsAgreeWithStatus
<1>9. QED
  BY <1>1, <1>4, <1>5, <1>6, <1>7, <1>8

\* What a worker relies on survives a step in which it takes no part, as long as
\* the step keeps the rows and the trades, settles no trade of the worker's, and
\* hands the worker's trade to nobody else.
LEMMA OtherTasksStayCurrent ==
    ASSUME TypeOK, RowsKept, NEW v \in Workers, TaskIsCurrent(v), task'[v] = task[v],
           \A n \in DOMAIN trades : n \in DOMAIN trades' /\ trades'[n] = trades[n],
           task[v].trade \in DOMAIN trades =>
              /\ \A s \in settlements' \ settlements : s.trade # task[v].trade
              /\ \A u \in Workers \ {v} :
                    task'[u].trade = task[u].trade \/ task'[u].trade # task[v].trade
    PROVE  TaskIsCurrent(v)'
<1> DEFINE t == task[v]
<1>1. CASE t.step \in {"fillOrder", "fillCounter", "insertSettlement"}
  <2>1. TradeOf(task[v])' = TradeOf(t) /\ Acceptable(task[v].order, task[v].counter)'
    <3>1. t.order \in DOMAIN orders /\ t.counter \in DOMAIN orders
      BY <1>1 DEF TaskIsCurrent
    <3>2. \A o \in {t.order, t.counter} :
             /\ orders'[o].owner = orders[o].owner /\ orders'[o].asset = orders[o].asset
             /\ orders'[o].side = orders[o].side /\ orders'[o].price = orders[o].price
             /\ orders'[o].quantity = orders[o].quantity
      BY <3>1 DEF RowsKept
    <3>3. TradedQty(task[v])' = TradedQty(t)
      BY <3>2 DEF TradedQty
    <3>4. TradeOf(task[v])' = TradeOf(t)
      BY <3>2, <3>3 DEF TradeOf
    <3>5. Acceptable(task[v].order, task[v].counter)'
      BY <1>1, <3>2 DEF TaskIsCurrent, Acceptable
    <3>6. QED
      BY <3>4, <3>5
  <2>2. QED
    BY <1>1, <2>1 DEF TaskIsCurrent, RowsKept
<1>2. CASE t.step = "insertTrade"
  BY <1>2 DEF TaskIsCurrent, RowsKept, Acceptable
<1>3. CASE t.step = "readBook"
  BY <1>3 DEF TaskIsCurrent, RowsKept
<1>4. CASE t.step \in {"idle", "cancel"}
  BY <1>4 DEF TaskIsCurrent, RowsKept
<1>5. t.step \in Steps
  BY DEF TypeOK, Task
<1>6. QED
  BY <1>1, <1>2, <1>3, <1>4, <1>5 DEF Steps

\* A trade both owners asked for stays one while its rows are kept.
LEMMA OldTradesStayHonoured ==
    ASSUME TypeOK, TradesHonourOrders, RowsKept, trades' = trades
    PROVE  TradesHonourOrders'
BY DEF TradesHonourOrders, RowsKept

\* Settlements keep mirroring trades while neither table is written.
LEMMA OldSettlementsStayMirrored ==
    ASSUME SettlementsMirrorTrades, trades' = trades, settlements' = settlements
    PROVE  SettlementsMirrorTrades'
BY DEF SettlementsMirrorTrades, SettlementOf

-----------------------------------------------------------------------------
(* One lemma for each action: it keeps the invariant *)

LEMMA PlaceOrderKeepsInv ==
    ASSUME TradeInv, NEW u \in Users, NEW a \in Assets, NEW s \in Sides,
           NEW p \in Prices, NEW q \in Quantities, PlaceOrder(u, a, s, p, q)
    PROVE  TradeInv' /\ RowsKept
<1> DEFINE row == [owner |-> u, asset |-> a, side |-> s, price |-> p,
                   quantity |-> q, filled |-> 0, status |-> "pending"]
<1>1. row \in Order
  BY TradeAssumption DEF Order, OrderStatus
<1>2. /\ orders \in Seq(Order) /\ orders' = Append(orders, row)
      /\ trades' = trades /\ settlements' = settlements /\ task' = task
  BY DEF TradeInv, TypeOK, PlaceOrder
<1>3. row.filled = 0 /\ row.status = "pending" /\ row.quantity \in Nat
  BY TradeAssumption
<1> HIDE DEF row
<1>4. /\ orders' \in Seq(Order) /\ DOMAIN orders = 1 .. Len(orders)
      /\ Len(orders) \in Nat /\ DOMAIN orders' = 1 .. (Len(orders) + 1)
      /\ \A o \in DOMAIN orders : orders'[o] = orders[o]
      /\ orders'[Len(orders) + 1] = row
  BY <1>1, <1>2, AppendProperties, LenProperties
<1>5. RowsKept
  BY <1>4 DEF RowsKept
<1>6. TypeOK'
  BY <1>2, <1>4 DEF TradeInv, TypeOK
<1>7. FillsAgreeWithStatus'
  BY <1>3, <1>4 DEF TradeInv, FillsAgreeWithStatus
<1>8. TasksAreCurrent'
  BY <1>2, <1>5, OtherTasksStayCurrent DEF TradeInv, TasksAreCurrent
<1>9. TradesHonourOrders'
  BY <1>2, <1>5, OldTradesStayHonoured DEF TradeInv
<1>10. SettlementsMirrorTrades'
  BY <1>2, OldSettlementsStayMirrored DEF TradeInv
<1>11. QED
  BY <1>5, <1>6, <1>7, <1>8, <1>9, <1>10 DEF TradeInv

\* A step that only moves a worker to a step in which it holds no trade.
LEMMA MovingOnKeepsInv ==
    ASSUME TradeInv, NEW w \in Workers, NEW t \in Task,
           task' = [task EXCEPT ![w] = t],
           t.step \in {"idle", "cancel", "readBook", "insertTrade"}, t.trade = 0,
           t.step # "idle" => t.order \in DOMAIN orders,
           t.step \in {"readBook", "insertTrade"} =>
               t.orderFilled < orders[t.order].quantity,
           t.step = "insertTrade" =>
               /\ t.counter \in DOMAIN orders
               /\ t.counterFilled < orders[t.counter].quantity
               /\ orders[t.counter].asset = orders[t.order].asset
               /\ Acceptable(t.order, t.counter),
           orders' = orders, trades' = trades, settlements' = settlements
    PROVE  TradeInv' /\ RowsKept
<1>1. /\ task' \in [Workers -> Task] /\ task'[w] = t
      /\ \A v \in Workers \ {w} : task'[v] = task[v]
  BY DEF TradeInv, TypeOK
<1>2. RowsKept
  BY DEF RowsKept
<1>3. TypeOK'
  BY <1>1 DEF TradeInv, TypeOK
<1>4. FillsAgreeWithStatus'
  BY DEF TradeInv, FillsAgreeWithStatus
<1>5. TasksAreCurrent'
  <2> SUFFICES ASSUME NEW v \in Workers PROVE TaskIsCurrent(v)'
    BY DEF TasksAreCurrent
  <2>1. CASE v = w
    BY <1>1, <2>1 DEF TaskIsCurrent, Acceptable
  <2>2. CASE v # w
    <3>1. task[v].trade \in DOMAIN trades => task'[w].trade # task[v].trade
      BY <1>1, RowTypes DEF TradeInv
    <3>2. QED
      BY <1>1, <1>2, <2>2, <3>1, OtherTasksStayCurrent DEF TradeInv, TasksAreCurrent
  <2>3. QED
    BY <2>1, <2>2
<1>6. TradesHonourOrders'
  BY <1>2, OldTradesStayHonoured DEF TradeInv
<1>7. SettlementsMirrorTrades'
  BY OldSettlementsStayMirrored DEF TradeInv
<1>8. QED
  BY <1>2, <1>3, <1>4, <1>5, <1>6, <1>7 DEF TradeInv

LEMMA IdleIsATask == Idle \in Task /\ Idle.step = "idle" /\ Idle.trade = 0
BY DEF Idle, Task, Steps

LEMMA StartCancelKeepsInv ==
    ASSUME TradeInv, NEW w \in Workers, NEW u \in Users, NEW o \in DOMAIN orders,
           StartCancel(w, u, o)
    PROVE  TradeInv' /\ RowsKept
<1>1. orders' = orders /\ trades' = trades /\ settlements' = settlements
  BY DEF StartCancel
<1>2. CASE task' = [task EXCEPT ![w] = [Idle EXCEPT !.step = "cancel", !.order = o]]
  <2> DEFINE t == [Idle EXCEPT !.step = "cancel", !.order = o]
  <2>1. t \in Task /\ t.step = "cancel" /\ t.order = o /\ t.trade = 0
    <3>1. o \in Nat
      BY RowTypes DEF TradeInv
    <3>2. QED
      BY <3>1 DEF Idle, Task, Steps
  <2> HIDE DEF t
  <2>2. QED
    BY <1>1, <1>2, <2>1, MovingOnKeepsInv DEF t
<1>3. CASE task' = task
  <2>1. task[w] \in Task /\ task[w].step = "idle" /\ task[w].trade = 0
    BY RowTypes DEF TradeInv, TasksAreCurrent, TaskIsCurrent, StartCancel
  <2>2. task' = [task EXCEPT ![w] = task[w]]
    BY <1>3 DEF TradeInv, TypeOK
  <2>3. QED
    BY <1>1, <2>1, <2>2, MovingOnKeepsInv
<1>4. QED
  BY <1>2, <1>3 DEF StartCancel

LEMMA StartMatchKeepsInv ==
    ASSUME TradeInv, NEW w \in Workers, NEW o \in DOMAIN orders, StartMatch(w, o)
    PROVE  TradeInv' /\ RowsKept
<1> DEFINE t == [Idle EXCEPT !.step = "readBook", !.order = o,
                             !.orderFilled = orders[o].filled]
<1>1. o \in Nat /\ orders[o] \in Order
  BY RowTypes DEF TradeInv
<1>2. orders[o].filled \in Nat /\ orders[o].filled < orders[o].quantity
  <2>1. orders[o].quantity \in Nat \ {0} /\ orders[o].filled \in Nat
    BY <1>1, TradeAssumption DEF Order
  <2>2. QED
    BY <2>1 DEF TradeInv, FillsAgreeWithStatus, StartMatch, IsOpen, OpenStatus
<1>3. /\ t \in Task /\ t.step = "readBook" /\ t.order = o
      /\ t.orderFilled = orders[o].filled /\ t.trade = 0
  BY <1>1, <1>2 DEF Idle, Task, Steps
<1>4. /\ task' = [task EXCEPT ![w] = t]
      /\ orders' = orders /\ trades' = trades /\ settlements' = settlements
  BY DEF StartMatch
<1> HIDE DEF t
<1>5. QED
  BY <1>2, <1>3, <1>4, MovingOnKeepsInv

LEMMA ReadBookKeepsInv ==
    ASSUME TradeInv, NEW w \in Workers, ReadBook(w)
    PROVE  TradeInv' /\ RowsKept
<1>1. /\ orders' = orders /\ trades' = trades /\ settlements' = settlements
      /\ task[w].step = "readBook" /\ task[w] \in Task
  BY RowTypes DEF ReadBook, TradeInv
<1>2. CASE task' = [task EXCEPT ![w] = Idle]
  BY <1>1, <1>2, IdleIsATask, MovingOnKeepsInv
<1>3. ASSUME NEW c \in Counters(task[w].order),
             task' = [task EXCEPT ![w].step = "insertTrade", ![w].counter = c,
                                  ![w].counterFilled = orders[c].filled]
      PROVE  TradeInv' /\ RowsKept
  <2> DEFINE t == [task[w] EXCEPT !.step = "insertTrade", !.counter = c,
                                  !.counterFilled = orders[c].filled]
             o == task[w].order
  <2>1. o \in DOMAIN orders /\ task[w].orderFilled < orders[o].quantity /\ task[w].trade = 0
    BY <1>1 DEF TradeInv, TasksAreCurrent, TaskIsCurrent
  <2>2. /\ c \in DOMAIN orders /\ orders[c].asset = orders[o].asset
        /\ orders[c].status = "pending" /\ Acceptable(o, c)
    BY DEF Counters, OpenOrders, Pending
  <2>3. c \in Nat /\ orders[c] \in Order
    BY <2>2, RowTypes DEF TradeInv
  <2>4. orders[c].quantity \in Nat \ {0} /\ orders[c].filled = 0
    BY <2>2, <2>3, TradeAssumption DEF Order, TradeInv, FillsAgreeWithStatus
  <2>5. /\ t \in Task /\ t.step = "insertTrade" /\ t.order = o /\ t.counter = c
        /\ t.orderFilled = task[w].orderFilled /\ t.counterFilled = 0 /\ t.trade = 0
    BY <1>1, <2>1, <2>3, <2>4 DEF Task, Steps
  <2>6. task' = [task EXCEPT ![w] = t]
    BY <1>3 DEF TradeInv, TypeOK
  <2> HIDE DEF t, o
  <2>7. t.orderFilled < orders[o].quantity /\ t.counterFilled < orders[c].quantity
    BY <2>1, <2>4, <2>5
  <2>8. QED
    BY <1>1, <2>1, <2>2, <2>5, <2>6, <2>7, MovingOnKeepsInv
<1>4. QED
  BY <1>2, <1>3 DEF ReadBook

LEMMA FinishCancelKeepsInv ==
    ASSUME TradeInv, NEW w \in Workers, FinishCancel(w)
    PROVE  TradeInv' /\ RowsKept
<1>1. /\ trades' = trades /\ settlements' = settlements
      /\ task' = [task EXCEPT ![w] = Idle]
      /\ task[w].order \in DOMAIN orders
  BY DEF FinishCancel, TradeInv, TasksAreCurrent, TaskIsCurrent
<1>2. CASE orders' = orders
  BY <1>1, <1>2, IdleIsATask, MovingOnKeepsInv
<1>3. CASE orders' = [orders EXCEPT ![task[w].order].status = "cancelled"]
  <2>1. orders' \in Seq(Order) /\ RowsKept /\ FillsAgreeWithStatus'
    BY <1>1, <1>3, CancelKeeps DEF TradeInv
  <2>2. /\ task' \in [Workers -> Task] /\ task'[w] = Idle
        /\ \A v \in Workers \ {w} : task'[v] = task[v]
    BY <1>1, IdleIsATask DEF TradeInv, TypeOK
  <2>3. TypeOK'
    BY <1>1, <2>1, <2>2 DEF TradeInv, TypeOK
  <2>4. TasksAreCurrent'
    <3> SUFFICES ASSUME NEW v \in Workers PROVE TaskIsCurrent(v)'
      BY DEF TasksAreCurrent
    <3>1. CASE v = w
      BY <2>2, <3>1 DEF TaskIsCurrent, Idle
    <3>2. CASE v # w
      <4>1. task[v].trade \in DOMAIN trades => task'[w].trade # task[v].trade
        BY <2>2, IdleIsATask, RowTypes DEF TradeInv
      <4>2. QED
        BY <1>1, <2>1, <2>2, <3>2, <4>1, OtherTasksStayCurrent DEF TradeInv, TasksAreCurrent
    <3>3. QED
      BY <3>1, <3>2
  <2>5. TradesHonourOrders' /\ SettlementsMirrorTrades'
    BY <1>1, <2>1, OldTradesStayHonoured, OldSettlementsStayMirrored DEF TradeInv
  <2>6. QED
    BY <2>1, <2>3, <2>4, <2>5 DEF TradeInv
<1>4. QED
  BY <1>2, <1>3 DEF FinishCancel

\* What TradeIsSound asks of a worker's task, from the invariant.
LEMMA MatcherIsSound ==
    ASSUME TradeInv, NEW w \in Workers,
           task[w].step \in {"insertTrade", "fillOrder", "fillCounter", "insertSettlement"}
    PROVE  /\ task[w] \in Task
           /\ task[w].order \in DOMAIN orders /\ task[w].counter \in DOMAIN orders
           /\ task[w].orderFilled < orders[task[w].order].quantity
           /\ task[w].counterFilled < orders[task[w].counter].quantity
           /\ orders[task[w].counter].asset = orders[task[w].order].asset
           /\ Acceptable(task[w].order, task[w].counter)
BY RowTypes DEF TradeInv, TasksAreCurrent, TaskIsCurrent

LEMMA InsertTradeKeepsInv ==
    ASSUME TradeInv, NEW w \in Workers, InsertTrade(w)
    PROVE  TradeInv' /\ RowsKept
<1>1. /\ orders' = orders /\ settlements' = settlements
      /\ task[w].step = "insertTrade" /\ task[w] \in Task
  BY RowTypes DEF InsertTrade, TradeInv
<1>2. CASE task' = [task EXCEPT ![w] = Idle] /\ trades' = trades
  BY <1>1, <1>2, IdleIsATask, MovingOnKeepsInv
<1>3. CASE /\ trades' = Append(trades, TradeOf(task[w]))
           /\ task' = [task EXCEPT ![w].step = "fillOrder", ![w].trade = Len(trades) + 1]
  <2> DEFINE t == [task[w] EXCEPT !.step = "fillOrder", !.trade = Len(trades) + 1]
             x == TradeOf(task[w])
  <2>1. Len(trades) \in Nat /\ DOMAIN trades = 1 .. Len(trades) /\ trades \in Seq(Trade)
    BY RowTypes DEF TradeInv, TypeOK
  <2>2. /\ t \in Task /\ t.step = "fillOrder" /\ t.trade = Len(trades) + 1
        /\ t.order = task[w].order /\ t.orderFilled = task[w].orderFilled
        /\ t.counter = task[w].counter /\ t.counterFilled = task[w].counterFilled
    <3>1. Len(trades) + 1 \in Nat
      BY <2>1
    <3>2. QED
      BY <1>1, <3>1 DEF Task, Steps
  <2>3. task' = [task EXCEPT ![w] = t]
    BY <1>3 DEF TradeInv, TypeOK
  <2>4. TradeOf(t) = x
    BY <2>2 DEF TradeOf, TradedQty
  <2>5. /\ task[w].order \in DOMAIN orders /\ task[w].counter \in DOMAIN orders
        /\ task[w].orderFilled < orders[task[w].order].quantity
        /\ task[w].counterFilled < orders[task[w].counter].quantity
        /\ orders[task[w].counter].asset = orders[task[w].order].asset
        /\ Acceptable(task[w].order, task[w].counter)
    BY <1>1, MatcherIsSound
  <2>6. x \in Trade
    BY <1>1, <2>5, TradeIsSound DEF TradeInv
  <2>7. LET b == orders[x.buyOrder]
            s == orders[x.sellOrder]
        IN  /\ x.buyOrder \in DOMAIN orders /\ x.sellOrder \in DOMAIN orders
            /\ b.side = "buy" /\ s.side = "sell"
            /\ b.asset = x.asset /\ s.asset = x.asset
            /\ b.owner = x.buyer /\ s.owner = x.seller /\ x.buyer # x.seller
            /\ s.price <= x.price /\ x.price <= b.price
            /\ 0 < x.quantity
            /\ x.quantity <= b.quantity /\ x.quantity <= s.quantity
    BY <1>1, <2>5, TradeIsSound DEF TradeInv
  <2> HIDE DEF t, x
  <2>8. /\ trades' \in Seq(Trade) /\ DOMAIN trades' = 1 .. (Len(trades) + 1)
        /\ \A n \in DOMAIN trades : trades'[n] = trades[n]
        /\ trades'[Len(trades) + 1] = x
    BY <1>3, <2>1, <2>6, AppendProperties, LenProperties DEF x
  <2>9. /\ task' \in [Workers -> Task] /\ task'[w] = t
        /\ \A v \in Workers \ {w} : task'[v] = task[v]
    BY <2>2, <2>3 DEF TradeInv, TypeOK
  <2>10. RowsKept
    BY <1>1 DEF RowsKept
  <2>11. TypeOK'
    BY <1>1, <2>8, <2>9 DEF TradeInv, TypeOK
  <2>12. FillsAgreeWithStatus'
    BY <1>1 DEF TradeInv, FillsAgreeWithStatus
  <2>13. TasksAreCurrent'
    <3> SUFFICES ASSUME NEW v \in Workers PROVE TaskIsCurrent(v)'
      BY DEF TasksAreCurrent
    <3>1. \A n \in DOMAIN trades : n # Len(trades) + 1
      BY <2>1
    <3>2. CASE v = w
      <4>1. \A s \in settlements : s.trade # Len(trades) + 1
        BY <3>1 DEF TradeInv, SettlementsMirrorTrades
      <4>2. \A u \in Workers \ {w} : task[u].trade # Len(trades) + 1
        <5>1. \A u \in Workers : task[u].trade = 0 \/ task[u].trade \in DOMAIN trades
          BY DEF TradeInv, TasksAreCurrent, TaskIsCurrent
        <5>2. QED
          BY <2>1, <3>1, <5>1
      <4>3. (TradeOf(task[w]))' = x
        BY <1>1, <2>4, <2>9 DEF TradeOf, TradedQty
      <4>4. QED
        BY <1>1, <2>1, <2>2, <2>5, <2>8, <2>9, <3>2, <4>1, <4>2, <4>3
           DEF TaskIsCurrent, Acceptable
    <3>3. CASE v # w
      BY <1>1, <2>1, <2>2, <2>8, <2>9, <2>10, <3>1, <3>3, OtherTasksStayCurrent
         DEF TradeInv, TasksAreCurrent
    <3>4. QED
      BY <3>2, <3>3
  <2>14. TradesHonourOrders'
    <3> SUFFICES ASSUME NEW n \in DOMAIN trades'
                 PROVE  LET y == trades'[n]
                            b == orders[y.buyOrder]
                            s == orders[y.sellOrder]
                        IN  /\ y.buyOrder \in DOMAIN orders /\ y.sellOrder \in DOMAIN orders
                            /\ b.side = "buy" /\ s.side = "sell"
                            /\ b.asset = y.asset /\ s.asset = y.asset
                            /\ b.owner = y.buyer /\ s.owner = y.seller /\ y.buyer # y.seller
                            /\ s.price <= y.price /\ y.price <= b.price
                            /\ 0 < y.quantity
                            /\ y.quantity <= b.quantity /\ y.quantity <= s.quantity
      BY <1>1 DEF TradesHonourOrders
    <3>1. CASE n = Len(trades) + 1
      BY <2>7, <2>8, <3>1
    <3>2. CASE n \in DOMAIN trades
      BY <2>8, <3>2 DEF TradeInv, TradesHonourOrders
    <3>3. QED
      BY <2>1, <2>8, <3>1, <3>2
  <2>15. SettlementsMirrorTrades'
    <3>1. \A s \in settlements :
            s.trade \in DOMAIN trades /\ s = SettlementOf(s.trade, trades[s.trade])
      BY DEF TradeInv, SettlementsMirrorTrades
    <3>2. \A s \in settlements :
            s.trade \in DOMAIN trades' /\ s = SettlementOf(s.trade, trades'[s.trade])
      BY <2>1, <2>8, <3>1
    <3>3. QED
      BY <1>1, <3>2 DEF TradeInv, SettlementsMirrorTrades, SettlementOf
  <2>16. QED
    BY <2>10, <2>11, <2>12, <2>13, <2>14, <2>15 DEF TradeInv
<1>4. QED
  BY <1>2, <1>3 DEF InsertTrade

\* A step past the INSERT of the trade: the worker keeps everything it relies on
\* and moves to the next statement, which may write one order row.
LEMMA FillStepKeepsInv ==
    ASSUME TradeInv, NEW w \in Workers,
           task[w].step \in {"fillOrder", "fillCounter"},
           NEW next \in {"fillCounter", "insertSettlement"},
           task' = [task EXCEPT ![w].step = next],
           trades' = trades, settlements' = settlements,
           orders' \in Seq(Order), RowsKept, FillsAgreeWithStatus'
    PROVE  TradeInv' /\ RowsKept
<1> DEFINE t == [task[w] EXCEPT !.step = next]
<1>1. /\ task[w] \in Task /\ t \in Task /\ t.step = next
      /\ t.order = task[w].order /\ t.orderFilled = task[w].orderFilled
      /\ t.counter = task[w].counter /\ t.counterFilled = task[w].counterFilled
      /\ t.trade = task[w].trade
  BY MatcherIsSound DEF Task, Steps
<1>2. task' = [task EXCEPT ![w] = t]
  BY DEF TradeInv, TypeOK
<1> HIDE DEF t
<1>3. /\ task' \in [Workers -> Task] /\ task'[w] = t
      /\ \A v \in Workers \ {w} : task'[v] = task[v]
  BY <1>1, <1>2 DEF TradeInv, TypeOK
<1>4. TypeOK'
  BY <1>3 DEF TradeInv, TypeOK
<1>5. TasksAreCurrent'
  <2> SUFFICES ASSUME NEW v \in Workers PROVE TaskIsCurrent(v)'
    BY DEF TasksAreCurrent
  <2>1. \A u \in Workers : task'[u].trade = task[u].trade
    BY <1>1, <1>3
  <2>2. CASE v = w
    <3>1. /\ task[w].order \in DOMAIN orders /\ task[w].counter \in DOMAIN orders
          /\ task[w].orderFilled < orders[task[w].order].quantity
          /\ task[w].counterFilled < orders[task[w].counter].quantity
          /\ orders[task[w].counter].asset = orders[task[w].order].asset
          /\ Acceptable(task[w].order, task[w].counter)
          /\ task[w].trade \in DOMAIN trades
          /\ trades[task[w].trade] = TradeOf(task[w])
          /\ \A s \in settlements : s.trade # task[w].trade
          /\ \A u \in Workers \ {w} : task[u].trade # task[w].trade
      BY MatcherIsSound DEF TradeInv, TasksAreCurrent, TaskIsCurrent
    <3>2. \A o \in {task[w].order, task[w].counter} :
             /\ o \in DOMAIN orders'
             /\ orders'[o].owner = orders[o].owner /\ orders'[o].asset = orders[o].asset
             /\ orders'[o].side = orders[o].side /\ orders'[o].price = orders[o].price
             /\ orders'[o].quantity = orders[o].quantity
      BY <3>1 DEF RowsKept
    <3>3. TradedQty(task[w])' = TradedQty(task[w])
      BY <1>1, <1>3, <3>2 DEF TradedQty
    <3>4. TradeOf(task[w])' = TradeOf(task[w])
      BY <1>1, <1>3, <3>2, <3>3 DEF TradeOf
    <3>5. Acceptable(task[w].order, task[w].counter)'
      BY <1>1, <1>3, <3>1, <3>2 DEF Acceptable
    <3>6. QED
      BY <1>1, <1>3, <2>1, <2>2, <3>1, <3>2, <3>4, <3>5 DEF TaskIsCurrent
  <2>3. CASE v # w
    BY <1>3, <2>1, <2>3, OtherTasksStayCurrent DEF TradeInv, TasksAreCurrent
  <2>4. QED
    BY <2>2, <2>3
<1>6. TradesHonourOrders' /\ SettlementsMirrorTrades'
  BY OldTradesStayHonoured, OldSettlementsStayMirrored DEF TradeInv
<1>7. QED
  BY <1>4, <1>5, <1>6 DEF TradeInv

LEMMA FillOrderKeepsInv ==
    ASSUME TradeInv, NEW w \in Workers, FillOrder(w)
    PROVE  TradeInv' /\ RowsKept
<1> DEFINE o == task[w].order
           f == task[w].orderFilled + TradedQty(task[w])
<1>1. /\ task[w].step = "fillOrder" /\ trades' = trades /\ settlements' = settlements
      /\ task' = [task EXCEPT ![w].step = "fillCounter"]
  BY DEF FillOrder
<1>2. f \in Nat \ {0} /\ f <= orders[o].quantity /\ o \in DOMAIN orders
  <2>1. TradedQty(task[w]) \in Nat \ {0} /\ f <= orders[o].quantity
    BY <1>1, MatcherIsSound, TradeIsSound DEF TradeInv
  <2>2. task[w].orderFilled \in Nat /\ o \in DOMAIN orders
    BY <1>1, MatcherIsSound DEF Task
  <2>3. QED
    BY <2>1, <2>2
<1>3. CASE Fill(o, f)
  <2> HIDE DEF o, f
  <2>1. orders' \in Seq(Order) /\ RowsKept /\ FillsAgreeWithStatus'
    BY <1>2, <1>3, FillKeeps DEF TradeInv
  <2>2. QED
    BY <1>1, <2>1, FillStepKeepsInv
<1>4. CASE orders' = orders
  BY <1>1, <1>4, FillStepKeepsInv DEF TradeInv, TypeOK, RowsKept, FillsAgreeWithStatus
<1>5. QED
  BY <1>3, <1>4 DEF FillOrder

LEMMA FillCounterKeepsInv ==
    ASSUME TradeInv, NEW w \in Workers, FillCounter(w)
    PROVE  TradeInv' /\ RowsKept
<1> DEFINE c == task[w].counter
           f == task[w].counterFilled + TradedQty(task[w])
<1>1. /\ task[w].step = "fillCounter" /\ trades' = trades /\ settlements' = settlements
      /\ task' = [task EXCEPT ![w].step = "insertSettlement"]
  BY DEF FillCounter
<1>2. f \in Nat \ {0} /\ f <= orders[c].quantity /\ c \in DOMAIN orders
  <2>1. TradedQty(task[w]) \in Nat \ {0} /\ f <= orders[c].quantity
    BY <1>1, MatcherIsSound, TradeIsSound DEF TradeInv
  <2>2. task[w].counterFilled \in Nat /\ c \in DOMAIN orders
    BY <1>1, MatcherIsSound DEF Task
  <2>3. QED
    BY <2>1, <2>2
<1>3. CASE Fill(c, f)
  <2> HIDE DEF c, f
  <2>1. orders' \in Seq(Order) /\ RowsKept /\ FillsAgreeWithStatus'
    BY <1>2, <1>3, FillKeeps DEF TradeInv
  <2>2. QED
    BY <1>1, <2>1, FillStepKeepsInv
<1>4. CASE orders' = orders
  BY <1>1, <1>4, FillStepKeepsInv DEF TradeInv, TypeOK, RowsKept, FillsAgreeWithStatus
<1>5. QED
  BY <1>3, <1>4 DEF FillCounter

LEMMA InsertSettlementKeepsInv ==
    ASSUME TradeInv, NEW w \in Workers, InsertSettlement(w)
    PROVE  TradeInv' /\ RowsKept
<1> DEFINE x == SettlementOf(task[w].trade, TradeOf(task[w]))
<1>1. /\ task[w].step = "insertSettlement" /\ orders' = orders /\ trades' = trades
      /\ task' = [task EXCEPT ![w] = Idle]
  BY DEF InsertSettlement
<1>2. CASE settlements' = settlements
  BY <1>1, <1>2, IdleIsATask, MovingOnKeepsInv
<1>3. CASE settlements' = settlements \cup {x}
  <2>1. /\ task[w].trade \in DOMAIN trades /\ trades[task[w].trade] = TradeOf(task[w])
        /\ \A s \in settlements : s.trade # task[w].trade
        /\ \A v \in Workers \ {w} : task[v].trade # task[w].trade
    BY <1>1 DEF TradeInv, TasksAreCurrent, TaskIsCurrent
  <2>2. x \in Settlement /\ x.trade = task[w].trade
    BY <2>1, RowTypes DEF TradeInv, Settlement, SettlementOf, Trade
  <2>3. /\ task' \in [Workers -> Task] /\ task'[w] = Idle
        /\ \A v \in Workers \ {w} : task'[v] = task[v]
    BY <1>1, IdleIsATask DEF TradeInv, TypeOK
  <2>4. RowsKept
    BY <1>1 DEF RowsKept
  <2>5. TypeOK'
    BY <1>1, <1>3, <2>2, <2>3 DEF TradeInv, TypeOK
  <2>6. FillsAgreeWithStatus'
    BY <1>1 DEF TradeInv, FillsAgreeWithStatus
  <2>7. TasksAreCurrent'
    <3> SUFFICES ASSUME NEW v \in Workers PROVE TaskIsCurrent(v)'
      BY DEF TasksAreCurrent
    <3>1. CASE v = w
      BY <2>3, <3>1 DEF TaskIsCurrent, Idle
    <3>2. CASE v # w
      <4>1. \A s \in settlements' \ settlements : s.trade # task[v].trade
        BY <1>3, <2>1, <2>2, <3>2
      <4>2. task[v].trade \in DOMAIN trades => task'[w].trade # task[v].trade
        BY <2>3, IdleIsATask, RowTypes DEF TradeInv
      <4>3. QED
        BY <1>1, <2>3, <2>4, <3>2, <4>1, <4>2, OtherTasksStayCurrent
           DEF TradeInv, TasksAreCurrent
    <3>3. QED
      BY <3>1, <3>2
  <2>8. TradesHonourOrders'
    BY <1>1, <2>4, OldTradesStayHonoured DEF TradeInv
  <2>9. SettlementsMirrorTrades'
    <3>1. x = SettlementOf(x.trade, trades[x.trade]) /\ x.trade \in DOMAIN trades
      BY <2>1, <2>2
    <3> HIDE DEF x
    <3>2. \A s \in settlements' : s.trade \in DOMAIN trades /\ s = SettlementOf(s.trade, trades[s.trade])
      BY <1>3, <3>1 DEF TradeInv, SettlementsMirrorTrades
    <3>3. \A s1, s2 \in settlements' : s1.trade = s2.trade => s1 = s2
      BY <3>2
    <3>4. QED
      BY <1>1, <3>2, <3>3 DEF SettlementsMirrorTrades, SettlementOf
  <2>10. QED
    BY <2>4, <2>5, <2>6, <2>7, <2>8, <2>9 DEF TradeInv
<1>4. QED
  BY <1>2, <1>3 DEF InsertSettlement

LEMMA CrashKeepsInv ==
    ASSUME TradeInv, Crash
    PROVE  TradeInv' /\ RowsKept
<1>1. /\ orders' = orders /\ trades' = trades /\ settlements' = settlements
      /\ task' = [w \in Workers |-> Idle]
  BY DEF Crash
<1>2. RowsKept
  BY <1>1 DEF RowsKept
<1>3. TypeOK'
  BY <1>1, IdleIsATask DEF TradeInv, TypeOK
<1>4. FillsAgreeWithStatus'
  BY <1>1 DEF TradeInv, FillsAgreeWithStatus
<1>5. TasksAreCurrent'
  BY <1>1 DEF TasksAreCurrent, TaskIsCurrent, Idle
<1>6. TradesHonourOrders' /\ SettlementsMirrorTrades'
  BY <1>1, <1>2, OldTradesStayHonoured, OldSettlementsStayMirrored DEF TradeInv
<1>7. QED
  BY <1>2, <1>3, <1>4, <1>5, <1>6 DEF TradeInv

-----------------------------------------------------------------------------
(* The theorems *)

LEMMA InitTradeInv == Init => TradeInv
<1> SUFFICES ASSUME Init PROVE TradeInv
  OBVIOUS
<1>1. TypeOK
  BY IdleIsATask DEF Init, TypeOK
<1>2. FillsAgreeWithStatus /\ TradesHonourOrders /\ SettlementsMirrorTrades
  BY DEF Init, FillsAgreeWithStatus, TradesHonourOrders, SettlementsMirrorTrades
<1>3. TasksAreCurrent
  BY DEF Init, TasksAreCurrent, TaskIsCurrent, Idle
<1>4. QED
  BY <1>1, <1>2, <1>3 DEF TradeInv

LEMMA NextKeepsInv == TradeInv /\ [Next]_vars => TradeInv' /\ RowsKept
<1> SUFFICES ASSUME TradeInv, [Next]_vars PROVE TradeInv' /\ RowsKept
  OBVIOUS
<1>1. ASSUME NEW u \in Users, NEW a \in Assets, NEW s \in Sides, NEW p \in Prices,
             NEW q \in Quantities, PlaceOrder(u, a, s, p, q)
      PROVE  TradeInv' /\ RowsKept
  BY <1>1, PlaceOrderKeepsInv
<1>2. ASSUME NEW w \in Workers, CancelOrder(w)
      PROVE  TradeInv' /\ RowsKept
  BY <1>2, StartCancelKeepsInv, FinishCancelKeepsInv DEF CancelOrder
<1>3. ASSUME NEW w \in Workers, MatchOrder(w)
      PROVE  TradeInv' /\ RowsKept
  BY <1>3, StartMatchKeepsInv, ReadBookKeepsInv, InsertTradeKeepsInv, FillOrderKeepsInv,
     FillCounterKeepsInv, InsertSettlementKeepsInv DEF MatchOrder
<1>4. CASE Crash
  BY <1>4, CrashKeepsInv
<1>5. CASE UNCHANGED vars
  <2>1. TypeOK' /\ FillsAgreeWithStatus' /\ RowsKept
    BY <1>5 DEF TradeInv, vars, TypeOK, FillsAgreeWithStatus, RowsKept
  <2>2. TradesHonourOrders' /\ SettlementsMirrorTrades'
    BY <1>5, <2>1, OldTradesStayHonoured, OldSettlementsStayMirrored DEF TradeInv, vars
  <2>3. TasksAreCurrent'
    BY <1>5, <2>1, OtherTasksStayCurrent DEF TradeInv, vars, TasksAreCurrent
  <2>4. QED
    BY <2>1, <2>2, <2>3 DEF TradeInv
<1>6. QED
  BY <1>1, <1>2, <1>3, <1>4, <1>5 DEF Next

\* The inductive invariant holds in every reachable state of the secondary market,
\* for any number of users, assets and workers and any book limit.
THEOREM TradeInvariant == Spec => []TradeInv
<1>1. QED
  BY InitTradeInv, NextKeepsInv, PTL DEF Spec

\* The tables and the tasks of the workers keep their types.
THEOREM TypeCorrect == Spec => []TypeOK
<1>1. TradeInv => TypeOK
  BY DEF TradeInv
<1>2. QED
  BY <1>1, TradeInvariant, PTL

\* However requests interleave, fail or die, every trade MatchOrder inserts is one
\* both owners asked for.
THEOREM TradesAreHonoured == Spec => []TradesHonourOrders
<1>1. TradeInv => TradesHonourOrders
  BY DEF TradeInv
<1>2. QED
  BY <1>1, TradeInvariant, PTL

\* A trade has at most one settlement, and it says what the trade says.
THEOREM SettlementsAreMirrored == Spec => []SettlementsMirrorTrades
<1>1. TradeInv => SettlementsMirrorTrades
  BY DEF TradeInv
<1>2. QED
  BY <1>1, TradeInvariant, PTL

\* The racing absolute overwrites of UpdateOrderFill never fill a row beyond its
\* quantity and never leave filled_qty and status in disagreement.
THEOREM FillsAgree == Spec => []FillsAgreeWithStatus
<1>1. TradeInv => FillsAgreeWithStatus
  BY DEF TradeInv
<1>2. QED
  BY <1>1, TradeInvariant, PTL

\* What a worker read stays usable until its last statement.
THEOREM TasksStayCurrent == Spec => []TasksAreCurrent
<1>1. TradeInv => TasksAreCurrent
  BY DEF TradeInv
<1>2. QED
  BY <1>1, TradeInvariant, PTL

\* What one step does to the history: nothing but append.
History ==
    /\ \A o \in DOMAIN orders : orders'[o].status = "pending" => orders[o].status = "pending"
    /\ \A n \in DOMAIN trades : n \in DOMAIN trades' /\ trades'[n] = trades[n]
    /\ settlements \subseteq settlements'

LEMMA NextKeepsHistory == TradeInv /\ [Next]_vars => History
<1> SUFFICES ASSUME TradeInv, [Next]_vars PROVE History
  OBVIOUS
<1>1. ASSUME NEW u \in Users, NEW a \in Assets, NEW s \in Sides, NEW p \in Prices,
             NEW q \in Quantities, PlaceOrder(u, a, s, p, q)
      PROVE  History
  <2> DEFINE row == [owner |-> u, asset |-> a, side |-> s, price |-> p,
                     quantity |-> q, filled |-> 0, status |-> "pending"]
  <2>1. row \in Order
    BY TradeAssumption DEF Order, OrderStatus
  <2>2. /\ orders \in Seq(Order) /\ orders' = Append(orders, row)
        /\ trades' = trades /\ settlements' = settlements
    BY <1>1 DEF TradeInv, TypeOK, PlaceOrder
  <2> HIDE DEF row
  <2>3. \A o \in DOMAIN orders : orders'[o] = orders[o]
    BY <2>1, <2>2, AppendProperties, LenProperties
  <2>4. QED
    BY <2>2, <2>3 DEF History
<1>2. ASSUME NEW w \in Workers, FinishCancel(w)
      PROVE  History
  BY <1>2, CancelKeeps DEF FinishCancel, History, TradeInv, TasksAreCurrent, TaskIsCurrent
<1>3. ASSUME NEW w \in Workers, InsertTrade(w)
      PROVE  History
  <2>1. orders' = orders /\ settlements' = settlements
    BY <1>3 DEF InsertTrade
  <2>2. CASE trades' = trades
    BY <2>1, <2>2 DEF History
  <2>3. CASE trades' = Append(trades, TradeOf(task[w]))
    <3>1. trades \in Seq(Trade) /\ TradeOf(task[w]) \in Trade
      BY <1>3, MatcherIsSound, TradeIsSound DEF InsertTrade, TradeInv, TypeOK
    <3>2. \A n \in DOMAIN trades : n \in DOMAIN trades' /\ trades'[n] = trades[n]
      BY <2>3, <3>1, AppendProperties, LenProperties
    <3>3. QED
      BY <2>1, <3>2 DEF History
  <2>4. QED
    BY <1>3, <2>2, <2>3 DEF InsertTrade
<1>4. ASSUME NEW o \in DOMAIN orders, NEW f \in Nat \ {0}, f <= orders[o].quantity,
             Fill(o, f), trades' = trades, settlements' = settlements
      PROVE  History
  BY <1>4, FillKeeps DEF TradeInv, History
<1>5. ASSUME NEW w \in Workers, task[w].step \in {"fillOrder", "fillCounter"}
      PROVE  /\ task[w].orderFilled + TradedQty(task[w]) \in Nat \ {0}
             /\ task[w].orderFilled + TradedQty(task[w]) <= orders[task[w].order].quantity
             /\ task[w].counterFilled + TradedQty(task[w]) \in Nat \ {0}
             /\ task[w].counterFilled + TradedQty(task[w]) <= orders[task[w].counter].quantity
             /\ task[w].order \in DOMAIN orders /\ task[w].counter \in DOMAIN orders
  <2>1. /\ TradedQty(task[w]) \in Nat \ {0}
        /\ task[w].orderFilled + TradedQty(task[w]) <= orders[task[w].order].quantity
        /\ task[w].counterFilled + TradedQty(task[w]) <= orders[task[w].counter].quantity
    BY <1>5, MatcherIsSound, TradeIsSound DEF TradeInv
  <2>2. /\ task[w].orderFilled \in Nat /\ task[w].counterFilled \in Nat
        /\ task[w].order \in DOMAIN orders /\ task[w].counter \in DOMAIN orders
    BY <1>5, MatcherIsSound DEF Task
  <2>3. QED
    BY <2>1, <2>2
<1>6. ASSUME NEW w \in Workers, FillOrder(w) \/ FillCounter(w)
      PROVE  History
  <2>1. task[w].step \in {"fillOrder", "fillCounter"} /\ trades' = trades /\ settlements' = settlements
    BY <1>6 DEF FillOrder, FillCounter
  <2>2. CASE orders' = orders
    BY <2>1, <2>2 DEF History
  <2>3. CASE Fill(task[w].order, task[w].orderFilled + TradedQty(task[w]))
    BY <1>4, <1>5, <2>1, <2>3
  <2>4. CASE Fill(task[w].counter, task[w].counterFilled + TradedQty(task[w]))
    BY <1>4, <1>5, <2>1, <2>4
  <2>5. QED
    BY <1>6, <2>2, <2>3, <2>4 DEF FillOrder, FillCounter
<1>7. CASE UNCHANGED <<orders, trades>> /\ settlements \subseteq settlements'
  BY <1>7 DEF History
<1>8. QED
  BY <1>1, <1>2, <1>3, <1>6, <1>7
     DEF Next, CancelOrder, MatchOrder, StartCancel, StartMatch, ReadBook,
         InsertSettlement, Crash, vars

\* Order rows, trades and settlements are never rewritten, and no order returns to
\* pending, whatever interleaves or fails.
THEOREM HistoryKept == Spec => HistoryIsKept
<1> DEFINE Kept ==
      /\ \A o \in DOMAIN orders :
            /\ o \in DOMAIN orders'
            /\ \A f \in {"owner", "asset", "side", "price", "quantity"} :
                  orders'[o][f] = orders[o][f]
            /\ orders'[o].status = "pending" => orders[o].status = "pending"
      /\ \A n \in DOMAIN trades : n \in DOMAIN trades' /\ trades'[n] = trades[n]
      /\ settlements \subseteq settlements'
<1>1. TradeInv /\ [Next]_vars => [Kept]_vars
  BY NextKeepsInv, NextKeepsHistory DEF RowsKept, History
<1>2. QED
  BY <1>1, TradeInvariant, PTL DEF Spec, HistoryIsKept
=============================================================================
