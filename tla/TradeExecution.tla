--------------------------- MODULE TradeExecution ---------------------------
(***************************************************************************)
(* What was traded, summed over the trades table, against what the order   *)
(* rows say, and the order book of OrderBook.tla that TradeMatching        *)
(* implements when requests are served one after the other.                *)
(***************************************************************************)
EXTENDS TradeMatching

TradesOf(o) == {n \in DOMAIN trades : o \in {trades[n].buyOrder, trades[n].sellOrder}}

\* how much of order o the trades table says was executed
Executed(o) == SumFunctionOnSet([n \in DOMAIN trades |-> trades[n].quantity], TradesOf(o))

\* The refinement mapping: the trades are the truth about what was executed.
Book == INSTANCE OrderBook WITH
    book      <- [o \in DOMAIN orders |->
                    [owner |-> orders[o].owner, asset |-> orders[o].asset,
                     side |-> orders[o].side, price |-> orders[o].price,
                     quantity |-> orders[o].quantity]],
    executed  <- [o \in DOMAIN orders |-> Executed(o)],
    withdrawn <- {o \in DOMAIN orders : orders[o].status = "cancelled"}

\* Served one request at a time and without faults, the handlers implement the
\* order book: nothing is executed beyond its quantity, or after it was cancelled,
\* although MatchOrder takes six statements (service.go:74-194).
ImplementsOrderBook == Book!Spec

\* No row claims an execution that did not happen: under any interleaving, fault
\* or crash filled_qty is at most what the trades of the order add up to, because
\* the trade is inserted before either row is updated (service.go:159-176).
NoPhantomFill == \A o \in DOMAIN orders : orders[o].filled <= Executed(o)

\* Served one at a time and without faults, an order at rest is filled by exactly
\* its trades, and every trade has its settlement (service.go:159-188).
BooksBalanceAtRest ==
    Busy = {} =>
        /\ \A o \in DOMAIN orders : orders[o].filled = Executed(o)
        /\ {s.trade : s \in settlements} = DOMAIN trades

-----------------------------------------------------------------------------
(* What the code and its comments say and racing requests break *)

\* "OrderFilled ... 全部成交" (fully traded), model.go:31: an order marked filled
\* traded its quantity.  Two matchers that read it before either updated it each
\* trade it in full: it is traded twice.
FilledMeansFullyTraded ==
    \A o \in DOMAIN orders :
        orders[o].status = "filled" /\ Busy = {} => Executed(o) = orders[o].quantity

\* "CancelOrder cancels a pending order", service.go:58: an order that is cancelled
\* is out of the book for good.  A matcher that read it before overwrites the status.
CancelledStaysCancelled ==
    [][\A o \in DOMAIN orders :
          orders[o].status = "cancelled" => orders'[o].status = "cancelled"]_vars

\* "MatchOrder matches an order against the order book (price-time priority)",
\* service.go:73: the counterparty chosen has the best price of the acceptable
\* orders in the book, and is the oldest at that price.  The code takes the oldest.
Better(o, c, d) ==
    IF orders[o].side = "buy" THEN orders[c].price < orders[d].price
                              ELSE orders[c].price > orders[d].price

PriceTimePriority ==
    [][\A w \in Workers :
          task[w].step = "readBook" /\ task'[w].step = "insertTrade" =>
             LET o == task[w].order
                 c == task'[w].counter
             IN  \A d \in Counters(o) :
                    ~Better(o, d, c) /\ (orders[d].price = orders[c].price => c <= d)]_vars

\* "TypeMarket ... 市价单" (order at the market price), model.go:21: a market order
\* trades at the other side's price.  A resting market sell has the empty price, and
\* the trade is made at the resting order's price: at nothing.
MarketOrdersTradeAtAPrice ==
    \A n \in DOMAIN trades :
        orders[trades[n].buyOrder].price > 0 \/ orders[trades[n].sellOrder].price > 0
            => trades[n].price > 0
=============================================================================
