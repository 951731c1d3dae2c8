----------------------------- MODULE OrderBook -----------------------------
(***************************************************************************)
(* What an order book promises its users, with no word about how it keeps  *)
(* its promise: an order is placed once, may be withdrawn while some of it *)
(* is left, and is executed in deals with acceptable counterparties, never *)
(* beyond its quantity and never after it was withdrawn.                   *)
(***************************************************************************)
EXTENDS Integers, Sequences, FiniteSets

CONSTANTS Users, Assets, Prices, Quantities

VARIABLES
    book,       \* the orders, in the order they were placed
    executed,   \* executed[o]: how much of order o was dealt
    withdrawn   \* the orders withdrawn

bookVars == <<book, executed, withdrawn>>

Left(o) == book[o].quantity - executed[o]
Live(o) == o \notin withdrawn /\ Left(o) > 0

Init ==
    /\ book = <<>>
    /\ executed = <<>>
    /\ withdrawn = {}

Place ==
    /\ \E u \in Users, a \in Assets, s \in {"buy", "sell"}, p \in Prices, q \in Quantities :
          book' = Append(book, [owner |-> u, asset |-> a, side |-> s, price |-> p, quantity |-> q])
    /\ executed' = Append(executed, 0)
    /\ UNCHANGED withdrawn

Withdraw(o) ==
    /\ Live(o)
    /\ withdrawn' = withdrawn \cup {o}
    /\ UNCHANGED <<book, executed>>

Deal(b, s, q) ==
    /\ Live(b) /\ Live(s)
    /\ book[b].side = "buy" /\ book[s].side = "sell"
    /\ book[b].asset = book[s].asset
    /\ book[b].owner # book[s].owner
    /\ book[b].price >= book[s].price
    /\ q \in 1 .. Left(b) /\ q <= Left(s)
    /\ executed' = [executed EXCEPT ![b] = @ + q, ![s] = @ + q]
    /\ UNCHANGED <<book, withdrawn>>

Next ==
    \/ Place
    \/ \E o \in DOMAIN book : Withdraw(o)
    \/ \E b, s \in DOMAIN book : \E q \in 1 .. book[b].quantity : Deal(b, s, q)

Spec == Init /\ [][Next]_bookVars
=============================================================================
