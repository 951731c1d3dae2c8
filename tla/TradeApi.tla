------------------------------ MODULE TradeApi ------------------------------
(***************************************************************************)
(* The HTTP handlers in front of TradeMatching.  The authentication        *)
(* middleware stores the caller's id as a uuid.UUID; the trade handlers    *)
(* ask gin for a string, get "" and parse it, with the error dropped, to   *)
(* the nil id.  Whoever calls, the service is called for the nil user.     *)
(***************************************************************************)
EXTENDS TradeMatching

CONSTANTS
    Callers,    \* authenticated users
    NilUser     \* uuid.Nil: Users is {NilUser} in the instances and the proofs

VARIABLES
    placedBy,   \* placedBy[o]: the caller whose request placed order o
    servedFor   \* servedFor[w]: the caller of the cancel request worker w serves

apiVars == <<vars, placedBy, servedFor>>

\* uuid.Parse(c.GetString("user_id")), where the context holds a uuid.UUID
UserOf(caller) == NilUser

ApiInit ==
    /\ Init
    /\ placedBy = <<>>
    /\ servedFor = [w \in Workers |-> NilUser]

PlaceOrderRequest(c, a, s, p, q) ==
    /\ PlaceOrder(UserOf(c), a, s, p, q)
    /\ placedBy' = Append(placedBy, c)
    /\ UNCHANGED servedFor

CancelOrderRequest(c, w, o) ==
    /\ StartCancel(w, UserOf(c), o)
    /\ servedFor' = [servedFor EXCEPT ![w] = c]
    /\ UNCHANGED placedBy

\* the remaining statements of the handlers, and the admin's MatchOrder
ServiceStep ==
    /\ Crash \/ \E w \in Workers : FinishCancel(w) \/ MatchOrder(w)
    /\ UNCHANGED <<placedBy, servedFor>>

ApiNext ==
    \/ \E c \in Callers, a \in Assets, s \in Sides, p \in Prices, q \in Quantities :
          PlaceOrderRequest(c, a, s, p, q)
    \/ \E c \in Callers, w \in Workers, o \in DOMAIN orders : CancelOrderRequest(c, w, o)
    \/ ServiceStep

ApiSpec == ApiInit /\ [][ApiNext]_apiVars

-----------------------------------------------------------------------------
\* Every order has the nil owner, so the self-trade guard (service.go:89-91) skips
\* every counterparty: a request to match ends without a trade, whatever was placed
\* and however the requests interleave.
NoTradeThroughTheApi ==
    /\ trades = <<>> /\ settlements = {}
    /\ \A o \in DOMAIN orders : orders[o].filled = 0

\* "not your order", the refusal of service.go:65: a request is let through to
\* cancel an order only if its caller placed that order.
OnlyTheCallersOwnOrder ==
    \A w \in Workers :
        task[w].step = "cancel" => placedBy[task[w].order] = servedFor[w]
=============================================================================
