------------------------------ MODULE OrderBook ------------------------------
(***************************************************************************)
(* The continuous order book of orderbook.rs, as operators on the set of   *)
(* resting orders.  An order is                                            *)
(*   [id, account, client, side, price, remaining, leverage, reduceOnly,   *)
(*    reserved, rests]                                                     *)
(* where id is the sequence number the engine gave it and rests says that  *)
(* it is a limit order good till cancelled.  Price levels are kept in the  *)
(* order of their orders' sequence numbers, so the pair (price, id) stands *)
(* for a place in the queues.                                              *)
(***************************************************************************)
EXTENDS Domain

\* best_opposite: better price first, then the older order.
Ahead(o1, o2) ==
    LET gain == o1.side * (o1.price - o2.price)
    IN gain > 0 \/ (gain = 0 /\ o1.id < o2.id)

\* proportional_release
ProportionalRelease(reserved, before, filled) ==
    IF filled >= before THEN reserved ELSE (reserved * filled) \div before

\* Fills quantity of o.
Filled(o, quantity) ==
    [o EXCEPT !.remaining = @ - quantity,
              !.reserved = @ - ProportionalRelease(@, o.remaining, quantity)]

\* can_fully_fill: what others offer at the limit price or better.
CanFullyFill(book, side, limit, quantity, account) ==
    LET offers == {o \in book : o.side = -side /\ o.account # account /\ side * (limit - o.price) >= 0}
    IN MapThenSumSet(LAMBDA o : o.remaining, offers) >= quantity

(***************************************************************************)
(* One iteration of execute's loop.  x is [book, order, fills, released]:  *)
(* released is what self-trade prevention and an unfilled remainder give   *)
(* back to the incoming order's account.                                   *)
(***************************************************************************)
MatchStep(x) ==
    LET in == x.order
        makers == {o \in x.book : o.side = -in.side /\ Crosses(in, o.price)}
        best == CHOOSE o \in makers : \A other \in makers \ {o} : Ahead(o, other)
        rest(maker, quantity) ==
            IF maker.remaining = quantity THEN {} ELSE {Filled(maker, quantity)}
        fill(maker, quantity) ==
            [maker |-> maker.account, taker |-> in.account, side |-> in.side,
             makerLeverage |-> maker.leverage, takerLeverage |-> in.leverage,
             price |-> maker.price, quantity |-> quantity,
             makerRelease |-> ProportionalRelease(maker.reserved, maker.remaining, quantity),
             takerRelease |-> ProportionalRelease(in.reserved, in.remaining, quantity)]
        trade(maker, quantity) ==
            [x EXCEPT !.book = (@ \ {maker}) \cup rest(maker, quantity),
                      !.order = Filled(in, quantity), !.fills = Append(@, fill(maker, quantity))]
        meet(maker) ==
            IF maker.account = in.account
            THEN [x EXCEPT !.book = @ \ {maker}, !.released = @ + maker.reserved]
            ELSE trade(maker, Least(in.remaining, maker.remaining))
    IN IF in.remaining = 0 \/ makers = {} THEN x ELSE meet(best)

(***************************************************************************)
(* execute: every iteration ends the matching or removes a maker, so one   *)
(* per resting order is enough.  The remainder rests or is cancelled.      *)
(***************************************************************************)
Execute(book, incoming) ==
    LET start == [book |-> book, order |-> incoming, fills |-> <<>>, released |-> 0]
        match[n \in 0 .. Cardinality(book)] == IF n = 0 THEN start ELSE MatchStep(match[n - 1])
        finish(x) == CASE x.order.remaining = 0 -> x
                       [] incoming.rests -> [x EXCEPT !.book = @ \cup {x.order}]
                       [] OTHER -> [x EXCEPT !.released = @ + x.order.reserved]
    IN finish(match[Cardinality(book)])
=============================================================================
