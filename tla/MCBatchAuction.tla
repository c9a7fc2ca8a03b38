---------------------------- MODULE MCBatchAuction ----------------------------
(***************************************************************************)
(* Clears every batch of at most MaxOrders participants with the shapes in *)
(* Shapes, for every reference price and allocation priority of the        *)
(* instance, and compares the outcome with what the auction promises.      *)
(***************************************************************************)
EXTENDS BatchAuction

CONSTANTS MaxOrders, Shapes, References, Priorities

VARIABLES batch, reference, prio, outcome
vars == <<batch, reference, prio, outcome>>

NotCleared == [ok |-> TRUE, fills |-> <<>>]

\* The participants of a batch: the n-th one submitted has id n.
Participants ==
    {[id |-> n, private |-> batch[n].private, side |-> batch[n].side,
      market |-> batch[n].market, price |-> batch[n].price, tif |-> batch[n].tif,
      quantity |-> batch[n].quantity] : n \in DOMAIN batch}

Init ==
    /\ batch = <<>> /\ outcome = NotCleared
    /\ reference \in References /\ prio \in Priorities

\* A participant joins the batch before it is cleared.
Join ==
    /\ outcome = NotCleared /\ Len(batch) < MaxOrders
    /\ \E shape \in Shapes : batch' = Append(batch, shape)
    /\ UNCHANGED <<reference, prio, outcome>>

\* The same auction with one round for its FOK search, which batches of this
\* size exhaust, as larger ones may exhaust the code's rounds.
Hurried == INSTANCE BatchAuction WITH RoundFactor <- 0, RoundBase <- 1

Clear ==
    /\ outcome = NotCleared /\ batch # <<>>
    /\ outcome' \in {ClearPrivateBatch(Participants, reference, prio),
                    Hurried!ClearPrivateBatch(Participants, reference, prio)}
    /\ UNCHANGED <<batch, reference, prio>>

Next == Join \/ Clear

Spec == Init /\ [][Next]_vars

-----------------------------------------------------------------------------
Cleared == outcome # NotCleared

Orders == {ToAuctionOrder(p, reference \div TickSize) : p \in Participants}

\* The volume that can change hands at a price if orders may be split.
VolumeAt(orders, price) ==
    Least(TotalQuantity(Eligible(orders, Buy, price)), TotalQuantity(Eligible(orders, Sell, price)))

\* Every price an order could trade at, not only the candidates.
AllPrices == 0 .. Max({reference} \cup {o.price : o \in Orders}) + 1

MaxVolume(orders) == Max({VolumeAt(orders, p) : p \in AllPrices})

(***************************************************************************)
(* Clearing a batch of admissible participants at an aligned reference     *)
(* price never fails: the FOK search ends, lots lost to rounding are all   *)
(* distributed, FOK orders stay atomic, both sides trade the same quantity *)
(* and the pairing uses it up.  A failure here is a failed mandatory       *)
(* system transaction.                                                     *)
(***************************************************************************)
ClearingSucceeds == outcome.ok

(***************************************************************************)
(* The outcome clear_batch's comment promises, against a declarative       *)
(* definition.  FOK orders never cost the others volume: at least as much  *)
(* changes hands as would at the best price, over all prices, if only the  *)
(* divisible orders were there; and never more than all orders together    *)
(* allow.  Without FOK orders the price is, among the candidates of largest*)
(* volume, the one of least imbalance, then nearest to the reference       *)
(* price, then lowest.                                                     *)
(***************************************************************************)
VolumeIsMaximal ==
    Cleared => /\ outcome.matched >= MaxVolume({o \in Orders : ~o.fok})
               /\ outcome.matched <= MaxVolume(Orders)

PriceIsBest ==
    (Cleared /\ outcome.matched > 0 /\ \A o \in Orders : ~o.fok) =>
      LET ref == reference \div TickSize
          imbalance(p) == Abs(TotalQuantity(Eligible(Orders, Buy, p))
                              - TotalQuantity(Eligible(Orders, Sell, p)))
          least(S, f(_)) == {p \in S : \A q \in S : f(p) <= f(q)}
          limits == {o.price : o \in {o \in Orders : ~o.market}}
          largest == {p \in {ref} \cup limits : VolumeAt(Orders, p) = MaxVolume(Orders)}
      IN {outcome.price \div TickSize} =
         least(least(least(largest, imbalance), LAMBDA p : Abs(p - ref)), LAMBDA p : p)

OutcomeIsBest == VolumeIsMaximal /\ PriceIsBest

(***************************************************************************)
(* Nobody trades more than asked, beyond the limit price, or, for a market *)
(* order, further from the reference price than the slippage limit.  And   *)
(* while a divisible order that could trade at the clearing price is not   *)
(* filled completely, no order behind it on its side trades at all.        *)
(***************************************************************************)
LimitsRespected ==
    Cleared => \A p \in Participants :
      /\ outcome.got[p.id] \in 0 .. p.quantity
      /\ outcome.got[p.id] > 0 =>
           IF p.market
           THEN p.side * (reference * (RateUnit + p.side * SlippageLimit)
                          - outcome.price * RateUnit) >= 0
           ELSE p.side * (p.price - outcome.price) >= 0

PricePriority ==
    Cleared => \A o, behind \in Orders :
      (/\ o.side = behind.side /\ ~o.fok /\ ~behind.market
       /\ o.market \/ o.side * (o.price - behind.price) > 0
       /\ o.side * (o.price * TickSize - outcome.price) >= 0
       /\ outcome.got[behind.id] > 0) => outcome.got[o.id] = o.quantity

PricesRespected == LimitsRespected /\ PricePriority

(***************************************************************************)
(* Divisible orders of one side and price trade in proportion to their     *)
(* quantities, up to the one lot by which rounding may move each of them,  *)
(* and the fills written to the trade history add up to what every order   *)
(* was given.                                                              *)
(***************************************************************************)
FairShare ==
    Cleared => \A o1, o2 \in Orders :
      (/\ o1.side = o2.side /\ ~o1.fok /\ ~o2.fok /\ o1.id # o2.id
       /\ ~o1.market /\ ~o2.market /\ o1.price = o2.price) =>
      Abs(outcome.got[o1.id] * o2.quantity - outcome.got[o2.id] * o1.quantity)
        < o1.quantity + o2.quantity

FillsMatchAllocations ==
    Cleared => \A p \in Participants :
      LET mine == {k \in DOMAIN outcome.fills :
                     p.id \in {outcome.fills[k].buy, outcome.fills[k].sell}}
      IN MapThenSumSet(LAMBDA k : outcome.fills[k].lots, mine) = outcome.got[p.id]

AllocationsFair == FairShare /\ FillsMatchAllocations

-----------------------------------------------------------------------------
(* The instance *)

Limit(side, price, tif, quantity) ==
    [private |-> tif # "Gtc", side |-> side, market |-> FALSE, price |-> price, tif |-> tif,
     quantity |-> quantity]

Market(side, tif, quantity) ==
    [private |-> TRUE, side |-> side, market |-> TRUE, price |-> NoPrice, tif |-> tif,
     quantity |-> quantity]

MCShapes ==
    {Limit(Buy, 14, "Gtc", 2), Limit(Buy, 18, "Gtc", 3), Limit(Buy, 22, "Ioc", 2),
     Limit(Buy, 22, "Ioc", 5), Limit(Buy, 22, "Fok", 3), Market(Buy, "Ioc", 2),
     Market(Buy, "Fok", 4),
     Limit(Sell, 22, "Gtc", 3), Limit(Sell, 18, "Gtc", 2), Limit(Sell, 14, "Ioc", 3),
     Limit(Sell, 14, "Fok", 2), Market(Sell, "Ioc", 3), Market(Sell, "Fok", 3)}

MCReferences == {16, 18}

MCPriorities == {<<1, 2, 3, 4, 5>>, <<5, 4, 3, 2, 1>>}
=============================================================================
